--------------------------- MODULE MessagesDevice ---------------------------
(* Messages of the device itself: common, management, bootloader, debug,   *)
(* crypto and WebAuthn.                                                    *)
(* One definition per generated struct of the client: its fields in the    *)
(* order they are written, and the default its getter gives.               *)
EXTENDS ProtoFields

FailureType == (1 .. 14) \cup {99}
ButtonRequestType == 1 .. 20
PinMatrixRequestType == 1 .. 5
DebugSwipeDirection == 0 .. 3
DebugButton == 0 .. 2
DebugPhysicalButton == 0 .. 2
BackupAvailability == 0 .. 2
RecoveryStatus == 0 .. 2
Capability == 1 .. 21
SdProtectOperationType == 0 .. 2
RecoveryDeviceInputMethod == 0 .. 1
WordRequestType == 0 .. 2
BootCommand == 0 .. 1
BackupType == 0 .. 5
SafetyCheckLevel == 0 .. 2
HomescreenFormat == 1 .. 3
RecoveryType == 0 .. 2

FirmwareErase == <<Opt(1, "length", uint32)>>
FirmwareRequest == <<Req(1, "offset", uint32), Req(2, "length", uint32)>>
FirmwareUpload == <<Req(1, "payload", bytes), Opt(2, "hash", bytes)>>
ProdTestT1 == <<Opt(1, "payload", bytes)>>
Success == <<Def(1, "message", string, 0)>>
Failure == <<Opt(1, "code", Enum("FailureType")), Opt(2, "message", string)>>
ButtonRequest ==
  <<Opt(1, "code", Enum("ButtonRequestType")), Opt(2, "pages", uint32)>>
ButtonAck == <<>>
PinMatrixRequest == <<Opt(1, "type", Enum("PinMatrixRequestType"))>>
PinMatrixAck == <<Req(1, "pin", string)>>
PassphraseRequest == <<Opt(1, "_on_device", bool)>>
PassphraseAck ==
  <<Opt(1, "passphrase", string), Opt(2, "_state", bytes),
    Opt(3, "on_device", bool)>>
Deprecated_PassphraseStateRequest == <<Opt(1, "state", bytes)>>
Deprecated_PassphraseStateAck == <<>>
HDNodeType ==
  <<Req(1, "depth", uint32), Req(2, "fingerprint", uint32),
    Req(3, "child_num", uint32), Req(4, "chain_code", bytes),
    Opt(5, "private_key", bytes), Req(6, "public_key", bytes)>>
CipherKeyValue ==
  <<Rep(1, "address_n", uint32), Req(2, "key", string),
    Req(3, "value", bytes), Opt(4, "encrypt", bool),
    Opt(5, "ask_on_encrypt", bool), Opt(6, "ask_on_decrypt", bool),
    Opt(7, "iv", bytes)>>
CipheredKeyValue == <<Req(1, "value", bytes)>>
IdentityType ==
  <<Opt(1, "proto", string), Opt(2, "user", string), Opt(3, "host", string),
    Opt(4, "port", string), Opt(5, "path", string),
    Def(6, "index", uint32, 0)>>
SignIdentity ==
  <<Req(1, "identity", Msg("IdentityType")),
    Def(2, "challenge_hidden", bytes, 0),
    Def(3, "challenge_visual", string, 0),
    Opt(4, "ecdsa_curve_name", string)>>
SignedIdentity ==
  <<Opt(1, "address", string), Req(2, "public_key", bytes),
    Req(3, "signature", bytes)>>
GetECDHSessionKey ==
  <<Req(1, "identity", Msg("IdentityType")), Req(2, "peer_public_key", bytes),
    Opt(3, "ecdsa_curve_name", string)>>
ECDHSessionKey ==
  <<Req(1, "session_key", bytes), Opt(2, "public_key", bytes)>>
DebugLinkDecision ==
  <<Opt(1, "button", Enum("DebugButton")),
    Opt(2, "swipe", Enum("DebugSwipeDirection")), Opt(3, "input", string),
    Opt(4, "x", uint32), Opt(5, "y", uint32), Opt(6, "wait", bool),
    Opt(7, "hold_ms", uint32),
    Opt(8, "physical_button", Enum("DebugPhysicalButton"))>>
DebugLinkLayout == <<Rep(1, "tokens", string)>>
DebugLinkReseedRandom == <<Opt(1, "value", uint32)>>
DebugLinkRecordScreen ==
  <<Opt(1, "target_directory", string), Def(2, "refresh_index", uint32, 0)>>
DebugLinkGetState ==
  <<Opt(1, "wait_word_list", bool), Opt(2, "wait_word_pos", bool),
    Opt(3, "wait_layout", bool)>>
DebugLinkState ==
  <<Opt(1, "layout", bytes), Opt(2, "pin", string), Opt(3, "matrix", string),
    Opt(4, "mnemonic_secret", bytes), Opt(5, "node", Msg("HDNodeType")),
    Opt(6, "passphrase_protection", bool), Opt(7, "reset_word", string),
    Opt(8, "reset_entropy", bytes), Opt(9, "recovery_fake_word", string),
    Opt(10, "recovery_word_pos", uint32), Opt(11, "reset_word_pos", uint32),
    Opt(12, "mnemonic_type", Enum("BackupType")), Rep(13, "tokens", string)>>
DebugLinkStop == <<>>
DebugLinkLog ==
  <<Opt(1, "level", uint32), Opt(2, "bucket", string),
    Opt(3, "text", string)>>
DebugLinkMemoryRead ==
  <<Opt(1, "address", uint32), Opt(2, "length", uint32)>>
DebugLinkMemory == <<Opt(1, "memory", bytes)>>
DebugLinkMemoryWrite ==
  <<Opt(1, "address", uint32), Opt(2, "memory", bytes),
    Opt(3, "flash", bool)>>
DebugLinkFlashErase == <<Opt(1, "sector", uint32)>>
DebugLinkEraseSdCard == <<Opt(1, "format", bool)>>
DebugLinkWatchLayout == <<Opt(1, "watch", bool)>>
DebugLinkResetDebugEvents == <<>>
Initialize ==
  <<Opt(1, "session_id", bytes), Opt(2, "_skip_passphrase", bool),
    Opt(3, "derive_cardano", bool)>>
GetFeatures == <<>>
Features ==
  <<Opt(1, "vendor", string), Req(2, "major_version", uint32),
    Req(3, "minor_version", uint32), Req(4, "patch_version", uint32),
    Opt(5, "bootloader_mode", bool), Opt(6, "device_id", string),
    Opt(7, "pin_protection", bool), Opt(8, "passphrase_protection", bool),
    Opt(9, "language", string), Opt(10, "label", string),
    Opt(12, "initialized", bool), Opt(13, "revision", bytes),
    Opt(14, "bootloader_hash", bytes), Opt(15, "imported", bool),
    Opt(16, "unlocked", bool), Opt(17, "_passphrase_cached", bool),
    Opt(18, "firmware_present", bool),
    Opt(19, "backup_availability", Enum("BackupAvailability")),
    Opt(20, "flags", uint32), Opt(21, "model", string),
    Opt(22, "fw_major", uint32), Opt(23, "fw_minor", uint32),
    Opt(24, "fw_patch", uint32), Opt(25, "fw_vendor", string),
    Opt(27, "unfinished_backup", bool), Opt(28, "no_backup", bool),
    Opt(29, "recovery_status", Enum("RecoveryStatus")),
    Rep(30, "capabilities", Enum("Capability")),
    Opt(31, "backup_type", Enum("BackupType")),
    Opt(32, "sd_card_present", bool), Opt(33, "sd_protection", bool),
    Opt(34, "wipe_code_protection", bool), Opt(35, "session_id", bytes),
    Opt(36, "passphrase_always_on_device", bool),
    Opt(37, "safety_checks", Enum("SafetyCheckLevel")),
    Opt(38, "auto_lock_delay_ms", uint32),
    Opt(39, "display_rotation", uint32),
    Opt(40, "experimental_features", bool), Opt(41, "busy", bool),
    Opt(42, "homescreen_format", Enum("HomescreenFormat")),
    Opt(43, "hide_passphrase_from_host", bool),
    Opt(44, "internal_model", string), Opt(45, "unit_color", uint32),
    Opt(46, "unit_btconly", bool), Opt(47, "homescreen_width", uint32),
    Opt(48, "homescreen_height", uint32), Opt(49, "bootloader_locked", bool),
    Def(50, "language_version_matches", bool, TRUE),
    Opt(51, "unit_packaging", uint32), Opt(52, "haptic_feedback", bool),
    Opt(53, "recovery_type", Enum("RecoveryType")),
    Opt(54, "optiga_sec", uint32)>>
LockDevice == <<>>
SetBusy == <<Opt(1, "expiry_ms", uint32)>>
EndSession == <<>>
ApplySettings ==
  <<Opt(1, "language", string), Opt(2, "label", string),
    Opt(3, "use_passphrase", bool), Opt(4, "homescreen", bytes),
    Opt(5, "_passphrase_source", uint32),
    Opt(6, "auto_lock_delay_ms", uint32), Opt(7, "display_rotation", uint32),
    Opt(8, "passphrase_always_on_device", bool),
    Opt(9, "safety_checks", Enum("SafetyCheckLevel")),
    Opt(10, "experimental_features", bool),
    Opt(11, "hide_passphrase_from_host", bool),
    Opt(13, "haptic_feedback", bool)>>
ChangeLanguage ==
  <<Req(1, "data_length", uint32), Opt(2, "show_display", bool)>>
TranslationDataRequest ==
  <<Req(1, "data_length", uint32), Req(2, "data_offset", uint32)>>
TranslationDataAck == <<Req(1, "data_chunk", bytes)>>
ApplyFlags == <<Req(1, "flags", uint32)>>
ChangePin == <<Opt(1, "remove", bool)>>
ChangeWipeCode == <<Opt(1, "remove", bool)>>
SdProtect == <<Req(1, "operation", Enum("SdProtectOperationType"))>>
Ping == <<Def(1, "message", string, 0), Opt(2, "button_protection", bool)>>
Cancel == <<>>
GetEntropy == <<Req(1, "size", uint32)>>
Entropy == <<Req(1, "entropy", bytes)>>
GetFirmwareHash == <<Opt(1, "challenge", bytes)>>
FirmwareHash == <<Req(1, "hash", bytes)>>
AuthenticateDevice == <<Req(1, "challenge", bytes)>>
AuthenticityProof ==
  <<Rep(1, "certificates", bytes), Req(2, "signature", bytes)>>
WipeDevice == <<>>
LoadDevice ==
  <<Rep(1, "mnemonics", string), Opt(3, "pin", string),
    Opt(4, "passphrase_protection", bool), Opt(5, "language", string),
    Opt(6, "label", string), Opt(7, "skip_checksum", bool),
    Opt(8, "u2f_counter", uint32), Opt(9, "needs_backup", bool),
    Opt(10, "no_backup", bool)>>
ResetDevice ==
  <<Opt(1, "display_random", bool), Def(2, "strength", uint32, 256),
    Opt(3, "passphrase_protection", bool), Opt(4, "pin_protection", bool),
    Opt(5, "language", string), Opt(6, "label", string),
    Opt(7, "u2f_counter", uint32), Opt(8, "skip_backup", bool),
    Opt(9, "no_backup", bool), Def(10, "backup_type", Enum("BackupType"), 0)>>
BackupDevice ==
  <<Opt(1, "group_threshold", uint32), Rep(2, "groups", Msg("Slip39Group"))>>
Slip39Group ==
  <<Req(1, "member_threshold", uint32), Req(2, "member_count", uint32)>>
EntropyRequest == <<>>
EntropyAck == <<Req(1, "entropy", bytes)>>
RecoveryDevice ==
  <<Opt(1, "word_count", uint32), Opt(2, "passphrase_protection", bool),
    Opt(3, "pin_protection", bool), Opt(4, "language", string),
    Opt(5, "label", string), Opt(6, "enforce_wordlist", bool),
    Opt(8, "input_method", Enum("RecoveryDeviceInputMethod")),
    Opt(9, "u2f_counter", uint32), Def(10, "type", Enum("RecoveryType"), 0)>>
WordRequest == <<Req(1, "type", Enum("WordRequestType"))>>
WordAck == <<Req(1, "word", string)>>
SetU2FCounter == <<Req(1, "u2f_counter", uint32)>>
GetNextU2FCounter == <<>>
NextU2FCounter == <<Req(1, "u2f_counter", uint32)>>
DoPreauthorized == <<>>
PreauthorizedRequest == <<>>
CancelAuthorization == <<>>
RebootToBootloader ==
  <<Def(1, "boot_command", Enum("BootCommand"), 0),
    Opt(2, "firmware_header", bytes),
    Def(3, "language_data_length", uint32, 0)>>
GetNonce == <<>>
Nonce == <<Req(1, "nonce", bytes)>>
UnlockPath == <<Rep(1, "address_n", uint32), Opt(2, "mac", bytes)>>
UnlockedPathRequest == <<Opt(1, "mac", bytes)>>
ShowDeviceTutorial == <<>>
UnlockBootloader == <<>>
SetBrightness == <<Opt(1, "value", uint32)>>
WebAuthnListResidentCredentials == <<>>
WebAuthnAddResidentCredential == <<Opt(1, "credential_id", bytes)>>
WebAuthnRemoveResidentCredential == <<Opt(1, "index", uint32)>>
WebAuthnCredentials == <<Rep(1, "credentials", Msg("WebAuthnCredential"))>>
WebAuthnCredential ==
  <<Opt(1, "index", uint32), Opt(2, "id", bytes), Opt(3, "rp_id", string),
    Opt(4, "rp_name", string), Opt(5, "user_id", bytes),
    Opt(6, "user_name", string), Opt(7, "user_display_name", string),
    Opt(8, "creation_time", uint32), Opt(9, "hmac_secret", bool),
    Opt(10, "use_sign_count", bool), Opt(11, "algorithm", sint32),
    Opt(12, "curve", sint32)>>

(* The definitions by their names.                                         *)
DeviceEnums ==
  [FailureType |-> FailureType, ButtonRequestType |-> ButtonRequestType,
   PinMatrixRequestType |-> PinMatrixRequestType,
   DebugSwipeDirection |-> DebugSwipeDirection, DebugButton |-> DebugButton,
   DebugPhysicalButton |-> DebugPhysicalButton,
   BackupAvailability |-> BackupAvailability,
   RecoveryStatus |-> RecoveryStatus, Capability |-> Capability,
   SdProtectOperationType |-> SdProtectOperationType,
   RecoveryDeviceInputMethod |-> RecoveryDeviceInputMethod,
   WordRequestType |-> WordRequestType, BootCommand |-> BootCommand,
   BackupType |-> BackupType, SafetyCheckLevel |-> SafetyCheckLevel,
   HomescreenFormat |-> HomescreenFormat, RecoveryType |-> RecoveryType]
DeviceMessages ==
  [FirmwareErase |-> FirmwareErase, FirmwareRequest |-> FirmwareRequest,
   FirmwareUpload |-> FirmwareUpload, ProdTestT1 |-> ProdTestT1,
   Success |-> Success, Failure |-> Failure, ButtonRequest |-> ButtonRequest,
   ButtonAck |-> ButtonAck, PinMatrixRequest |-> PinMatrixRequest,
   PinMatrixAck |-> PinMatrixAck, PassphraseRequest |-> PassphraseRequest,
   PassphraseAck |-> PassphraseAck,
   Deprecated_PassphraseStateRequest |-> Deprecated_PassphraseStateRequest,
   Deprecated_PassphraseStateAck |-> Deprecated_PassphraseStateAck,
   HDNodeType |-> HDNodeType, CipherKeyValue |-> CipherKeyValue,
   CipheredKeyValue |-> CipheredKeyValue, IdentityType |-> IdentityType,
   SignIdentity |-> SignIdentity, SignedIdentity |-> SignedIdentity,
   GetECDHSessionKey |-> GetECDHSessionKey, ECDHSessionKey |-> ECDHSessionKey,
   DebugLinkDecision |-> DebugLinkDecision,
   DebugLinkLayout |-> DebugLinkLayout,
   DebugLinkReseedRandom |-> DebugLinkReseedRandom,
   DebugLinkRecordScreen |-> DebugLinkRecordScreen,
   DebugLinkGetState |-> DebugLinkGetState, DebugLinkState |-> DebugLinkState,
   DebugLinkStop |-> DebugLinkStop, DebugLinkLog |-> DebugLinkLog,
   DebugLinkMemoryRead |-> DebugLinkMemoryRead,
   DebugLinkMemory |-> DebugLinkMemory,
   DebugLinkMemoryWrite |-> DebugLinkMemoryWrite,
   DebugLinkFlashErase |-> DebugLinkFlashErase,
   DebugLinkEraseSdCard |-> DebugLinkEraseSdCard,
   DebugLinkWatchLayout |-> DebugLinkWatchLayout,
   DebugLinkResetDebugEvents |-> DebugLinkResetDebugEvents,
   Initialize |-> Initialize, GetFeatures |-> GetFeatures,
   Features |-> Features, LockDevice |-> LockDevice, SetBusy |-> SetBusy,
   EndSession |-> EndSession, ApplySettings |-> ApplySettings,
   ChangeLanguage |-> ChangeLanguage,
   TranslationDataRequest |-> TranslationDataRequest,
   TranslationDataAck |-> TranslationDataAck, ApplyFlags |-> ApplyFlags,
   ChangePin |-> ChangePin, ChangeWipeCode |-> ChangeWipeCode,
   SdProtect |-> SdProtect, Ping |-> Ping, Cancel |-> Cancel,
   GetEntropy |-> GetEntropy, Entropy |-> Entropy,
   GetFirmwareHash |-> GetFirmwareHash, FirmwareHash |-> FirmwareHash,
   AuthenticateDevice |-> AuthenticateDevice,
   AuthenticityProof |-> AuthenticityProof, WipeDevice |-> WipeDevice,
   LoadDevice |-> LoadDevice, ResetDevice |-> ResetDevice,
   BackupDevice |-> BackupDevice, Slip39Group |-> Slip39Group,
   EntropyRequest |-> EntropyRequest, EntropyAck |-> EntropyAck,
   RecoveryDevice |-> RecoveryDevice, WordRequest |-> WordRequest,
   WordAck |-> WordAck, SetU2FCounter |-> SetU2FCounter,
   GetNextU2FCounter |-> GetNextU2FCounter, NextU2FCounter |-> NextU2FCounter,
   DoPreauthorized |-> DoPreauthorized,
   PreauthorizedRequest |-> PreauthorizedRequest,
   CancelAuthorization |-> CancelAuthorization,
   RebootToBootloader |-> RebootToBootloader, GetNonce |-> GetNonce,
   Nonce |-> Nonce, UnlockPath |-> UnlockPath,
   UnlockedPathRequest |-> UnlockedPathRequest,
   ShowDeviceTutorial |-> ShowDeviceTutorial,
   UnlockBootloader |-> UnlockBootloader, SetBrightness |-> SetBrightness,
   WebAuthnListResidentCredentials |-> WebAuthnListResidentCredentials,
   WebAuthnAddResidentCredential |-> WebAuthnAddResidentCredential,
   WebAuthnRemoveResidentCredential |-> WebAuthnRemoveResidentCredential,
   WebAuthnCredentials |-> WebAuthnCredentials,
   WebAuthnCredential |-> WebAuthnCredential]
=============================================================================
