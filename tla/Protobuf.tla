------------------------------ MODULE Protobuf ------------------------------
(* Messages between the host's client and the firmware, one at a time: the *)
(* writer encodes a message, the reader decodes it field by field.  The    *)
(* firmware reads a request as the definition it has for the wire id, and  *)
(* a TxAck, which it has no definition of, as one of its wire-aliases.     *)
(* Hosts and firmware of other versions, with fewer or more fields or with *)
(* another protobuf library, are writers too.                              *)
EXTENDS ProtoCodec

CONSTANTS
  NUMBERS,       \* values of unsigned fields
  SIGNED,        \* values of signed fields
  LENGTHS,       \* lengths of bytes and strings
  UNKNOWN_TAGS,  \* field numbers only a newer writer knows
  DEPTH          \* how deep nested messages vary

ASSUME ProtobufAssumption ==
  /\ NUMBERS \subseteq 0 .. U32_MAX /\ NUMBERS # {}
  /\ SIGNED \subseteq Int /\ SIGNED # {}
  /\ LENGTHS \subseteq Nat /\ LENGTHS # {}
  /\ \A t \in DOMAIN Messages, tag \in UNKNOWN_TAGS :
       FieldTagged(Messages[t], tag) = <<>>
  /\ DEPTH \in Nat

(* MessageType and, from its options wire_in and wire_out, the ones the    *)
(* firmware sends; where the options name the wrong direction (the Monero  *)
(* requests, AuthenticateDevice and its answer, RippleSignedTx) the        *)
(* handlers decide.                                                        *)
MessageType ==
  [Initialize |-> 0, Ping |-> 1, Success |-> 2, Failure |-> 3,
   ChangePin |-> 4, WipeDevice |-> 5, GetEntropy |-> 9, Entropy |-> 10,
   LoadDevice |-> 13, ResetDevice |-> 14, SetBusy |-> 16, Features |-> 17,
   PinMatrixRequest |-> 18, PinMatrixAck |-> 19, Cancel |-> 20,
   LockDevice |-> 24, ApplySettings |-> 25, ButtonRequest |-> 26,
   ButtonAck |-> 27, ApplyFlags |-> 28, GetNonce |-> 31, Nonce |-> 33,
   BackupDevice |-> 34, EntropyRequest |-> 35, EntropyAck |-> 36,
   PassphraseRequest |-> 41, PassphraseAck |-> 42, RecoveryDevice |-> 45,
   WordRequest |-> 46, WordAck |-> 47, GetFeatures |-> 55, SdProtect |-> 79,
   ChangeWipeCode |-> 82, EndSession |-> 83, DoPreauthorized |-> 84,
   PreauthorizedRequest |-> 85, CancelAuthorization |-> 86,
   RebootToBootloader |-> 87, GetFirmwareHash |-> 88, FirmwareHash |-> 89,
   UnlockPath |-> 93, UnlockedPathRequest |-> 94, ShowDeviceTutorial |-> 95,
   UnlockBootloader |-> 96, AuthenticateDevice |-> 97,
   AuthenticityProof |-> 98, ChangeLanguage |-> 990,
   TranslationDataRequest |-> 991, TranslationDataAck |-> 992,
   SetBrightness |-> 993, SetU2FCounter |-> 63, GetNextU2FCounter |-> 80,
   NextU2FCounter |-> 81, Deprecated_PassphraseStateRequest |-> 77,
   Deprecated_PassphraseStateAck |-> 78, FirmwareErase |-> 6,
   FirmwareUpload |-> 7, FirmwareRequest |-> 8, ProdTestT1 |-> 32,
   GetPublicKey |-> 11, PublicKey |-> 12, SignTx |-> 15, TxRequest |-> 21,
   TxAck |-> 22, GetAddress |-> 29, Address |-> 30,
   TxAckPaymentRequest |-> 37, SignMessage |-> 38, VerifyMessage |-> 39,
   MessageSignature |-> 40, GetOwnershipId |-> 43, OwnershipId |-> 44,
   GetOwnershipProof |-> 49, OwnershipProof |-> 50, AuthorizeCoinJoin |-> 51,
   CipherKeyValue |-> 23, CipheredKeyValue |-> 48, SignIdentity |-> 53,
   SignedIdentity |-> 54, GetECDHSessionKey |-> 61, ECDHSessionKey |-> 62,
   DebugLinkDecision |-> 100, DebugLinkGetState |-> 101,
   DebugLinkState |-> 102, DebugLinkStop |-> 103, DebugLinkLog |-> 104,
   DebugLinkMemoryRead |-> 110, DebugLinkMemory |-> 111,
   DebugLinkMemoryWrite |-> 112, DebugLinkFlashErase |-> 113,
   DebugLinkLayout |-> 9001, DebugLinkReseedRandom |-> 9002,
   DebugLinkRecordScreen |-> 9003, DebugLinkEraseSdCard |-> 9005,
   DebugLinkWatchLayout |-> 9006, DebugLinkResetDebugEvents |-> 9007,
   EthereumGetPublicKey |-> 450, EthereumPublicKey |-> 451,
   EthereumGetAddress |-> 56, EthereumAddress |-> 57, EthereumSignTx |-> 58,
   EthereumSignTxEIP1559 |-> 452, EthereumTxRequest |-> 59,
   EthereumTxAck |-> 60, EthereumSignMessage |-> 64,
   EthereumVerifyMessage |-> 65, EthereumMessageSignature |-> 66,
   EthereumSignTypedData |-> 464, EthereumTypedDataStructRequest |-> 465,
   EthereumTypedDataStructAck |-> 466, EthereumTypedDataValueRequest |-> 467,
   EthereumTypedDataValueAck |-> 468, EthereumTypedDataSignature |-> 469,
   EthereumSignTypedHash |-> 470, NEMGetAddress |-> 67, NEMAddress |-> 68,
   NEMSignTx |-> 69, NEMSignedTx |-> 70, NEMDecryptMessage |-> 75,
   NEMDecryptedMessage |-> 76, TezosGetAddress |-> 150, TezosAddress |-> 151,
   TezosSignTx |-> 152, TezosSignedTx |-> 153, TezosGetPublicKey |-> 154,
   TezosPublicKey |-> 155, StellarSignTx |-> 202, StellarTxOpRequest |-> 203,
   StellarGetAddress |-> 207, StellarAddress |-> 208,
   StellarCreateAccountOp |-> 210, StellarPaymentOp |-> 211,
   StellarPathPaymentStrictReceiveOp |-> 212,
   StellarManageSellOfferOp |-> 213, StellarCreatePassiveSellOfferOp |-> 214,
   StellarSetOptionsOp |-> 215, StellarChangeTrustOp |-> 216,
   StellarAllowTrustOp |-> 217, StellarAccountMergeOp |-> 218,
   StellarManageDataOp |-> 220, StellarBumpSequenceOp |-> 221,
   StellarManageBuyOfferOp |-> 222, StellarPathPaymentStrictSendOp |-> 223,
   StellarClaimClaimableBalanceOp |-> 225, StellarSignedTx |-> 230,
   CardanoGetPublicKey |-> 305, CardanoPublicKey |-> 306,
   CardanoGetAddress |-> 307, CardanoAddress |-> 308,
   CardanoTxItemAck |-> 313, CardanoTxAuxiliaryDataSupplement |-> 314,
   CardanoTxWitnessRequest |-> 315, CardanoTxWitnessResponse |-> 316,
   CardanoTxHostAck |-> 317, CardanoTxBodyHash |-> 318,
   CardanoSignTxFinished |-> 319, CardanoSignTxInit |-> 320,
   CardanoTxInput |-> 321, CardanoTxOutput |-> 322, CardanoAssetGroup |-> 323,
   CardanoToken |-> 324, CardanoTxCertificate |-> 325,
   CardanoTxWithdrawal |-> 326, CardanoTxAuxiliaryData |-> 327,
   CardanoPoolOwner |-> 328, CardanoPoolRelayParameters |-> 329,
   CardanoGetNativeScriptHash |-> 330, CardanoNativeScriptHash |-> 331,
   CardanoTxMint |-> 332, CardanoTxCollateralInput |-> 333,
   CardanoTxRequiredSigner |-> 334, CardanoTxInlineDatumChunk |-> 335,
   CardanoTxReferenceScriptChunk |-> 336, CardanoTxReferenceInput |-> 337,
   RippleGetAddress |-> 400, RippleAddress |-> 401, RippleSignTx |-> 402,
   RippleSignedTx |-> 403, MoneroTransactionInitRequest |-> 501,
   MoneroTransactionInitAck |-> 502, MoneroTransactionSetInputRequest |-> 503,
   MoneroTransactionSetInputAck |-> 504,
   MoneroTransactionInputViniRequest |-> 507,
   MoneroTransactionInputViniAck |-> 508,
   MoneroTransactionAllInputsSetRequest |-> 509,
   MoneroTransactionAllInputsSetAck |-> 510,
   MoneroTransactionSetOutputRequest |-> 511,
   MoneroTransactionSetOutputAck |-> 512,
   MoneroTransactionAllOutSetRequest |-> 513,
   MoneroTransactionAllOutSetAck |-> 514,
   MoneroTransactionSignInputRequest |-> 515,
   MoneroTransactionSignInputAck |-> 516,
   MoneroTransactionFinalRequest |-> 517, MoneroTransactionFinalAck |-> 518,
   MoneroKeyImageExportInitRequest |-> 530,
   MoneroKeyImageExportInitAck |-> 531, MoneroKeyImageSyncStepRequest |-> 532,
   MoneroKeyImageSyncStepAck |-> 533, MoneroKeyImageSyncFinalRequest |-> 534,
   MoneroKeyImageSyncFinalAck |-> 535, MoneroGetAddress |-> 540,
   MoneroAddress |-> 541, MoneroGetWatchKey |-> 542, MoneroWatchKey |-> 543,
   DebugMoneroDiagRequest |-> 546, DebugMoneroDiagAck |-> 547,
   MoneroGetTxKeyRequest |-> 550, MoneroGetTxKeyAck |-> 551,
   MoneroLiveRefreshStartRequest |-> 552, MoneroLiveRefreshStartAck |-> 553,
   MoneroLiveRefreshStepRequest |-> 554, MoneroLiveRefreshStepAck |-> 555,
   MoneroLiveRefreshFinalRequest |-> 556, MoneroLiveRefreshFinalAck |-> 557,
   EosGetPublicKey |-> 600, EosPublicKey |-> 601, EosSignTx |-> 602,
   EosTxActionRequest |-> 603, EosTxActionAck |-> 604, EosSignedTx |-> 605,
   BinanceGetAddress |-> 700, BinanceAddress |-> 701,
   BinanceGetPublicKey |-> 702, BinancePublicKey |-> 703,
   BinanceSignTx |-> 704, BinanceTxRequest |-> 705,
   BinanceTransferMsg |-> 706, BinanceOrderMsg |-> 707,
   BinanceCancelMsg |-> 708, BinanceSignedTx |-> 709,
   WebAuthnListResidentCredentials |-> 800, WebAuthnCredentials |-> 801,
   WebAuthnAddResidentCredential |-> 802,
   WebAuthnRemoveResidentCredential |-> 803, SolanaGetPublicKey |-> 900,
   SolanaPublicKey |-> 901, SolanaGetAddress |-> 902, SolanaAddress |-> 903,
   SolanaSignTx |-> 904, SolanaTxSignature |-> 905]
Answers ==
  {"Success", "Failure", "Entropy", "Features", "PinMatrixRequest",
   "ButtonRequest", "Nonce", "EntropyRequest", "PassphraseRequest",
   "WordRequest", "PreauthorizedRequest", "FirmwareHash",
   "UnlockedPathRequest", "AuthenticityProof", "TranslationDataRequest",
   "NextU2FCounter", "FirmwareRequest", "PublicKey", "TxRequest",
   "Address", "MessageSignature", "OwnershipId", "OwnershipProof",
   "CipheredKeyValue", "SignedIdentity", "ECDHSessionKey",
   "DebugLinkState", "DebugLinkLog", "DebugLinkMemory", "DebugLinkLayout",
   "EthereumPublicKey", "EthereumAddress", "EthereumTxRequest",
   "EthereumMessageSignature", "EthereumTypedDataStructRequest",
   "EthereumTypedDataValueRequest", "EthereumTypedDataSignature",
   "NEMAddress", "NEMSignedTx", "NEMDecryptedMessage", "TezosAddress",
   "TezosSignedTx", "TezosPublicKey", "StellarTxOpRequest",
   "StellarAddress", "StellarSignedTx", "CardanoPublicKey",
   "CardanoAddress", "CardanoTxItemAck",
   "CardanoTxAuxiliaryDataSupplement", "CardanoTxWitnessResponse",
   "CardanoTxBodyHash", "CardanoSignTxFinished", "CardanoNativeScriptHash",
   "RippleAddress", "RippleSignedTx", "MoneroTransactionInitAck",
   "MoneroTransactionSetInputAck", "MoneroTransactionInputViniAck",
   "MoneroTransactionAllInputsSetAck", "MoneroTransactionSetOutputAck",
   "MoneroTransactionAllOutSetAck", "MoneroTransactionSignInputAck",
   "MoneroTransactionFinalAck", "MoneroKeyImageExportInitAck",
   "MoneroKeyImageSyncStepAck", "MoneroKeyImageSyncFinalAck",
   "MoneroAddress", "MoneroWatchKey", "DebugMoneroDiagAck",
   "MoneroGetTxKeyAck", "MoneroLiveRefreshStartAck",
   "MoneroLiveRefreshStepAck", "MoneroLiveRefreshFinalAck", "EosPublicKey",
   "EosTxActionRequest", "EosSignedTx", "BinanceAddress",
   "BinancePublicKey", "BinanceTxRequest", "BinanceSignedTx",
   "WebAuthnCredentials", "SolanaPublicKey", "SolanaAddress",
   "SolanaTxSignature"}
Requests == DOMAIN MessageType \ Answers

(* Wire-aliases of TxAck: the option wire_type = 22.                       *)
TxAckAliases == {"TxAckInput", "TxAckOutput", "TxAckPrevMeta",
                 "TxAckPrevInput", "TxAckPrevOutput", "TxAckPrevExtraData"}

(* The definitions the firmware has for a wire id.                         *)
TypesForWire(id) ==
  {t \in DOMAIN MsgDefs :
     \/ t \in TxAckAliases /\ id = MessageType["TxAck"]
     \/ t \in DOMAIN MessageType /\ MessageType[t] = id}

-----------------------------------------------------------------------------
(* Messages to send.  Least has the required fields, Most every field; the *)
(* others differ from Least in one field, at any depth.                    *)
ScalarValues(f) == CASE f.type[1] = "uint" -> NUMBERS
                     [] f.type[1] = "sint" -> SIGNED
                     [] f.type[1] = "bool" -> BOOLEAN
                     [] f.type[1] = "enum" -> Enums[f.type[2]]
                     [] IsBuffer(f) -> LENGTHS
Some(f) == CHOOSE v \in ScalarValues(f) : TRUE

(* A message with, for every field of def, what Values gives.              *)
MessageOf(def, Values(_)) ==
  [n \in Names(def) |-> Values(FieldNamed(def, n))]

RECURSIVE Least(_)
LeastValues(f) == IF f.label # "required" THEN <<>>
                  ELSE IF IsMsg(f) THEN <<Least(f.type[2])>> ELSE <<Some(f)>>
Least(t) == MessageOf(Messages[t], LeastValues)

RECURSIVE Most(_, _)
MostValue(f, d) == IF ~IsMsg(f) THEN Some(f)
                   ELSE IF d = 0 THEN Least(f.type[2])
                   ELSE Most(f.type[2], d - 1)
MostValues(f, v) == IF f.label = "repeated" THEN <<v, v>> ELSE <<v>>
Most(t, d) ==
  MessageOf(Messages[t], LAMBDA f : MostValues(f, MostValue(f, d)))

RECURSIVE Variants(_, _)
FieldVariants(f, vs) ==
  {<<v>> : v \in vs} \cup
  (IF f.label # "repeated" THEN {}
   ELSE {<<v, w>> : v \in vs,
                    w \in IF IsMsg(f) THEN {Least(f.type[2])} ELSE vs})
ValueVariants(f, d) == IF ~IsMsg(f) THEN ScalarValues(f)
                       ELSE IF d = 0 THEN {Least(f.type[2])}
                       ELSE Variants(f.type[2], d - 1)
VariantsOf(def, least, d) ==
  {least} \cup
  UNION {{[least EXCEPT ![f.name] = vs] :
            vs \in FieldVariants(f, ValueVariants(f, d))} : f \in ToSet(def)}
Variants(t, d) == {Most(t, d)} \cup VariantsOf(Messages[t], Least(t), d)

(* What a writer that has one field less makes of message m.               *)
Lacking(m) == {[m EXCEPT ![n] = <<>>] : n \in DOMAIN m}

-----------------------------------------------------------------------------
(* What the client answers to the requests of a transaction being signed   *)
(* (flows/sign_tx.rs): always one TxAck, whichever alias will read it.     *)
With(t, fields) == fields @@ EmptyStruct(t)
AckOf(tx) == With("TxAck", [tx |-> <<With("TransactionType", tx)>>])
Path == {<<>>, <<CHOOSE v \in NUMBERS : TRUE>>}

SPENDADDRESS == 0
EXTERNAL == 2
SPENDWITNESS == 3
SPENDP2SHWITNESS == 4
PAYTOADDRESS == 0
PAYTOOPRETURN == 3
PAYTOWITNESS == 4
PAYTOP2SHWITNESS == 5

(* Mutant: an input without its script_sig.                                *)
UnsignedInputAcks(extra) ==
  {AckOf([inputs |-> <<With("TxInputType",
     [prev_hash |-> <<32>>, prev_index |-> <<i>>, sequence |-> <<seq>>]
     @@ e)>>]) :
   i \in NUMBERS, seq \in NUMBERS, e \in extra}

InputAcks(extra) ==
  {AckOf([inputs |-> <<With("TxInputType",
     [prev_hash |-> <<32>>, prev_index |-> <<i>>, script_sig |-> <<len>>,
      sequence |-> <<seq>>] @@ e)>>]) :
   i \in NUMBERS, len \in LENGTHS, seq \in NUMBERS, e \in extra}
SigningInputs ==
  {[address_n |-> path, script_type |-> <<type>>, amount |-> <<sat>>] :
   path \in Path, sat \in NUMBERS,
   type \in {SPENDADDRESS, EXTERNAL, SPENDWITNESS, SPENDP2SHWITNESS}}
SigningOutputs ==
  {[amount |-> <<sat>>, script_type |-> <<PAYTOADDRESS>>, address |-> a] :
   sat \in NUMBERS, a \in {<<>>, <<34>>}} \cup
  {[amount |-> <<sat>>, script_type |-> <<type>>, address |-> a,
    address_n |-> <<1>>,
    op_return_data |-> IF type = PAYTOOPRETURN THEN <<len>> ELSE <<>>] :
   sat \in NUMBERS, a \in {<<>>, <<34>>}, len \in LENGTHS,
   type \in {PAYTOADDRESS, PAYTOOPRETURN, PAYTOWITNESS, PAYTOP2SHWITNESS}}

TxAcks(alias) ==
  CASE alias = "TxAckInput" -> InputAcks(SigningInputs)
    [] alias = "TxAckPrevInput" -> InputAcks({<<>>})
    [] alias = "TxAckOutput" ->
         {AckOf([outputs |-> <<With("TxOutputType", o)>>]) :
          o \in SigningOutputs}
    [] alias = "TxAckPrevOutput" ->
         {AckOf([bin_outputs |-> <<[amount |-> <<sat>>,
                                    script_pubkey |-> <<len>>,
                                    decred_script_version |-> <<>>]>>]) :
          sat \in NUMBERS, len \in LENGTHS}
    [] alias = "TxAckPrevMeta" ->
         {AckOf([version |-> <<v>>, lock_time |-> <<t>>,
                 inputs_cnt |-> <<n>>, outputs_cnt |-> <<n>>]) :
          v, t, n \in NUMBERS}
    [] OTHER -> {}

-----------------------------------------------------------------------------
VARIABLES
  phase,         \* "idle", "written", "reading", "filling", "done", "failed"
  dir,           \* "request" or "answer"
  writer,        \* "ours", "older", "newer" or "other"
  msgtype,       \* the type the writer writes
  as,            \* the type the reader reads it as
  sent,          \* the message written
  stream,        \* what is still to be read
  got,           \* the fields the reader has assigned
  experimental   \* EXPERIMENTAL_ENABLED

vars == <<phase, dir, writer, msgtype, as, sent, stream, got, experimental>>

Init ==
  /\ phase = "idle" /\ dir = "request" /\ writer = "ours"
  /\ msgtype = "Initialize" /\ as = "Initialize" /\ sent = <<>>
  /\ stream = <<>> /\ got = <<>>
  /\ experimental \in BOOLEAN

Put(d, w, t, m, s) ==
  /\ phase' = "written"
  /\ dir' = d /\ writer' = w /\ msgtype' = t /\ sent' = m /\ stream' = s
  /\ UNCHANGED <<as, got, experimental>>

(* A field the reader has no definition of.                                *)
UnknownFields ==
  {<<Key(tag, VARINT), Num(1)>> : tag \in UNKNOWN_TAGS} \cup
  {<<Key(tag, LENGTH_DELIMITED), Num(3)>> \o Run(3) : tag \in UNKNOWN_TAGS}

(* call_raw: write_to_bytes fails unless the message is initialized.       *)
ClientWrites ==
  /\ phase = "idle"
  /\ \E t \in Requests :
       \E m \in Variants(t, DEPTH) \cup
                (IF t = "TxAck" THEN UNION {TxAcks(a) : a \in TxAckAliases}
                 ELSE {}) :
         /\ is_initialized(t, m)
         /\ Put("request", "ours", t, m, write_to(t, m))

OtherHostWrites ==
  /\ phase = "idle"
  /\ \E t \in Requests : \E full \in {Most(t, DEPTH)} :
       \/ \E m \in Lacking(full) :
            Put("request", "older", t, m, write_to(t, m))
       \/ \E extra \in UnknownFields :
            Put("request", "newer", t, full,
                extra \o write_to(t, full) \o extra)
       \/ Put("request", "other", t, full,
              WriteFields(Reverse(Messages[t]), full))

(* protobuf_decode, up to the fields.                                      *)
DeviceTakes ==
  /\ phase = "written" /\ dir = "request"
  /\ LET types == TypesForWire(MessageType[msgtype]) IN
     \/ /\ types = {}
        /\ phase' = "failed"
        /\ UNCHANGED <<as, got>>
     \/ \E t \in types :
          /\ as' = t
          /\ got' = <<>>
          /\ phase' = IF t \in ExperimentalMessages /\ ~experimental
                      THEN "failed" ELSE "reading"
  /\ UNCHANGED <<dir, writer, msgtype, sent, stream, experimental>>

Continue(r, next) ==
  /\ phase' = IF r.ok THEN next ELSE "failed"
  /\ got' = IF r.ok THEN r.v ELSE got
  /\ stream' = IF r.ok THEN r.rest ELSE stream
  /\ UNCHANGED <<dir, writer, msgtype, as, sent, experimental>>

DeviceReads ==
  /\ phase = "reading" /\ dir = "request" /\ stream # <<>>
  /\ Continue(DecodeField(as, got, stream, experimental), "reading")

DeviceFills ==
  /\ phase = "reading" /\ dir = "request" /\ stream = <<>>
  /\ Continue(decode_defaults_into(as, got, experimental), "filling")

DeviceChecks ==
  /\ phase = "filling"
  /\ Continue(assign_required_into(as, got), "done")

-----------------------------------------------------------------------------
(* The message that firmware code builds, nested messages first.           *)
RECURSIVE Build(_, _)
BuildValues(f, vs) ==
  [j \in DOMAIN vs |-> IF IsMsg(f) THEN Build(f.type[2], vs[j]).v ELSE vs[j]]
BuildOf(t, fields, m) ==
  message_from_values(t,
    [n \in {f.name : f \in fields} |->
       BuildValues(CHOOSE f \in fields : f.name = n, m[n])])
Build(t, m) ==
  BuildOf(t, {f \in ToSet(MsgDefs[t]) : m[f.name] # <<>>}, m)

DeviceWrites ==
  /\ phase = "idle"
  /\ \E t \in Answers : \E m \in Variants(t, DEPTH) :
       \E msg \in {Build(t, m)} :
         /\ msg.ok
         /\ Put("answer", "ours", t, msg.v, encode_message(t, msg.v))

(* Another library packs repeated numbers.                                 *)
PackedRun(f, run) ==
  <<Key(f.tag, LENGTH_DELIMITED), Num(StreamLen(run))>> \o run
Packed(f, vs) ==
  IF f.label = "repeated" /\ primitive_type(f) = VARINT /\ vs # <<>>
  THEN PackedRun(f, [j \in DOMAIN vs |-> Num(ToNumber(f, vs[j]))])
  ELSE EncodeValues(f, vs)
PackedFields(def, map) ==
  FlattenSeq([i \in DOMAIN def |-> Packed(def[i], map[def[i].name])])

OtherDeviceWrites ==
  /\ phase = "idle"
  /\ \E t \in Answers : \E full \in {Build(t, Most(t, DEPTH)).v} :
       \/ \E m \in Lacking(full) :
            Put("answer", "older", t, m, encode_message(t, m))
       \/ \E extra \in UnknownFields :
            Put("answer", "newer", t, full,
                extra \o encode_message(t, full) \o extra)
       \/ Put("answer", "other", t, full,
              PackedFields(Reverse(MsgDefs[t]), full))

(* into_message: parse_from_bytes.                                         *)
ClientTakes ==
  /\ phase = "written" /\ dir = "answer"
  /\ phase' = "reading" /\ as' = msgtype /\ got' = EmptyStruct(msgtype)
  /\ UNCHANGED <<dir, writer, msgtype, sent, stream, experimental>>

ClientReads ==
  /\ phase = "reading" /\ dir = "answer" /\ stream # <<>>
  /\ Continue(MergeField(as, got, stream), "reading")

ClientChecks ==
  /\ phase = "reading" /\ dir = "answer" /\ stream = <<>>
  /\ Continue(IF is_initialized(as, got) THEN Got(got, <<>>) ELSE Fail,
              "done")

NextMessage ==
  /\ phase \in {"done", "failed"}
  /\ phase' = "idle" /\ dir' = "request" /\ writer' = "ours"
  /\ msgtype' = "Initialize" /\ as' = "Initialize" /\ sent' = <<>>
  /\ stream' = <<>> /\ got' = <<>>
  /\ UNCHANGED experimental

Next == \/ ClientWrites \/ OtherHostWrites \/ DeviceTakes \/ DeviceReads
        \/ DeviceFills \/ DeviceChecks
        \/ DeviceWrites \/ OtherDeviceWrites \/ ClientTakes \/ ClientReads
        \/ ClientChecks \/ NextMessage

Spec == Init /\ [][Next]_vars

-----------------------------------------------------------------------------
(* Reference: what message m, written as t, means to firmware that reads   *)
(* it as u.  Fields are matched by their numbers only.                     *)
ValuesOf(known, m) == IF known = <<>> THEN <<>> ELSE m[known[1].name]
ValuesTagged(t, m, tag) == ValuesOf(FieldTagged(Messages[t], tag), m)
TypeTagged(t, tag) == FieldTagged(Messages[t], tag)[1].type[2]

RECURSIVE Meaning(_, _, _)
FieldMeaning(f, t, vs) ==
  LET Value(v) == IF IsMsg(f) THEN Meaning(f.type[2], TypeTagged(t, f.tag), v)
                  ELSE v
  IN IF f.label = "repeated" THEN [j \in DOMAIN vs |-> Value(vs[j])]
     ELSE IF vs # <<>> THEN <<Value(Last(vs))>> ELSE f.default
Meaning(u, t, m) ==
  MessageOf(MsgDefs[u],
            LAMBDA f : FieldMeaning(f, t, ValuesTagged(t, m, f.tag)))

RECURSIVE LacksRequired(_, _, _)
LacksRequired(u, t, m) ==
  \E f \in ToSet(MsgDefs[u]) : \E vs \in {ValuesTagged(t, m, f.tag)} :
    \/ f.label = "required" /\ vs = <<>>
    \/ /\ IsMsg(f)
       /\ \E v \in ToSet(vs) :
            LacksRequired(f.type[2], TypeTagged(t, f.tag), v)

RECURSIVE UsesExperimental(_, _, _)
UsesExperimental(u, t, m) ==
  \E f \in ToSet(MsgDefs[u]) : \E vs \in {ValuesTagged(t, m, f.tag)} :
    \/ vs # <<>> /\ <<u, f.name>> \in ExperimentalFields
    \/ /\ IsMsg(f)
       /\ \E v \in ToSet(vs) :
            UsesExperimental(f.type[2], TypeTagged(t, f.tag), v)

(* Reference: a message of the firmware as a struct of the client.         *)
RECURSIVE OnClient(_, _)
OnClientValues(f, map) ==
  IF f.name \notin DOMAIN map THEN <<>>
  ELSE IF ~IsMsg(f) THEN map[f.name]
  ELSE [j \in DOMAIN map[f.name] |-> OnClient(f.type[2], map[f.name][j])]
OnClient(t, map) == MessageOf(Messages[t], LAMBDA f : OnClientValues(f, map))

(* A request the firmware accepts means to it what the host wrote: every   *)
(* field by its number, in whichever order they came, the last of several  *)
(* values of a singular field and all of a repeated one, the declared      *)
(* default of a field that was not sent, nothing of a field it does not    *)
(* know.  A TxAck means the same as each of its wire-aliases.              *)
RequestUnderstood ==
  phase = "done" /\ dir = "request" => got = Meaning(as, msgtype, sent)

(* The firmware refuses a request exactly when there is a reason: it has   *)
(* no definition for the wire id, a required field is missing (here or in  *)
(* a nested message), something experimental is used without permission,   *)
(* or a newer host used a field number above 255.                          *)
RefusedForCause ==
  phase \in {"done", "failed"} /\ dir = "request" =>
    (phase = "failed" <=>
       \/ TypesForWire(MessageType[msgtype]) = {}
       \/ LacksRequired(as, msgtype, sent)
       \/ ~experimental /\ (\/ as \in ExperimentalMessages
                            \/ UsesExperimental(as, msgtype, sent))
       \/ stream # <<>> /\ stream[1][2] \div 8 > 255)

(* Every TxAck the client builds for a request of the firmware is accepted *)
(* as the wire-alias that the firmware reads that answer as: "Do not edit  *)
(* this type without considering compatibility with TxAck"                 *)
(* (messages-bitcoin.proto).                                               *)
TxAcksAccepted ==
  phase = "failed" /\ dir = "request" /\ writer = "ours" /\ msgtype = "TxAck"
    => sent \notin TxAcks(as)

(* What the client makes of an answer is what the firmware built, defaults *)
(* included, also from firmware that sends fields it does not know, another*)
(* order or packed numbers; it is an error only if a required field is     *)
(* missing.                                                                *)
AnswerUnderstood ==
  dir = "answer" =>
    /\ phase = "done" => got = OnClient(msgtype, sent)
    /\ phase \in {"done", "failed"} =>
         (phase = "failed" <=> LacksRequired(msgtype, msgtype, sent))
=============================================================================
