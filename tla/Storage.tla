------------------------------ MODULE Storage ------------------------------
(***************************************************************************)
(* The PIN-protected storage of storage/storage.c on top of the key-value  *)
(* store of norcow.c: unlocking with a failure counter, changing the PIN   *)
(* and the wipe code, protected entries under an authentication tag, the   *)
(* fault handler, the storage upgrade, and power losses in between.        *)
(*                                                                         *)
(* The flash store is used through the contract of KVStore: norcow_set     *)
(* deletes the old item and then writes the new one, so a power loss       *)
(* leaves the old value, no value, a torn one or the new one. A handler is *)
(* split where the flash is written: pc says what it does once the writes  *)
(* in todo have reached the flash.                                         *)
(*                                                                         *)
(* Cryptography is symbolic: a data key is a member of DEKS, an encrypted  *)
(* entry names the key it needs, the EDEK entry names the PIN that opens   *)
(* it, and the XOR of the MACs of the protected keys is the set of those   *)
(* keys.                                                                   *)
(*                                                                         *)
(* A definition named after another one with a suffix that says what is    *)
(* wrong (auth_update_stale) is a slip that a property must catch; the     *)
(* specification does not use it.                                          *)
(***************************************************************************)
EXTENDS Integers, Sequences, FiniteSets, FiniteSetsExt

CONSTANTS Pins,            \* the PINs and wipe codes users type
          PIN_EMPTY,       \* the empty PIN
          WIPE_CODE_EMPTY, \* the wipe code that no PIN equals
          Protected,       \* application keys with 1 <= APP <= 127
          Public,          \* application keys with 128 <= APP <= 191
          Writable,        \* application keys with 192 <= APP <= 255
          Vals,            \* application values
          DEKS,            \* data encryption keys
          PIN_MAX_TRIES,
          LOG_LIMIT,       \* the largest count the PIN logs can represent
          OLD_VERSIONS,    \* storage versions an upgrade may start from
          NORCOW_VERSION,
          MAX_LOSSES,      \* bound: power losses in a behaviour
          NeedRoom,        \* bound: entries whose writing may move the items
          LostSets,        \* bound: entries a cut-short move may lose together
          MISSING,         \* no entry under the key
          TORN,            \* an entry that was written in part
          NONE             \* no key, no call

AppKeys == Protected \cup Public \cup Writable
PrivateKeys == {"PIN_LOGS", "EDEK_PVC", "PIN_NOT_SET", "VERSION",
                "STORAGE_TAG", "WIPE_CODE_DATA", "STORAGE_UPGRADED",
                "UNAUTH_VERSION"}
Keys == PrivateKeys \cup AppKeys

ASSUME StorageAssumption ==
  /\ PIN_MAX_TRIES \in Nat \ {0}
  /\ LOG_LIMIT \in Nat /\ LOG_LIMIT >= PIN_MAX_TRIES
  /\ NORCOW_VERSION \in Nat /\ OLD_VERSIONS \subseteq 3..(NORCOW_VERSION - 1)
  /\ MAX_LOSSES \in Nat
  /\ NeedRoom \subseteq Keys /\ LostSets \subseteq SUBSET Keys
  /\ WIPE_CODE_EMPTY \notin Pins \cup {PIN_EMPTY}
  /\ DEKS # {} /\ Vals # {}
  /\ AppKeys \cap PrivateKeys = {}
  /\ Protected \cap (Public \cup Writable) = {}

VARIABLES store,     \* the flash store: an entry, MISSING or TORN per key
          nver,      \* the version in the header of the active sector
          unlocked,  \* the static of that name
          keys,      \* cached_keys, or NONE after memzero
          asum,      \* authentication_sum
          ctr,       \* the failure counter unlock() read
          call,      \* the operation that called unlock(), or NONE
          pc,        \* what runs once todo is written
          ret,       \* where a wipe continues
          todo,      \* flash writes of the running handler
          left,      \* what the other flash sector still holds, and its version
          guesses,   \* history: wrong PINs the PIN log has to cover
          spent,     \* history: wrong PINs checked against the EDEK of each key
          revived,   \* history: interrupted wipes that brought a sector back
          losses     \* history: power losses so far

flashVars == <<store, nver, left>>
ramVars == <<unlocked, keys, asum, ctr, call, ret>>
triesVars == <<guesses, spent, revived>>
vars == <<store, nver, left, unlocked, keys, asum, ctr, call, pc, ret, todo,
          guesses, spent, revived, losses>>

AnyPin == Pins \cup {PIN_EMPTY}
AnyWipeCode == Pins \cup {WIPE_CODE_EMPTY}
Versions == OLD_VERSIONS \cup {NORCOW_VERSION}

(* What may be stored under a key, and what may be found there.            *)
Contents(k) ==
  CASE k = "PIN_LOGS" -> 0..LOG_LIMIT
    [] k = "EDEK_PVC" -> [pin : AnyPin, dek : DEKS, ver : Versions]
    [] k = "PIN_NOT_SET" -> BOOLEAN
    [] k = "VERSION" -> [ver : Versions, dek : DEKS]
    [] k = "STORAGE_TAG" -> [dek : DEKS, sum : SUBSET Protected]
    [] k = "WIPE_CODE_DATA" -> AnyWipeCode
    [] k = "STORAGE_UPGRADED" -> BOOLEAN
    [] k = "UNAUTH_VERSION" -> Versions
    [] k \in Protected -> [val : Vals, dek : DEKS]
    [] OTHER -> Vals
Entry(k) == {MISSING, TORN} \cup Contents(k)

(* An entry that is gone or torn is told from every other.                 *)
ASSUME MarkerAssumption ==
  /\ MISSING # TORN /\ MISSING \notin Nat /\ TORN \notin Nat
  /\ \A k \in Keys : MISSING \notin Contents(k) /\ TORN \notin Contents(k)

Whole(k) == store[k] \notin {MISSING, TORN}

FreshStore == [k \in Keys |-> MISSING]
NothingLeft == [store |-> FreshStore, ver |-> NORCOW_VERSION]

-----------------------------------------------------------------------------
(* Flash writes.                                                           *)

W(k, v) == [key |-> k, val |-> v]

(* norcow_set: delete the old item, then write the new one.                *)
norcow_set(k, v) == <<W(k, MISSING), W(k, TORN), W(k, v)>>

(* auth_update: the tag over the cached sum with the key added or removed. *)
auth_update_stale(k) == norcow_set("STORAGE_TAG", [dek |-> keys, sum |-> asum])
auth_update(k) ==
  norcow_set("STORAGE_TAG", [dek |-> keys, sum |-> SymDiff(asum, {k})])

(* storage_set_encrypted: preallocate the item, bring the authentication   *)
(* tag up to date if the key is new (auth_set), then fill the item.        *)
storage_set_encrypted(k, v) ==
  <<W(k, MISSING), W(k, TORN)>>
    \o (IF store[k] = MISSING THEN auth_update(k) ELSE <<>>)
    \o <<W(k, [val |-> v, dek |-> keys])>>

set_pin_no_flag(pin, d) ==
  norcow_set("EDEK_PVC", [pin |-> pin, dek |-> d, ver |-> NORCOW_VERSION])

set_pin(pin, d) ==
  norcow_set("EDEK_PVC", [pin |-> pin, dek |-> d, ver |-> NORCOW_VERSION])
    \o norcow_set("PIN_NOT_SET", pin = PIN_EMPTY)

pin_fails_increase_lost == <<>>
pin_fails_increase == norcow_set("PIN_LOGS", store["PIN_LOGS"] + 1)

(* Bitwise flash: the entry that clears the last bit of the log leaves one *)
(* that pin_get_fails cannot read any more. A reset starts a new log       *)
(* before the last word is reached, so that only happens to a count that   *)
(* comes to PIN_MAX_TRIES (CountSteps of PinLogs).                         *)
EXHAUSTED == TORN
MayUseUpLog == store["PIN_LOGS"] + 1 >= PIN_MAX_TRIES
pin_log_used_up == <<W("PIN_LOGS", MISSING), W("PIN_LOGS", EXHAUSTED)>>
Increases == {pin_fails_increase}
               \cup (IF MayUseUpLog THEN {pin_log_used_up} ELSE {})

pin_fails_reset == norcow_set("PIN_LOGS", 0)

(* init_wiped_storage: everything a locked storage needs, the EDEK last    *)
(* but one.                                                                *)
init_wiped_storage(d) ==
  norcow_set("STORAGE_TAG", [dek |-> d, sum |-> {}])
    \o norcow_set("VERSION", [ver |-> NORCOW_VERSION, dek |-> d])
    \o norcow_set("UNAUTH_VERSION", NORCOW_VERSION)
    \o norcow_set("STORAGE_UPGRADED", FALSE)
    \o norcow_set("PIN_LOGS", 0)
    \o norcow_set("WIPE_CODE_DATA", WIPE_CODE_EMPTY)
    \o set_pin(PIN_EMPTY, d)

(* random_buffer(cached_keys): a key that protects nothing yet, in either  *)
(* sector. One is as good as another.                                      *)
Uses(k, d) == Whole(k) /\ store[k].dek = d
UsedByLeft(k, d) ==
  left.store[k] \notin {MISSING, TORN} /\ left.store[k].dek = d
Fresh(d) ==
  d # keys /\ \A k \in {"EDEK_PVC", "VERSION", "STORAGE_TAG"} \cup Protected :
                 ~Uses(k, d) /\ ~UsedByLeft(k, d)
FreshDek == CHOOSE d \in DEKS : Fresh(d)

-----------------------------------------------------------------------------
(* Reading.                                                                *)

(* pin_get_fails: a count, unless the entry is gone or torn.               *)
LogsReadable == Whole("PIN_LOGS")

(* The protected keys auth_get meets in the store.                         *)
Present == {k \in Protected : store[k] # MISSING}

(* auth_get's check of the storage authentication tag with data key d.     *)
TagGood(d) == store["STORAGE_TAG"] = [dek |-> d, sum |-> Present]

(* storage_get_encrypted does not end in handle_fault.                     *)
Decrypts(k, d) == TagGood(d) /\ (store[k] # MISSING => Uses(k, d))

(* get_lock_version() picks the scheme decrypt_dek derives the KEK with; a *)
(* torn version reads as a large number.                                   *)
LockScheme == IF Whole("UNAUTH_VERSION") THEN store["UNAUTH_VERSION"]
              ELSE NORCOW_VERSION
KdfScheme(v) == IF v >= 5 THEN 5 ELSE 4

(* is_not_wipe_code, when there is a wipe code entry to compare with.      *)
is_not_wipe_code_skipped(pin) == TRUE
is_not_wipe_code(pin) == pin # store["WIPE_CODE_DATA"]

TooMany_off_by_one == store["PIN_LOGS"] > PIN_MAX_TRIES
TooMany == store["PIN_LOGS"] >= PIN_MAX_TRIES

PinOpens_any_pin(pin) ==
  /\ Whole("EDEK_PVC")
  /\ KdfScheme(store["EDEK_PVC"].ver) = KdfScheme(LockScheme)

(* decrypt_dek finds the PIN verification code it computed.                *)
PinOpens(pin) ==
  /\ Whole("EDEK_PVC")
  /\ store["EDEK_PVC"].pin = pin
  /\ KdfScheme(store["EDEK_PVC"].ver) = KdfScheme(LockScheme)

-----------------------------------------------------------------------------
(* storage_wipe, continuing at r, and the fault handler, which counts the  *)
(* fault as a PIN failure and halts, or wipes when it cannot.              *)
storage_wipe(r) ==
  /\ pc' = "wipe" /\ ret' = r
  /\ UNCHANGED <<flashVars, unlocked, keys, asum, ctr, call, todo, triesVars,
                 losses>>

CanCount_no_limit == LogsReadable
CanCount == LogsReadable /\ store["PIN_LOGS"] < LOG_LIMIT

FaultCounted ==
  /\ CanCount
  /\ todo' = pin_fails_increase
  /\ pc' = "fault"
  /\ UNCHANGED <<flashVars, ramVars, triesVars, losses>>

FaultUsesUpLog ==
  /\ CanCount /\ MayUseUpLog
  /\ todo' = pin_log_used_up
  /\ pc' = "wipe" /\ ret' = "fault"
  /\ UNCHANGED <<flashVars, unlocked, keys, asum, ctr, call, triesVars, losses>>

handle_fault == \/ FaultCounted \/ FaultUsesUpLog
                \/ ~CanCount /\ storage_wipe("fault")

-----------------------------------------------------------------------------
(* Power on: storage_init.                                                 *)

(* storage_upgrade copies the entries into the new sector and sets the     *)
(* flag last; norcow_upgrade_finish erases the old sector.                 *)
Flagged == [store EXCEPT !["STORAGE_UPGRADED"] = TRUE]
storage_upgrade ==
  /\ pc = "boot" /\ nver < NORCOW_VERSION
  /\ store' = Flagged
  /\ nver' = NORCOW_VERSION
  /\ left' = NothingLeft
  /\ UNCHANGED <<ramVars, pc, todo, triesVars, losses>>

(* The copies of the store that a loss of power may cut short: what was    *)
(* not copied yet is missing, what was being copied is torn.               *)
PartCopies(lost) ==
  {[k \in Keys |-> IF k \in lost /\ store[k] # MISSING THEN gone[k]
                   ELSE store[k]] : gone \in [lost -> {MISSING, TORN}]}
CutCopies == UNION {PartCopies(lost) : lost \in LostSets \cup {{}}}

(* The power is lost and l is left in the other sector. That matters to a  *)
(* later loss only: after the last one nothing needs to be remembered.     *)
LossLeaves(l) ==
  /\ losses < MAX_LOSSES
  /\ losses' = losses + 1
  /\ left' = IF losses' < MAX_LOSSES THEN l ELSE NothingLeft
Leftover(f) == [store |-> f, ver |-> nver]

(* The new sector has the higher version and wins the next boot: half      *)
(* written and without the flag, or complete, with the old one not erased. *)
UpgradeCutShort ==
  /\ pc = "boot" /\ nver < NORCOW_VERSION
  /\ store' \in CutCopies \cup {Flagged}
  /\ nver' = NORCOW_VERSION
  /\ LossLeaves(Leftover(store))
  /\ UNCHANGED <<ramVars, pc, todo, triesVars>>

storage_init ==
  /\ pc = "boot" /\ nver = NORCOW_VERSION
  /\ store["EDEK_PVC"] # MISSING
  /\ pc' = "idle"
  /\ UNCHANGED <<flashVars, ramVars, todo, triesVars, losses>>

(* There is no EDEK: new keys, an empty PIN, locked at the end.            *)
storage_init_new ==
  /\ pc = "boot" /\ nver = NORCOW_VERSION
  /\ store["EDEK_PVC"] = MISSING
  /\ \E d \in DEKS :
       /\ Fresh(d) /\ d = FreshDek
       /\ keys' = d /\ todo' = init_wiped_storage(d)
  /\ unlocked' = TRUE /\ asum' = {}
  /\ pc' = "lock"
  /\ guesses' = 0 /\ spent' = [spent EXCEPT ![keys'] = 0]
  /\ UNCHANGED <<flashVars, ctr, call, ret, revived, losses>>

Lock(next) ==
  /\ unlocked' = FALSE /\ keys' = NONE /\ asum' = {}
  /\ pc' = next
  /\ UNCHANGED <<flashVars, ctr, call, ret, todo, triesVars, losses>>

storage_init_lock == pc = "lock" /\ todo = <<>> /\ Lock("idle")

Idle == pc = "idle" /\ todo = <<>>

storage_lock == Idle /\ unlocked /\ Lock("idle")

-----------------------------------------------------------------------------
(* unlock(), called by storage_unlock, storage_change_pin and              *)
(* storage_change_wipe_code.                                               *)

Calls == [op : {"unlock"}, pin : AnyPin, new : {NONE}]
           \cup [op : {"change_pin"}, pin : AnyPin, new : AnyPin]
           \cup {c \in [op : {"change_wipe_code"}, pin : AnyPin, new : AnyPin] :
                   c.pin = PIN_EMPTY \/ c.pin # c.new}

ASSUME NoCallAssumption == NONE \notin Calls

(* get_lock_version and is_not_wipe_code find what they read.              *)
WipeCodeReadable ==
  store["UNAUTH_VERSION"] # MISSING /\ Whole("WIPE_CODE_DATA")

UnlockFault == Idle /\ ~(WipeCodeReadable /\ LogsReadable) /\ handle_fault

UnlockWipeCode(c) ==
  /\ Idle /\ WipeCodeReadable
  /\ ~is_not_wipe_code(c.pin)
  /\ storage_wipe("halt")

UnlockTooMany(c) ==
  /\ Idle /\ WipeCodeReadable /\ LogsReadable
  /\ is_not_wipe_code(c.pin)
  /\ TooMany
  /\ storage_wipe("halt")

(* The counter is increased before the PIN is looked at.                   *)
UnlockTry(c) ==
  /\ Idle /\ WipeCodeReadable /\ LogsReadable
  /\ is_not_wipe_code(c.pin)
  /\ ~TooMany
  /\ ctr' = store["PIN_LOGS"]
  /\ call' = c
  /\ todo' \in Increases
  /\ pc' = "verify"
  /\ UNCHANGED <<flashVars, unlocked, keys, asum, ret, triesVars, losses>>

Verify == pc = "verify" /\ todo = <<>>
Counted == store["PIN_LOGS"] = ctr + 1 /\ store["EDEK_PVC"] # MISSING

(* decrypt_dek fails: one more wrong PIN for the EDEK that was tried.      *)
WrongPin ==
  /\ guesses' = guesses + 1
  /\ spent' = IF Whole("EDEK_PVC")
              THEN [spent EXCEPT ![store["EDEK_PVC"].dek] = @ + 1]
              ELSE spent
  /\ UNCHANGED revived

VerifyWrong ==
  /\ Verify /\ Counted
  /\ ~PinOpens(call.pin)
  /\ ctr + 1 < PIN_MAX_TRIES
  /\ WrongPin
  /\ ctr' = 0 /\ call' = NONE
  /\ pc' = "idle"
  /\ UNCHANGED <<flashVars, unlocked, keys, asum, ret, todo, losses>>

VerifyLast ==
  /\ Verify /\ Counted
  /\ ~PinOpens(call.pin)
  /\ ctr + 1 >= PIN_MAX_TRIES
  /\ WrongPin
  /\ pc' = "wipe" /\ ret' = "halt"
  /\ UNCHANGED <<flashVars, unlocked, keys, asum, ctr, call, todo, losses>>

(* storage_upgrade_unlocked can read the authenticated version.            *)
VersionReadable(d) == Whole("VERSION") /\ Decrypts("VERSION", d)

VerifyFault ==
  /\ Verify
  /\ \/ ~Counted
     \/ PinOpens(call.pin) /\ ~VersionReadable(store["EDEK_PVC"].dek)
  /\ handle_fault

(* The PIN is right; storage_upgrade_unlocked re-encrypts the EDEK that an *)
(* older version wrote.                                                    *)
VerifyRight ==
  /\ Verify /\ Counted
  /\ PinOpens(call.pin)
  /\ LET d == store["EDEK_PVC"].dek IN
     /\ VersionReadable(d)
     /\ keys' = d
     /\ todo' = IF store["VERSION"].ver <= 4 THEN set_pin(call.pin, d)
                ELSE <<>>
  /\ asum' = Present
  /\ guesses' = 0 /\ spent' = [spent EXCEPT ![keys'] = 0]
  /\ pc' = "check"
  /\ UNCHANGED <<flashVars, unlocked, ctr, call, ret, revived, losses>>

-----------------------------------------------------------------------------
(* check_storage_version.                                                  *)
Check == pc = "check" /\ todo = <<>>
VersionsAgree == /\ store["UNAUTH_VERSION"] = store["VERSION"].ver
                 /\ store["STORAGE_UPGRADED"] # MISSING
Upgraded == store["VERSION"].ver < nver /\ store["STORAGE_UPGRADED"] = TRUE
Unchanged == store["VERSION"].ver = nver /\ store["STORAGE_UPGRADED"] = FALSE

CheckFault == Check /\ ~VersionsAgree /\ handle_fault

(* "Attack": the flag does not fit the versions. Wipe, then count a fault. *)
CheckAttack ==
  /\ Check /\ VersionsAgree
  /\ ~Upgraded /\ ~Unchanged
  /\ storage_wipe("refault")

WriteVersion_keeps_flag(v, d) ==
  norcow_set("VERSION", [ver |-> v, dek |-> d])
    \o norcow_set("UNAUTH_VERSION", v)
WriteVersion(v, d) ==
  norcow_set("STORAGE_UPGRADED", FALSE)
    \o norcow_set("VERSION", [ver |-> v, dek |-> d])
    \o norcow_set("UNAUTH_VERSION", v)

CheckUpgraded ==
  /\ Check /\ VersionsAgree
  /\ Upgraded
  /\ todo' = WriteVersion(nver, keys)
  /\ pc' = "open"
  /\ UNCHANGED <<flashVars, ramVars, triesVars, losses>>

CheckUnchanged ==
  /\ Check /\ VersionsAgree
  /\ Unchanged
  /\ pc' = "open"
  /\ UNCHANGED <<flashVars, ramVars, todo, triesVars, losses>>

FaultAfterWipe == pc = "refault" /\ todo = <<>> /\ handle_fault

(* unlock() succeeds: pin_fails_reset.                                     *)
Open ==
  /\ pc = "open" /\ todo = <<>>
  /\ unlocked' = TRUE
  /\ todo' = pin_fails_reset
  /\ pc' = "done"
  /\ UNCHANGED <<flashVars, keys, asum, ctr, call, ret, triesVars, losses>>

(* What the caller of unlock() does then.                                  *)
WipeCode(code) == IF code = PIN_EMPTY THEN WIPE_CODE_EMPTY ELSE code

Done ==
  /\ pc = "done" /\ todo = <<>>
  /\ todo' = CASE call.op = "unlock" -> <<>>
               [] call.op = "change_pin" ->
                    IF is_not_wipe_code(call.new) THEN set_pin(call.new, keys)
                    ELSE <<>>
               [] call.op = "change_wipe_code" ->
                    norcow_set("WIPE_CODE_DATA", WipeCode(call.new))
  /\ ctr' = 0 /\ call' = NONE
  /\ pc' = "idle"
  /\ UNCHANGED <<flashVars, unlocked, keys, asum, ret, triesVars, losses>>

-----------------------------------------------------------------------------
(* The entries of the applications.                                        *)

storage_set(k, v) ==
  /\ Idle
  /\ unlocked \/ k \in Writable
  /\ IF k \in Protected
     THEN /\ todo' = storage_set_encrypted(k, v)
          /\ asum' = IF store[k] = MISSING THEN SymDiff(asum, {k}) ELSE asum
     ELSE /\ todo' = norcow_set(k, v)
          /\ UNCHANGED asum
  /\ UNCHANGED <<flashVars, unlocked, keys, ctr, call, ret, pc, triesVars,
                 losses>>

storage_delete(k) ==
  /\ Idle
  /\ unlocked \/ k \in Writable
  /\ store[k] # MISSING
  /\ IF k \in Protected
     THEN /\ asum' = SymDiff(asum, {k})
          /\ todo' = <<W(k, MISSING)>> \o auth_update(k)
     ELSE /\ todo' = <<W(k, MISSING)>>
          /\ UNCHANGED asum
  /\ UNCHANGED <<flashVars, unlocked, keys, ctr, call, ret, pc, triesVars,
                 losses>>

(* storage_get of a protected entry that passes all checks caches the sum. *)
storage_get(k) ==
  /\ Idle /\ unlocked
  /\ k \in Protected
  /\ Decrypts(k, keys)
  /\ asum' = Present
  /\ UNCHANGED <<flashVars, unlocked, keys, ctr, call, ret, pc, todo,
                 triesVars, losses>>

storage_get_fault(k) ==
  /\ Idle /\ unlocked
  /\ k \in Protected
  /\ ~Decrypts(k, keys)
  /\ handle_fault

WipeDevice == Idle /\ storage_wipe("idle")

(* norcow_wipe, which erases both sectors, and init_wiped_storage, which   *)
(* leaves the storage unlocked.                                            *)
Wiping == pc = "wipe" /\ todo = <<>>

Erase ==
  /\ Wiping
  /\ store' = FreshStore /\ left' = NothingLeft
  /\ \E d \in DEKS :
       /\ Fresh(d) /\ d = FreshDek
       /\ keys' = d /\ todo' = init_wiped_storage(d)
  /\ unlocked' = TRUE /\ asum' = {}
  /\ guesses' = 0 /\ spent' = [d \in DEKS |-> 0]
  /\ pc' = ret
  /\ UNCHANGED <<nver, ctr, call, ret, revived, losses>>

-----------------------------------------------------------------------------
(* The flash and the power supply.                                         *)

(* A new item may need room: the items are moved to the other sector and   *)
(* the old one is erased (compact).                                        *)
MayMove == Head(todo).val = TORN /\ Head(todo).key \in NeedRoom

FlashWrite ==
  /\ todo # <<>>
  /\ store' = [store EXCEPT ![Head(todo).key] = Head(todo).val]
  /\ todo' = Tail(todo)
  /\ left' \in IF MayMove THEN {left, NothingLeft} ELSE {left}
  /\ UNCHANGED <<nver, ramVars, pc, triesVars, losses>>

(* Bitwise flash: pin_fails_reset copies the entry log over the success    *)
(* log byte by byte, so a power loss may leave a smaller count.            *)
PartialReset ==
  /\ pc = "done" /\ todo # <<>>
  /\ Head(todo) = W("PIN_LOGS", MISSING) /\ LogsReadable
  /\ \E c \in 0..(store["PIN_LOGS"] - 1) :
       store' = [store EXCEPT !["PIN_LOGS"] = c]
  /\ UNCHANGED <<nver, left, ramVars, pc, todo, triesVars, losses>>

Restart ==
  /\ unlocked' = FALSE /\ keys' = NONE /\ asum' = {}
  /\ ctr' = 0 /\ call' = NONE /\ ret' = "idle"
  /\ pc' = "boot" /\ todo' = <<>>

(* Switched off while nothing is being written, which includes the screens *)
(* shown by __fatal_error, show_wipe_code_screen and                       *)
(* show_pin_too_many_screen.                                               *)
PowerCycle ==
  /\ pc \in {"idle", "halt", "fault"} /\ todo = <<>>
  /\ Restart
  /\ UNCHANGED <<flashVars, triesVars, losses>>

PowerLoss ==
  /\ pc # "boot" /\ (todo # <<>> \/ pc \notin {"idle", "halt", "fault"})
  /\ Restart
  /\ LossLeaves(left)
  /\ UNCHANGED <<store, nver, triesVars>>

(* The new item needed room and the items were being moved. norcow_init    *)
(* takes the last of two sectors of one version: the half-written one, and *)
(* the old one is left, or the old one, and the half-written one is left.  *)
PowerLossMoving ==
  /\ todo # <<>> /\ MayMove
  /\ Restart
  /\ \/ store' \in CutCopies /\ LossLeaves(Leftover(store))
     \/ /\ store' = store
        /\ \/ \E f \in CutCopies : LossLeaves(Leftover(f))
           \/ LossLeaves(NothingLeft)
  /\ UNCHANGED <<nver, triesVars>>

(* norcow_wipe erases the active sector, writes its header and erases the  *)
(* other one. Without a header norcow_init takes the other sector, if it   *)
(* holds one that a move or an upgrade left.                               *)
WipeCutBeforeHeader ==
  /\ Wiping /\ left # NothingLeft
  /\ Restart
  /\ store' = left.store /\ nver' = left.ver
  /\ LossLeaves(NothingLeft)
  /\ guesses' = 0 /\ revived' = revived + 1
  /\ UNCHANGED spent

WipeCutAfterHeader ==
  /\ Wiping
  /\ Restart
  /\ store' = FreshStore
  /\ LossLeaves(left)
  /\ guesses' = 0
  /\ UNCHANGED <<nver, spent, revived>>

-----------------------------------------------------------------------------
(* A factory-fresh device, or one last used with an older storage version. *)
OldStore(v, pin, K) ==
  LET d == CHOOSE x \in DEKS : TRUE IN
  [k \in Keys |->
    CASE k = "PIN_LOGS" -> 0
      [] k = "EDEK_PVC" -> [pin |-> pin, dek |-> d, ver |-> v]
      [] k = "PIN_NOT_SET" -> pin = PIN_EMPTY
      [] k = "VERSION" -> [ver |-> v, dek |-> d]
      [] k = "STORAGE_TAG" -> [dek |-> d, sum |-> K]
      [] k = "WIPE_CODE_DATA" -> WIPE_CODE_EMPTY
      [] k = "STORAGE_UPGRADED" -> FALSE
      [] k = "UNAUTH_VERSION" -> v
      [] k \in K -> [val |-> CHOOSE x \in Vals : TRUE, dek |-> d]
      [] OTHER -> MISSING]

Init ==
  /\ \/ store = FreshStore /\ nver = NORCOW_VERSION
     \/ \E v \in OLD_VERSIONS, pin \in AnyPin, K \in SUBSET Protected :
          store = OldStore(v, pin, K) /\ nver = v
  /\ unlocked = FALSE /\ keys = NONE /\ asum = {}
  /\ ctr = 0 /\ call = NONE /\ ret = "idle"
  /\ pc = "boot" /\ todo = <<>>
  /\ left = NothingLeft
  /\ guesses = 0 /\ spent = [d \in DEKS |-> 0] /\ revived = 0 /\ losses = 0

Unlocking == \/ UnlockFault
             \/ \E c \in Calls : UnlockWipeCode(c)
             \/ \E c \in Calls : UnlockTooMany(c)
             \/ \E c \in Calls : UnlockTry(c)
             \/ VerifyWrong \/ VerifyLast \/ VerifyFault \/ VerifyRight
             \/ CheckFault \/ CheckAttack \/ CheckUpgraded \/ CheckUnchanged
             \/ FaultAfterWipe \/ Open \/ Done

Next == \/ storage_upgrade \/ UpgradeCutShort
        \/ storage_init \/ storage_init_new \/ storage_init_lock
        \/ storage_lock
        \/ Unlocking
        \/ \E k \in AppKeys, v \in Vals : storage_set(k, v)
        \/ \E k \in AppKeys : storage_delete(k)
        \/ \E k \in Protected : storage_get(k)
        \/ \E k \in Protected : storage_get_fault(k)
        \/ WipeDevice \/ Erase
        \/ FlashWrite \/ PartialReset
        \/ PowerCycle \/ PowerLoss \/ PowerLossMoving
        \/ WipeCutBeforeHeader \/ WipeCutAfterHeader

Spec == Init /\ [][Next]_vars

(* The firmware runs on, a halted device is switched off and on again, and *)
(* its owner keeps entering the PIN. That does not use up the PIN log each *)
(* time: a new log lasts for more tries than PIN_MAX_TRIES, so the right   *)
(* PIN was given before one is used up.                                    *)
Running == \/ storage_upgrade \/ storage_init \/ storage_init_new
           \/ storage_init_lock
           \/ VerifyWrong \/ VerifyLast \/ VerifyFault \/ VerifyRight
           \/ CheckFault \/ CheckAttack \/ CheckUpgraded \/ CheckUnchanged
           \/ FaultAfterWipe \/ Open \/ Done \/ Erase \/ FlashWrite
           \/ pc # "idle" /\ PowerCycle

OwnerUnlocks == \E c \in Calls :
  /\ c.op = "unlock"
  /\ Whole("EDEK_PVC") => c.pin = store["EDEK_PVC"].pin
  /\ \/ UnlockTry(c) /\ todo' = pin_fails_increase
     \/ UnlockTooMany(c) \/ UnlockFault

FairSpec == Spec /\ WF_vars(Running) /\ SF_vars(OwnerUnlocks)

-----------------------------------------------------------------------------
IsWrite(w) == w.key \in Keys /\ w.val \in Entry(w.key)

(* Every variable has the type storage.c gives it.                         *)
TypeOK ==
  /\ \A k \in Keys : store[k] \in Entry(k)
  /\ \A k \in Keys : left.store[k] \in Entry(k)
  /\ nver \in Versions /\ left.ver \in Versions
  /\ unlocked \in BOOLEAN
  /\ keys \in DEKS \cup {NONE}
  /\ asum \subseteq Protected
  /\ ctr \in Nat
  /\ call \in Calls \cup {NONE}
  /\ pc \in {"boot", "lock", "idle", "verify", "check", "open", "done",
             "wipe", "halt", "fault", "refault"}
  /\ ret \in {"idle", "halt", "fault", "refault"}
  /\ \A i \in DOMAIN todo : IsWrite(todo[i])
  /\ guesses \in Nat /\ revived \in Nat /\ losses \in 0..MAX_LOSSES
  /\ \A d \in DEKS : spent[d] \in Nat

(* No more than PIN_MAX_TRIES wrong PINs are checked against the EDEK of a *)
(* data key before the right one is given, whenever the power fails: the   *)
(* counter goes up before the check, and a counter that cannot be read     *)
(* wipes the storage. Only an interrupted wipe that brings back a sector,  *)
(* with the PIN log it had, allows as many again.                          *)
GuessBound == \A d \in DEKS : spent[d] <= PIN_MAX_TRIES * (1 + revived)

(* The failure counter covers every wrong PIN checked since the last right *)
(* one, since a new EDEK or since an interrupted wipe brought back an      *)
(* older log: the count in the flash where it can be read, every count     *)
(* about to be written, and the count unlock() works with.                 *)
CounterCovers ==
  /\ LogsReadable => guesses <= store["PIN_LOGS"]
  /\ \A i \in DOMAIN todo :
       todo[i].key = "PIN_LOGS" /\ todo[i].val \in Nat
         => guesses <= todo[i].val
  /\ pc = "verify" => guesses <= ctr /\ ctr < PIN_MAX_TRIES
  /\ pc \in {"check", "open", "done"} => guesses = 0

(* Between operations an unlocked storage is sound: the cached keys are    *)
(* those of the EDEK, the authentication tag is the one of exactly the     *)
(* protected entries in the flash, and the cached sum, from which the next *)
(* tag will be computed, is theirs too.                                    *)
UnlockedSound ==
  Idle /\ unlocked =>
    /\ Whole("EDEK_PVC") /\ store["EDEK_PVC"].dek = keys
    /\ TagGood(keys)
    /\ asum = Present

(* The PIN that opens the storage never is the wipe code, or entering it   *)
(* would erase the device.                                                 *)
PinIsNotWipeCode ==
  Whole("EDEK_PVC") /\ Whole("WIPE_CODE_DATA")
    => store["EDEK_PVC"].pin # store["WIPE_CODE_DATA"]

(* Without a power loss handle_fault is reached in one place only: in      *)
(* unlock(), when the last allowed try used up the PIN log. No other       *)
(* sequence of operations makes the storage inconsistent by itself.        *)
FaultReached ==
  /\ pc \notin {"wipe", "fault"}
  /\ \/ pc' = "fault"
     \/ pc' = "wipe" /\ ret' \in {"fault", "refault"}
FaultNeedsLossOrFullLog ==
  [][FaultReached /\ losses = 0 =>
       /\ pc = "verify" /\ store["PIN_LOGS"] = EXHAUSTED
       /\ ctr + 1 = PIN_MAX_TRIES]_vars

(* Without a power loss storage_has_pin tells between operations whether   *)
(* the empty PIN opens the storage.                                        *)
HasPinAgrees ==
  Idle /\ losses = 0 => store["PIN_NOT_SET"] = PinOpens(PIN_EMPTY)

(* The storage only becomes unlocked with a data key for which the right   *)
(* PIN was just given, or with a new one that opens nothing: the entries   *)
(* an interrupted wipe or PIN change left behind stay out of reach.        *)
UnlockNeedsPin ==
  [][~unlocked /\ unlocked' =>
       \/ /\ call # NONE /\ Whole("EDEK_PVC")
          /\ store["EDEK_PVC"].pin = call.pin
          /\ store["EDEK_PVC"].dek = keys'
       \/ \A k \in Protected : store'[k] = MISSING \/ ~Uses(k, keys')]_vars

(* Whatever power losses did to the flash, the owner who keeps entering    *)
(* the PIN gets an unlocked device again and again: the old contents or,   *)
(* once the faults have been counted up to a limit, a wiped storage.       *)
AlwaysUsableAgain == []<>(Idle /\ unlocked)

(* get_lock_version: "Returns the storage version that was used to lock    *)
(* the storage." (storage/storage.c). Otherwise decrypt_dek derives the    *)
(* KEK with the wrong scheme and the right PIN is refused.                 *)
LockVersionIsThatOfEdek ==
  Idle /\ Whole("EDEK_PVC") /\ Whole("UNAUTH_VERSION")
    => KdfScheme(store["UNAUTH_VERSION"]) = KdfScheme(store["EDEK_PVC"].ver)

=============================================================================
