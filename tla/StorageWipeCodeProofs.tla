----------------------- MODULE StorageWipeCodeProofs -----------------------
(***************************************************************************)
(* The PIN of Storage never is the wipe code, for every value of the       *)
(* constants and wherever power losses cut the writes short.               *)
(***************************************************************************)
EXTENDS StorageProofs

(* The PIN is not the wipe code. PinIsNotWipeCode is not inductive: what   *)
(* is about to be written counts too, in whatever order it reaches the     *)
(* flash. P are the PINs that open the storage, now or after some of the   *)
(* writes; no wipe code is ever one of them.                               *)

Gone == {MISSING, TORN}

SafeWrites(P) ==
  {w \in [key : Keys, val : AnyEntry] :
     /\ w.key = "EDEK_PVC" /\ w.val \notin Gone => w.val.pin \in P
     /\ w.key = "WIPE_CODE_DATA" /\ w.val \notin Gone => w.val \notin P}

KeepsApart(P) ==
  /\ PIN_EMPTY \in P /\ P \subseteq AnyPin
  /\ store["EDEK_PVC"] \notin Gone => store["EDEK_PVC"].pin \in P
  /\ store["WIPE_CODE_DATA"] \notin Gone => store["WIPE_CODE_DATA"] \notin P
  /\ todo \in Seq(SafeWrites(P))
  /\ pc \in {"check", "open", "done"} => P \subseteq {PIN_EMPTY, call.pin}

StoreApart == \E P : KeepsApart(P)

(* So it is in the other sector, which an interrupted wipe brings back.    *)
LeftApart ==
  \E P : /\ PIN_EMPTY \in P /\ P \subseteq AnyPin
         /\ left.store["EDEK_PVC"] \notin Gone
              => left.store["EDEK_PVC"].pin \in P
         /\ left.store["WIPE_CODE_DATA"] \notin Gone
              => left.store["WIPE_CODE_DATA"] \notin P

ApartInv == StoreApart /\ LeftApart

LEMMA SafeSet ==
  ASSUME NEW P, NEW k \in Keys, NEW v \in Entry(k),
         k = "EDEK_PVC" /\ v \notin Gone => v.pin \in P,
         k = "WIPE_CODE_DATA" /\ v \notin Gone => v \notin P
  PROVE  /\ W(k, v) \in SafeWrites(P)
         /\ W(k, MISSING) \in SafeWrites(P) /\ W(k, TORN) \in SafeWrites(P)
         /\ norcow_set(k, v) \in Seq(SafeWrites(P))
<1>1. W(k, v) \in SafeWrites(P)
  BY DEF W, SafeWrites, AnyEntry
<1>2. W(k, MISSING) \in SafeWrites(P) /\ W(k, TORN) \in SafeWrites(P)
  BY EntryOf DEF W, SafeWrites, AnyEntry, Gone
<1> QED BY <1>1, <1>2 DEF norcow_set

LEMMA SafeConcat ==
  ASSUME NEW P, NEW s \in Seq(SafeWrites(P)), NEW t \in Seq(SafeWrites(P))
  PROVE  s \o t \in Seq(SafeWrites(P))
BY ConcatProperties

LEMMA SafeSetPin ==
  ASSUME NEW P, NEW pin \in AnyPin, NEW d \in DEKS, pin \in P
  PROVE  set_pin(pin, d) \in Seq(SafeWrites(P))
<1> DEFINE e == [pin |-> pin, dek |-> d, ver |-> NORCOW_VERSION]
<1>1. e \in Entry("EDEK_PVC") /\ e.pin \in P
  BY EdekEntry DEF Versions
<1>2. (pin = PIN_EMPTY) \in Entry("PIN_NOT_SET")
  BY FlagEntry
<1> HIDE DEF e
<1>3. norcow_set("EDEK_PVC", e) \in Seq(SafeWrites(P))
  BY <1>1, SafeSet, EdekEntry
<1>4. norcow_set("PIN_NOT_SET", pin = PIN_EMPTY) \in Seq(SafeWrites(P))
  BY <1>2, SafeSet, FlagEntry
<1> QED BY <1>3, <1>4, SafeConcat DEF set_pin, e

(* Every other entry is safe to write.                                     *)
LEMMA SafeOther ==
  ASSUME NEW P, NEW k \in Keys, NEW v \in Entry(k),
         k # "EDEK_PVC", k # "WIPE_CODE_DATA"
  PROVE  /\ W(k, v) \in SafeWrites(P)
         /\ W(k, MISSING) \in SafeWrites(P) /\ W(k, TORN) \in SafeWrites(P)
         /\ norcow_set(k, v) \in Seq(SafeWrites(P))
BY SafeSet

LEMMA SafeVersion ==
  ASSUME NEW P, NEW v \in Versions, NEW d \in DEKS
  PROVE  /\ norcow_set("VERSION", [ver |-> v, dek |-> d])
              \in Seq(SafeWrites(P))
         /\ norcow_set("UNAUTH_VERSION", v) \in Seq(SafeWrites(P))
         /\ norcow_set("STORAGE_UPGRADED", FALSE) \in Seq(SafeWrites(P))
<1>1. [ver |-> v, dek |-> d] \in Entry("VERSION")
  BY VersionEntry
<1>2. v \in Entry("UNAUTH_VERSION")
  BY VersionEntry
<1>3. FALSE \in Entry("STORAGE_UPGRADED")
  BY FlagEntry
<1> QED BY <1>1, <1>2, <1>3, SafeOther, VersionEntry, FlagEntry

LEMMA SafeTag ==
  ASSUME NEW P, NEW K \in SUBSET Protected, NEW d \in DEKS
  PROVE  norcow_set("STORAGE_TAG", [dek |-> d, sum |-> K])
           \in Seq(SafeWrites(P))
<1>1. [dek |-> d, sum |-> K] \in Entry("STORAGE_TAG")
  BY TagEntry
<1> QED BY <1>1, SafeOther, TagEntry

LEMMA SafeCounter ==
  ASSUME NEW P, NEW n \in 0..LOG_LIMIT
  PROVE  norcow_set("PIN_LOGS", n) \in Seq(SafeWrites(P))
BY SafeOther, PinLogsEntry

LEMMA SafeUsedUp ==
  ASSUME NEW P
  PROVE  pin_log_used_up \in Seq(SafeWrites(P))
<1>1. 0 \in Entry("PIN_LOGS") /\ "PIN_LOGS" \in Keys
  BY PinLogsEntry, StorageAssumption
<1> QED BY <1>1, SafeOther DEF pin_log_used_up, EXHAUSTED

LEMMA SafeNewStorage ==
  ASSUME NEW P, NEW d \in DEKS, PIN_EMPTY \in P, P \subseteq AnyPin
  PROVE  init_wiped_storage(d) \in Seq(SafeWrites(P))
<1> DEFINE S == Seq(SafeWrites(P))
<1>1. norcow_set("STORAGE_TAG", [dek |-> d, sum |-> {}]) \in S
  BY SafeTag
<1>2. NORCOW_VERSION \in Versions
  BY DEF Versions
<1>3. /\ norcow_set("VERSION", [ver |-> NORCOW_VERSION, dek |-> d]) \in S
      /\ norcow_set("UNAUTH_VERSION", NORCOW_VERSION) \in S
      /\ norcow_set("STORAGE_UPGRADED", FALSE) \in S
  BY <1>2, SafeVersion
<1>4. norcow_set("PIN_LOGS", 0) \in S
  BY SafeCounter, StorageAssumption
<1>5. norcow_set("WIPE_CODE_DATA", WIPE_CODE_EMPTY) \in S
  BY SafeSet, WipeCodeEntry, StorageAssumption DEF AnyWipeCode, AnyPin
<1>6. set_pin(PIN_EMPTY, d) \in S
  BY SafeSetPin DEF AnyPin
<1>7. \A s, t \in S : s \o t \in S
  BY SafeConcat
<1>8. init_wiped_storage(d) \in S
  <2> HIDE DEF S
  <2> QED BY <1>1, <1>3, <1>4, <1>5, <1>6, <1>7 DEF init_wiped_storage
<1> QED BY <1>8

LEMMA InitApart == Init => ApartInv
<1> SUFFICES ASSUME Init PROVE ApartInv
  OBVIOUS
<1>1. todo = <<>> /\ pc = "boot"
  BY DEF Init
<1>4. LeftApart
  <2>1. /\ left.store["EDEK_PVC"] = MISSING
        /\ left.store["WIPE_CODE_DATA"] = MISSING
    BY EdekEntry, WipeCodeEntry DEF Init, NothingLeft, FreshStore
  <2> QED BY <2>1 DEF LeftApart, AnyPin, Gone
<1>2. CASE store = FreshStore
  <2>1. store["EDEK_PVC"] = MISSING /\ store["WIPE_CODE_DATA"] = MISSING
    BY <1>2, EdekEntry, WipeCodeEntry DEF FreshStore
  <2>2. KeepsApart({PIN_EMPTY})
    BY <1>1, <2>1 DEF KeepsApart, AnyPin, Gone
  <2> QED BY <1>4, <2>2 DEF ApartInv, StoreApart
<1>3. CASE \E v \in OLD_VERSIONS, pin \in AnyPin, K \in SUBSET Protected :
             store = OldStore(v, pin, K)
  <2>1. PICK v \in OLD_VERSIONS, pin \in AnyPin, K \in SUBSET Protected :
          store = OldStore(v, pin, K)
    BY <1>3
  <2>2. K \cap PrivateKeys = {}
    BY <2>1, StorageAssumption DEF AppKeys
  <2>3. /\ store["EDEK_PVC"].pin = pin
        /\ store["WIPE_CODE_DATA"] = WIPE_CODE_EMPTY
    BY <2>1, <2>2 DEF OldStore, Keys, PrivateKeys
  <2>4. KeepsApart({PIN_EMPTY, pin})
    BY <1>1, <2>3, StorageAssumption DEF KeepsApart, AnyPin
  <2> QED BY <1>4, <2>4 DEF ApartInv, StoreApart
<1> QED BY <1>2, <1>3 DEF Init

(* Steps that write nothing to the two entries, now or later.              *)
LEMMA ApartKept ==
  ASSUME NEW P, KeepsApart(P), store' = store, todo' \in Seq(SafeWrites(P)),
         pc' \in {"check", "open", "done"}
           => pc \in {"check", "open", "done"} /\ call' = call
  PROVE  StoreApart'
<1>1. KeepsApart(P)'
  BY DEF KeepsApart
<1> QED BY <1>1 DEF StoreApart

LEMMA ApartFault ==
  ASSUME NEW P, IInv, KeepsApart(P), handle_fault
  PROVE  StoreApart'
<1>1. CASE ~CanCount
  <2>1. storage_wipe("fault")
    BY <1>1 DEF handle_fault, FaultCounted, FaultUsesUpLog
  <2> QED BY <2>1, ApartKept DEF storage_wipe, KeepsApart, flashVars
<1>2. CASE CanCount
  <2>1. store["PIN_LOGS"] + 1 \in 0..LOG_LIMIT
    BY <1>2, CountRead, StorageAssumption DEF CanCount, IInv
  <2>2. /\ todo' \in {pin_fails_increase, pin_log_used_up}
        /\ store' = store /\ pc' \in {"fault", "wipe"}
    BY <1>2 DEF handle_fault, FaultCounted, FaultUsesUpLog, flashVars
  <2>3. todo' \in Seq(SafeWrites(P))
    BY <2>1, <2>2, SafeCounter, SafeUsedUp DEF pin_fails_increase
  <2> QED BY <2>2, <2>3, ApartKept
<1> QED BY <1>1, <1>2

(* The handlers between two flash writes, the fault handler aside.         *)
LEMMA ApartQuiet ==
  ASSUME NEW P, IInv, KeepsApart(P),
         \/ storage_init \/ storage_init_lock \/ storage_lock
         \/ CheckUnchanged \/ CheckUpgraded \/ Open
         \/ VerifyWrong \/ VerifyLast
         \/ WipeDevice \/ CheckAttack
         \/ (\E c \in Calls : UnlockWipeCode(c))
         \/ (\E c \in Calls : UnlockTooMany(c))
         \/ (\E c \in Calls : UnlockTry(c))
         \/ (\E k \in Protected : storage_get(k))
  PROVE  StoreApart'
<1>1. CASE CheckUpgraded
  <2>1. nver \in Versions /\ keys \in DEKS
    BY <1>1 DEF IInv, RamOK, CallOK, CheckUpgraded, Check
  <2>2. todo' \in Seq(SafeWrites(P))
    BY <1>1, <2>1, SafeVersion, SafeConcat DEF CheckUpgraded, WriteVersion
  <2> QED BY <1>1, <2>2, ApartKept
          DEF CheckUpgraded, Check, flashVars, ramVars
<1>2. CASE Open
  <2>1. todo' \in Seq(SafeWrites(P))
    BY <1>2, SafeCounter, StorageAssumption DEF Open, pin_fails_reset
  <2> QED BY <1>2, <2>1, ApartKept DEF Open, flashVars
<1>3. CASE \E c \in Calls : UnlockTry(c)
  <2>1. PICK c \in Calls : UnlockTry(c)
    BY <1>3
  <2>2. store["PIN_LOGS"] + 1 \in 0..LOG_LIMIT
    BY <2>1, CountRead, StorageAssumption DEF UnlockTry, IInv, TooMany
  <2>3. todo' \in Seq(SafeWrites(P))
    BY <2>1, <2>2, SafeCounter, SafeUsedUp
    DEF UnlockTry, Increases, pin_fails_increase
  <2> QED BY <2>1, <2>3, ApartKept DEF UnlockTry, flashVars
<1>4. CASE \/ storage_init \/ storage_init_lock \/ storage_lock
           \/ CheckUnchanged \/ VerifyWrong \/ VerifyLast
           \/ WipeDevice \/ CheckAttack
           \/ (\E c \in Calls : UnlockWipeCode(c))
           \/ (\E c \in Calls : UnlockTooMany(c))
           \/ (\E k \in Protected : storage_get(k))
  <2>1. /\ todo' = todo /\ store' = store
        /\ pc' \in {"check", "open", "done"}
             => pc \in {"check", "open", "done"} /\ call' = call
    BY <1>4
    DEF storage_init, storage_init_lock, storage_lock, Lock, CheckUnchanged,
        Check, VerifyWrong, VerifyLast, WipeDevice, CheckAttack, Idle,
        UnlockWipeCode, UnlockTooMany, storage_wipe, storage_get, flashVars,
        ramVars
  <2> QED BY <2>1, ApartKept DEF KeepsApart
<1> QED BY <1>1, <1>2, <1>3, <1>4

(* The PIN was right, so it was not the wipe code; nor is the empty PIN.   *)
LEMMA ApartRight ==
  ASSUME NEW P, IInv, KeepsApart(P), VerifyRight
  PROVE  StoreApart'
<1> PICK Q : Q = {PIN_EMPTY, call.pin}
  OBVIOUS
<1>1. /\ store["EDEK_PVC"] \notin Gone /\ store["EDEK_PVC"].pin = call.pin
      /\ store' = store /\ call' = call
      /\ todo' \in {<<>>, set_pin(call.pin, store["EDEK_PVC"].dek)}
  BY DEF VerifyRight, PinOpens, Whole, Gone, flashVars
<1>2. store["EDEK_PVC"] \in [pin : AnyPin, dek : DEKS, ver : Versions]
  BY <1>1, EdekRead DEF IInv, Whole, Gone
<1>3. Q \subseteq P /\ call.pin \in AnyPin /\ store["EDEK_PVC"].dek \in DEKS
  BY <1>1, <1>2 DEF KeepsApart
<1>4. todo' \in Seq(SafeWrites(Q))
  <2>1. set_pin(call.pin, store["EDEK_PVC"].dek) \in Seq(SafeWrites(Q))
    BY <1>3, SafeSetPin
  <2>2. <<>> \in Seq(SafeWrites(Q))
    OBVIOUS
  <2> QED BY <1>1, <2>1, <2>2
<1>5. KeepsApart(Q)'
  BY <1>1, <1>3, <1>4 DEF KeepsApart
<1> QED BY <1>5 DEF StoreApart

(* The new PIN or wipe code is compared with the one it must differ from.  *)
LEMMA ApartDone ==
  ASSUME NEW P, IInv, KeepsApart(P), Done
  PROVE  StoreApart'
<1>1. /\ pc = "done" /\ pc' = "idle" /\ todo = <<>> /\ store' = store
      /\ call \in Calls /\ keys \in DEKS
  BY DEF Done, IInv, CallOK, flashVars
<1>2. CASE todo' = <<>>
  BY <1>1, <1>2, ApartKept
<1>3. CASE call.op = "change_pin" /\ is_not_wipe_code(call.new)
  <2> PICK Q : Q = P \cup {call.new}
    OBVIOUS
  <2>1. call.new \in AnyPin
    BY <1>1, <1>3 DEF Calls
  <2>2. todo' = set_pin(call.new, keys)
    BY <1>3 DEF Done
  <2>3. todo' \in Seq(SafeWrites(Q))
    BY <1>1, <2>1, <2>2, SafeSetPin
  <2>4. KeepsApart(Q)'
    BY <1>1, <1>3, <2>1, <2>3 DEF KeepsApart, is_not_wipe_code
  <2> QED BY <2>4 DEF StoreApart
<1>4. CASE call.op = "change_wipe_code"
  <2>1. /\ call.new \in AnyPin /\ P \subseteq {PIN_EMPTY, call.pin}
        /\ call.pin = PIN_EMPTY \/ call.pin # call.new
    BY <1>1, <1>4 DEF Calls, KeepsApart
  <2>2. WipeCode(call.new) \in AnyWipeCode /\ WipeCode(call.new) \notin P
    BY <2>1, StorageAssumption
    DEF WipeCode, AnyPin, AnyWipeCode, KeepsApart
  <2>3. todo' = norcow_set("WIPE_CODE_DATA", WipeCode(call.new))
    BY <1>4 DEF Done
  <2>4. todo' \in Seq(SafeWrites(P))
    BY <2>2, <2>3, SafeSet, WipeCodeEntry
  <2> QED BY <1>1, <2>4, ApartKept
<1> QED BY <1>1, <1>2, <1>3, <1>4 DEF Done, Calls

LEMMA ApartApp ==
  ASSUME NEW P, IInv, KeepsApart(P),
         NEW k \in AppKeys,
         (\E v \in Vals : storage_set(k, v)) \/ storage_delete(k)
  PROVE  StoreApart'
<1>1. /\ store' = store /\ pc' = "idle"
      /\ unlocked \/ k \in Writable
  BY DEF storage_set, storage_delete, Idle, flashVars
<1>2. /\ k \in Keys /\ k # "EDEK_PVC" /\ k # "WIPE_CODE_DATA"
  BY StorageAssumption DEF Keys, PrivateKeys
<1>3. todo' \in Seq(SafeWrites(P))
  <2>1. CASE k \in Protected
    <3>1. keys \in DEKS /\ SymDiff(asum, {k}) \subseteq Protected
      BY <1>1, <2>1, StorageAssumption DEF IInv, CallOK, RamOK, SymDiff
    <3>2. auth_update(k) \in Seq(SafeWrites(P)) /\ <<>> \in Seq(SafeWrites(P))
      BY <3>1, SafeTag DEF auth_update
    <3>3. MISSING \in Entry(k) /\ TORN \in Entry(k)
      BY <1>2, EntryOf
    <3>4. /\ <<W(k, MISSING)>> \in Seq(SafeWrites(P))
          /\ <<W(k, MISSING), W(k, TORN)>> \in Seq(SafeWrites(P))
      BY <1>2, <3>3, SafeOther
    <3>5. ASSUME NEW v \in Vals
          PROVE  storage_set_encrypted(k, v) \in Seq(SafeWrites(P))
      <4>1. [val |-> v, dek |-> keys] \in Entry(k)
        BY <2>1, <3>1, AppEntry
      <4>2. <<W(k, [val |-> v, dek |-> keys])>> \in Seq(SafeWrites(P))
        BY <1>2, <4>1, SafeOther
      <4> QED BY <3>2, <3>4, <4>2, SafeConcat DEF storage_set_encrypted
    <3>6. <<W(k, MISSING)>> \o auth_update(k) \in Seq(SafeWrites(P))
      BY <3>2, <3>4, SafeConcat
    <3> QED BY <2>1, <3>5, <3>6 DEF storage_set, storage_delete
  <2>2. CASE k \notin Protected
    <3>1. \A v \in Vals : v \in Entry(k)
      BY <2>2, AppEntry DEF AppKeys
    <3>2. \A v \in Vals : norcow_set(k, v) \in Seq(SafeWrites(P))
      BY <1>2, <3>1, SafeOther
    <3>3. <<W(k, MISSING)>> \in Seq(SafeWrites(P))
      BY <1>2, EntryOf, SafeOther
    <3> QED BY <2>2, <3>2, <3>3 DEF storage_set, storage_delete
  <2> QED BY <2>1, <2>2
<1> QED BY <1>1, <1>3, ApartKept

(* A wiped storage has the empty PIN and no wipe code.                     *)
LEMMA ApartNew ==
  ASSUME NEW P, IInv, KeepsApart(P), storage_init_new \/ Erase
  PROVE  StoreApart'
<1>1. PICK d \in DEKS :
        /\ todo' = init_wiped_storage(d)
        /\ pc' = "lock" \/ pc' = ret
        /\ store' = store \/ store' = [k \in Keys |-> MISSING]
  BY DEF storage_init_new, Erase, flashVars, FreshStore
<1>2. pc' \notin {"check", "open", "done"}
  BY <1>1 DEF IInv, RamOK
<1>3. todo' \in Seq(SafeWrites(P))
  BY <1>1, SafeNewStorage DEF KeepsApart
<1>4. \A k \in Keys : store'[k] \in {store[k], MISSING}
  BY <1>1
<1>5. KeepsApart(P)'
  BY <1>2, <1>3, <1>4, EdekEntry, WipeCodeEntry DEF KeepsApart, Gone
<1> QED BY <1>5 DEF StoreApart

(* Entries reach the flash, or are lost with the power.                    *)
LEMMA ApartFlash ==
  ASSUME NEW P, IInv, KeepsApart(P),
         \/ FlashWrite \/ PartialReset
         \/ storage_upgrade \/ UpgradeCutShort
         \/ PowerCycle \/ PowerLoss \/ PowerLossMoving
  PROVE  StoreApart'
<1>1. CASE FlashWrite
  <2> DEFINE w == Head(todo)
  <2>1. /\ store' = [store EXCEPT ![w.key] = w.val]
        /\ todo' = Tail(todo) /\ pc' = pc /\ call' = call
    BY <1>1 DEF FlashWrite, ramVars
  <2>2. w \in SafeWrites(P) /\ todo' \in Seq(SafeWrites(P))
    BY <1>1, <2>1, HeadTailProperties DEF KeepsApart, FlashWrite
  <2> HIDE DEF w
  <2>3. /\ w.key = "EDEK_PVC" /\ w.val \notin Gone => w.val.pin \in P
        /\ w.key = "WIPE_CODE_DATA" /\ w.val \notin Gone => w.val \notin P
    BY <2>2 DEF SafeWrites
  <2>4. KeepsApart(P)'
    BY <2>1, <2>2, <2>3, EdekEntry, WipeCodeEntry
    DEF KeepsApart, IInv, StoreOK
  <2> QED BY <2>4 DEF StoreApart
<1>2. CASE PartialReset \/ storage_upgrade
  <2>1. /\ store' = [store EXCEPT !["STORAGE_UPGRADED"] = TRUE]
           \/ \E c : store' = [store EXCEPT !["PIN_LOGS"] = c]
        /\ todo' = todo /\ pc' = pc /\ call' = call
    BY <1>2 DEF PartialReset, storage_upgrade, ramVars, Flagged
  <2>2. /\ store'["EDEK_PVC"] = store["EDEK_PVC"]
        /\ store'["WIPE_CODE_DATA"] = store["WIPE_CODE_DATA"]
    BY <2>1, EdekEntry, WipeCodeEntry DEF IInv, StoreOK
  <2>3. KeepsApart(P)'
    BY <2>1, <2>2 DEF KeepsApart
  <2> QED BY <2>3 DEF StoreApart
<1>3. CASE UpgradeCutShort \/ PowerCycle \/ PowerLoss \/ PowerLossMoving
  <2>1. /\ todo' \in {<<>>, todo}
        /\ pc' = "boot"
        /\ store' \in CutCopies \/ store' = store \/ store' = Flagged
    BY <1>3
    DEF UpgradeCutShort, PowerCycle, PowerLoss, PowerLossMoving, Restart,
        flashVars
  <2>2. /\ store'["EDEK_PVC"] \in {store["EDEK_PVC"], MISSING, TORN}
        /\ store'["WIPE_CODE_DATA"]
             \in {store["WIPE_CODE_DATA"], MISSING, TORN}
    BY <2>1, CopyKeeps, EdekEntry, WipeCodeEntry DEF IInv
  <2>3. todo' \in Seq(SafeWrites(P))
    <3>1. <<>> \in Seq(SafeWrites(P)) /\ todo \in Seq(SafeWrites(P))
      BY DEF KeepsApart
    <3> QED BY <2>1, <3>1
  <2>4. KeepsApart(P)'
    BY <2>1, <2>2, <2>3 DEF KeepsApart, Gone
  <2> QED BY <2>4 DEF StoreApart
<1> QED BY <1>1, <1>2, <1>3

(* An interrupted wipe: the other sector is back, or there is nothing.     *)
LEMMA ApartWipeCut ==
  ASSUME LeftApart, WipeCutBeforeHeader \/ WipeCutAfterHeader
  PROVE  StoreApart'
<1>1. pc' = "boot" /\ todo' = <<>>
  BY DEF WipeCutBeforeHeader, WipeCutAfterHeader, Restart
<1>2. CASE WipeCutBeforeHeader
  <2>1. store' = left.store
    BY <1>2 DEF WipeCutBeforeHeader
  <2>2. PICK P : /\ PIN_EMPTY \in P /\ P \subseteq AnyPin
                 /\ left.store["EDEK_PVC"] \notin Gone
                      => left.store["EDEK_PVC"].pin \in P
                 /\ left.store["WIPE_CODE_DATA"] \notin Gone
                      => left.store["WIPE_CODE_DATA"] \notin P
    BY DEF LeftApart
  <2>3. <<>> \in Seq(SafeWrites(P))
    OBVIOUS
  <2>4. KeepsApart(P)'
    BY <1>1, <2>1, <2>2, <2>3 DEF KeepsApart
  <2> QED BY <2>4 DEF StoreApart
<1>3. CASE WipeCutAfterHeader
  <2>1. store'["EDEK_PVC"] = MISSING /\ store'["WIPE_CODE_DATA"] = MISSING
    BY <1>3, EdekEntry, WipeCodeEntry DEF WipeCutAfterHeader, FreshStore
  <2>2. <<>> \in Seq(SafeWrites({PIN_EMPTY}))
    OBVIOUS
  <2>3. KeepsApart({PIN_EMPTY})'
    BY <1>1, <2>1, <2>2 DEF KeepsApart, AnyPin, Gone
  <2> QED BY <2>3 DEF StoreApart
<1> QED BY <1>2, <1>3

(* What is left in the other sector are entries of the store.              *)
LEMMA LeftApartStep ==
  ASSUME IInv, StoreApart, LeftApart, [Next]_vars
  PROVE  LeftApart'
<1>1. \/ left' \in {left, NothingLeft}
      \/ \E f : (f \in CutCopies \/ f = store) /\ left' = Leftover(f)
  <2>1. CASE \/ UNCHANGED vars \/ PowerCycle
             \/ storage_init \/ storage_init_lock \/ storage_lock
             \/ (\E k \in AppKeys, v \in Vals : storage_set(k, v))
             \/ (\E k \in AppKeys : storage_delete(k))
             \/ (\E k \in Protected : storage_get(k))
    BY <2>1
    DEF vars, PowerCycle, storage_init, storage_init_lock, storage_lock, Lock,
        storage_set, storage_delete, storage_get, flashVars
  <2>2. ASSUME handle_fault PROVE left' = left
    BY <2>2
    DEF handle_fault, FaultCounted, FaultUsesUpLog, storage_wipe, flashVars
  <2>3. CASE \/ UnlockFault \/ VerifyFault \/ CheckFault \/ FaultAfterWipe
             \/ (\E k \in Protected : storage_get_fault(k))
    BY <2>2, <2>3
    DEF UnlockFault, VerifyFault, CheckFault, FaultAfterWipe, storage_get_fault
  <2>4. CASE \/ CheckUnchanged \/ CheckUpgraded \/ Open \/ Done
             \/ VerifyWrong \/ VerifyLast \/ VerifyRight
             \/ WipeDevice \/ CheckAttack
             \/ (\E c \in Calls : UnlockWipeCode(c))
             \/ (\E c \in Calls : UnlockTooMany(c))
             \/ (\E c \in Calls : UnlockTry(c))
    BY <2>4
    DEF CheckUnchanged, CheckUpgraded, Open, Done, VerifyWrong, VerifyLast,
        VerifyRight, WipeDevice, CheckAttack, UnlockWipeCode, UnlockTooMany,
        UnlockTry, storage_wipe, flashVars
  <2>5. CASE \/ storage_init_new \/ Erase \/ FlashWrite \/ PartialReset
             \/ storage_upgrade
    BY <2>5
    DEF storage_init_new, Erase, FlashWrite, PartialReset, storage_upgrade,
        flashVars
  <2>6. CASE \/ UpgradeCutShort \/ PowerLoss \/ PowerLossMoving
             \/ WipeCutBeforeHeader \/ WipeCutAfterHeader
    BY <2>6
    DEF UpgradeCutShort, PowerLoss, PowerLossMoving, WipeCutBeforeHeader,
        WipeCutAfterHeader, LossLeaves
  <2> QED BY <2>1, <2>3, <2>4, <2>5, <2>6 DEF Next, Unlocking
<1>2. CASE left' = left
  BY <1>2 DEF LeftApart
<1>3. CASE left' = NothingLeft
  <2>1. /\ left'.store["EDEK_PVC"] = MISSING
        /\ left'.store["WIPE_CODE_DATA"] = MISSING
    BY <1>3, EdekEntry, WipeCodeEntry DEF NothingLeft, FreshStore
  <2> QED BY <2>1 DEF LeftApart, AnyPin, Gone
<1>4. ASSUME NEW f, f \in CutCopies \/ f = store, left' = Leftover(f)
      PROVE  LeftApart'
  <2>1. left'.store = f
    BY <1>4 DEF Leftover
  <2>2. /\ f["EDEK_PVC"] \in {store["EDEK_PVC"], MISSING, TORN}
        /\ f["WIPE_CODE_DATA"] \in {store["WIPE_CODE_DATA"], MISSING, TORN}
    BY <1>4, CopyKeeps, EdekEntry, WipeCodeEntry DEF IInv
  <2> QED BY <2>1, <2>2 DEF StoreApart, KeepsApart, LeftApart, Gone
<1> QED BY <1>1, <1>2, <1>3, <1>4

LEMMA NextApart == IInv /\ ApartInv /\ [Next]_vars => ApartInv'
<1> SUFFICES ASSUME IInv, ApartInv, [Next]_vars PROVE StoreApart'
  BY LeftApartStep DEF ApartInv
<1> PICK P : KeepsApart(P)
  BY DEF ApartInv, StoreApart
<1>1. CASE \/ UnlockFault \/ VerifyFault \/ CheckFault \/ FaultAfterWipe
           \/ (\E k \in Protected : storage_get_fault(k))
  BY <1>1, ApartFault
  DEF UnlockFault, VerifyFault, CheckFault, FaultAfterWipe, storage_get_fault
<1>2. CASE \/ storage_init \/ storage_init_lock \/ storage_lock
           \/ CheckUnchanged \/ CheckUpgraded \/ Open
           \/ VerifyWrong \/ VerifyLast
           \/ WipeDevice \/ CheckAttack
           \/ (\E c \in Calls : UnlockWipeCode(c))
           \/ (\E c \in Calls : UnlockTooMany(c))
           \/ (\E c \in Calls : UnlockTry(c))
           \/ (\E k \in Protected : storage_get(k))
  BY <1>2, ApartQuiet
<1>3. CASE VerifyRight
  BY <1>3, ApartRight
<1>4. CASE Done
  BY <1>4, ApartDone
<1>5. CASE \/ (\E k \in AppKeys, v \in Vals : storage_set(k, v))
           \/ (\E k \in AppKeys : storage_delete(k))
  BY <1>5, ApartApp
<1>6. CASE storage_init_new \/ Erase
  BY <1>6, ApartNew
<1>7. CASE \/ FlashWrite \/ PartialReset
           \/ storage_upgrade \/ UpgradeCutShort
           \/ PowerCycle \/ PowerLoss \/ PowerLossMoving
  BY <1>7, ApartFlash
<1>8. CASE UNCHANGED vars
  BY <1>8, ApartKept DEF vars, KeepsApart
<1>9. CASE WipeCutBeforeHeader \/ WipeCutAfterHeader
  BY <1>9, ApartWipeCut DEF ApartInv
<1> QED BY <1>1, <1>2, <1>3, <1>4, <1>5, <1>6, <1>7, <1>8, <1>9
        DEF Next, Unlocking

(* The PIN that opens the storage never is the wipe code: not for any PINs *)
(* and wipe codes storage_change_pin and storage_change_wipe_code are      *)
(* given, wherever a power loss cuts their writes short.                   *)
THEOREM PinAndWipeCodeDiffer == Spec => []PinIsNotWipeCode
<1>1. Init => IInv /\ ApartInv
  BY InitIInv, InitApart
<1>2. (IInv /\ ApartInv) /\ [Next]_vars => (IInv /\ ApartInv)'
  BY NextIInv, NextApart
<1>3. ApartInv => PinIsNotWipeCode
  BY DEF ApartInv, StoreApart, KeepsApart, PinIsNotWipeCode, Whole, Gone
<1> QED BY <1>1, <1>2, <1>3, PTL DEF Spec

=============================================================================
