--------------------------- MODULE StorageProofs ---------------------------
(***************************************************************************)
(* Theorems about Storage for every value of the constants: type           *)
(* correctness, and that no more than PIN_MAX_TRIES wrong PINs are checked *)
(* against the EDEK of one data key, and as many again for each            *)
(* interrupted wipe that brought a flash sector back.                      *)
(***************************************************************************)
EXTENDS Storage, SequenceTheorems, TLAPS

AnyEntry == UNION {Entry(k) : k \in Keys}

(* Writes that respect the types, cover g wrong PINs, and write an EDEK    *)
(* for a data key in D only.                                               *)
GoodWrites(g, D) ==
  {w \in [key : Keys, val : AnyEntry] :
     /\ w.val \in Entry(w.key)
     /\ w.key = "PIN_LOGS" /\ w.val \in Nat => g <= w.val
     /\ w.key = "EDEK_PVC" /\ w.val \notin {MISSING, TORN} => w.val.dek \in D}

-----------------------------------------------------------------------------
(* What may be stored under the private keys.                              *)

LEMMA EntryOf ==
  ASSUME NEW k \in Keys
  PROVE  MISSING \in Entry(k) /\ TORN \in Entry(k)
BY StorageAssumption, MarkerAssumption DEF Entry, Contents, Keys, PrivateKeys, AppKeys

LEMMA PinLogsEntry ==
  /\ "PIN_LOGS" \in Keys
  /\ Entry("PIN_LOGS") = {MISSING, TORN} \cup 0..LOG_LIMIT
BY StorageAssumption, MarkerAssumption DEF Entry, Contents, Keys, PrivateKeys, AppKeys

LEMMA EdekEntry ==
  /\ "EDEK_PVC" \in Keys
  /\ Entry("EDEK_PVC") = {MISSING, TORN}
       \cup [pin : AnyPin, dek : DEKS, ver : Versions]
BY StorageAssumption, MarkerAssumption DEF Entry, Contents, Keys, PrivateKeys, AppKeys

LEMMA FlagEntry ==
  /\ "PIN_NOT_SET" \in Keys /\ "STORAGE_UPGRADED" \in Keys
  /\ Entry("PIN_NOT_SET") = {MISSING, TORN} \cup BOOLEAN
  /\ Entry("STORAGE_UPGRADED") = {MISSING, TORN} \cup BOOLEAN
BY StorageAssumption, MarkerAssumption DEF Entry, Contents, Keys, PrivateKeys, AppKeys

LEMMA VersionEntry ==
  /\ "VERSION" \in Keys /\ "UNAUTH_VERSION" \in Keys
  /\ Entry("VERSION") = {MISSING, TORN} \cup [ver : Versions, dek : DEKS]
  /\ Entry("UNAUTH_VERSION") = {MISSING, TORN} \cup Versions
BY StorageAssumption, MarkerAssumption DEF Entry, Contents, Keys, PrivateKeys, AppKeys

LEMMA TagEntry ==
  /\ "STORAGE_TAG" \in Keys
  /\ Entry("STORAGE_TAG") = {MISSING, TORN}
       \cup [dek : DEKS, sum : SUBSET Protected]
BY StorageAssumption, MarkerAssumption DEF Entry, Contents, Keys, PrivateKeys, AppKeys

LEMMA WipeCodeEntry ==
  /\ "WIPE_CODE_DATA" \in Keys
  /\ Entry("WIPE_CODE_DATA") = {MISSING, TORN} \cup AnyWipeCode
BY StorageAssumption, MarkerAssumption DEF Entry, Contents, Keys, PrivateKeys, AppKeys

LEMMA AppEntry ==
  /\ \A k \in Protected :
       /\ k \in Keys /\ k # "PIN_LOGS" /\ k # "EDEK_PVC"
       /\ Entry(k) = {MISSING, TORN} \cup [val : Vals, dek : DEKS]
  /\ \A k \in Public \cup Writable :
       /\ k \in Keys /\ k # "PIN_LOGS" /\ k # "EDEK_PVC"
       /\ Entry(k) = {MISSING, TORN} \cup Vals
BY StorageAssumption, MarkerAssumption DEF Entry, Contents, Keys, PrivateKeys, AppKeys

-----------------------------------------------------------------------------
(* The lists of writes the handlers produce are good ones.                 *)

LEMMA GoodWrite ==
  ASSUME NEW g \in Nat, NEW D, NEW k \in Keys, NEW v \in Entry(k),
         k = "PIN_LOGS" /\ v \in Nat => g <= v,
         k = "EDEK_PVC" /\ v \notin {MISSING, TORN} => v.dek \in D
  PROVE  W(k, v) \in GoodWrites(g, D)
BY DEF W, GoodWrites, AnyEntry

LEMMA GoodGone ==
  ASSUME NEW g \in Nat, NEW D, NEW k \in Keys
  PROVE  W(k, MISSING) \in GoodWrites(g, D) /\ W(k, TORN) \in GoodWrites(g, D)
BY EntryOf, GoodWrite, MarkerAssumption

LEMMA GoodSet ==
  ASSUME NEW g \in Nat, NEW D, NEW k \in Keys, NEW v \in Entry(k),
         k = "PIN_LOGS" /\ v \in Nat => g <= v,
         k = "EDEK_PVC" /\ v \notin {MISSING, TORN} => v.dek \in D
  PROVE  norcow_set(k, v) \in Seq(GoodWrites(g, D))
BY GoodWrite, GoodGone DEF norcow_set

LEMMA GoodConcat ==
  ASSUME NEW g \in Nat, NEW D,
         NEW s \in Seq(GoodWrites(g, D)), NEW t \in Seq(GoodWrites(g, D))
  PROVE  s \o t \in Seq(GoodWrites(g, D))
BY ConcatProperties

LEMMA GoodCounter ==
  ASSUME NEW g \in Nat, NEW D, NEW n \in 0..LOG_LIMIT, g <= n
  PROVE  norcow_set("PIN_LOGS", n) \in Seq(GoodWrites(g, D))
BY GoodSet, PinLogsEntry

(* The log that the entry used up.                                         *)
LEMMA GoodUsedUp ==
  ASSUME NEW g \in Nat, NEW D
  PROVE  pin_log_used_up \in Seq(GoodWrites(g, D))
BY GoodGone, PinLogsEntry DEF pin_log_used_up, EXHAUSTED

LEMMA GoodSetPin ==
  ASSUME NEW g \in Nat, NEW D, NEW pin \in AnyPin, NEW d \in DEKS,
         d \in D
  PROVE  set_pin(pin, d) \in Seq(GoodWrites(g, D))
<1>1. norcow_set("EDEK_PVC", [pin |-> pin, dek |-> d, ver |-> NORCOW_VERSION])
        \in Seq(GoodWrites(g, D))
  <2>1. [pin |-> pin, dek |-> d, ver |-> NORCOW_VERSION] \in Entry("EDEK_PVC")
    BY EdekEntry DEF Versions
  <2> QED BY <2>1, GoodSet, EdekEntry
<1>2. norcow_set("PIN_NOT_SET", pin = PIN_EMPTY) \in Seq(GoodWrites(g, D))
  <2>1. (pin = PIN_EMPTY) \in Entry("PIN_NOT_SET")
    BY FlagEntry
  <2> QED BY <2>1, GoodSet, FlagEntry
<1> QED BY <1>1, <1>2, GoodConcat DEF set_pin

LEMMA GoodVersion ==
  ASSUME NEW g \in Nat, NEW D, NEW v \in Versions, NEW d \in DEKS
  PROVE  /\ norcow_set("VERSION", [ver |-> v, dek |-> d])
              \in Seq(GoodWrites(g, D))
         /\ norcow_set("UNAUTH_VERSION", v) \in Seq(GoodWrites(g, D))
         /\ norcow_set("STORAGE_UPGRADED", FALSE) \in Seq(GoodWrites(g, D))
<1>1. [ver |-> v, dek |-> d] \in Entry("VERSION")
  BY VersionEntry
<1>2. v \in Entry("UNAUTH_VERSION")
  BY VersionEntry
<1>3. FALSE \in Entry("STORAGE_UPGRADED")
  BY FlagEntry
<1> QED BY <1>1, <1>2, <1>3, GoodSet, VersionEntry, FlagEntry

LEMMA GoodTag ==
  ASSUME NEW g \in Nat, NEW D, NEW K \in SUBSET Protected, NEW d \in DEKS
  PROVE  norcow_set("STORAGE_TAG", [dek |-> d, sum |-> K])
           \in Seq(GoodWrites(g, D))
<1>1. [dek |-> d, sum |-> K] \in Entry("STORAGE_TAG")
  BY TagEntry
<1> QED BY <1>1, GoodSet, TagEntry

LEMMA GoodWipeCode ==
  ASSUME NEW g \in Nat, NEW D, NEW c \in AnyWipeCode
  PROVE  norcow_set("WIPE_CODE_DATA", c) \in Seq(GoodWrites(g, D))
BY GoodSet, WipeCodeEntry

(* A storage that starts anew has a zero counter.                          *)
LEMMA GoodNewStorage ==
  ASSUME NEW D, NEW d \in DEKS, d \in D
  PROVE  init_wiped_storage(d) \in Seq(GoodWrites(0, D))
<1> DEFINE S == Seq(GoodWrites(0, D))
<1>1. norcow_set("STORAGE_TAG", [dek |-> d, sum |-> {}]) \in S
  BY GoodTag
<1>2. NORCOW_VERSION \in Versions
  BY DEF Versions
<1>3. /\ norcow_set("VERSION", [ver |-> NORCOW_VERSION, dek |-> d]) \in S
      /\ norcow_set("UNAUTH_VERSION", NORCOW_VERSION) \in S
      /\ norcow_set("STORAGE_UPGRADED", FALSE) \in S
  BY <1>2, GoodVersion
<1>4. norcow_set("PIN_LOGS", 0) \in S
  BY GoodCounter, StorageAssumption
<1>5. norcow_set("WIPE_CODE_DATA", WIPE_CODE_EMPTY) \in S
  BY GoodWipeCode DEF AnyWipeCode
<1>6. set_pin(PIN_EMPTY, d) \in S
  BY GoodSetPin DEF AnyPin
<1>7. \A s, t \in S : s \o t \in S
  BY GoodConcat
<1>8. init_wiped_storage(d) \in S
  <2> HIDE DEF S
  <2> QED BY <1>1, <1>3, <1>4, <1>5, <1>6, <1>7 DEF init_wiped_storage
<1> QED BY <1>8

-----------------------------------------------------------------------------
(* The inductive invariant. GuessBound alone is not inductive: a wrong PIN *)
(* may be checked because the counter has room, so the counter, in the     *)
(* flash, on its way there and in unlock(), must cover the PINs checked,   *)
(* and so must what is allowed for the data key of the EDEK, in the flash  *)
(* and on its way there, beyond what the counter still has room for.       *)

StoreOK == /\ store \in [Keys -> AnyEntry]
           /\ \A k \in Keys : store[k] \in Entry(k)

LeftOK == /\ left = [store |-> left.store, ver |-> left.ver]
          /\ left.store \in [Keys -> AnyEntry]
          /\ \A k \in Keys : left.store[k] \in Entry(k)
          /\ left.ver \in Versions

RamOK ==
  /\ nver \in Versions
  /\ unlocked \in BOOLEAN
  /\ keys \in DEKS \cup {NONE}
  /\ asum \subseteq Protected
  /\ ctr \in Nat
  /\ call \in Calls \cup {NONE}
  /\ pc \in {"boot", "lock", "idle", "verify", "check", "open", "done",
             "wipe", "halt", "fault", "refault"}
  /\ ret \in {"idle", "halt", "fault", "refault"}
  /\ losses \in 0..MAX_LOSSES

(* What unlock() works with is there while it runs.                        *)
CallOK ==
  /\ pc \in {"verify", "check", "open", "done"} => call \in Calls
  /\ pc \in {"check", "open", "done"} => keys \in DEKS
  /\ unlocked => keys \in DEKS

CountOK ==
  /\ guesses \in Nat
  /\ LogsReadable => guesses <= store["PIN_LOGS"]
  /\ pc = "verify" => guesses <= ctr /\ ctr < PIN_MAX_TRIES
  /\ pc \in {"check", "open", "done"} => guesses = 0
  /\ guesses <= PIN_MAX_TRIES

(* The tries allowed for a data key, and the keys for which no more were   *)
(* spent than leaves room for what the counter still allows.               *)
Allowed == PIN_MAX_TRIES * (1 + revived)
Covered == {d \in DEKS : spent[d] + PIN_MAX_TRIES <= guesses + Allowed}

SpentOK ==
  /\ revived \in Nat /\ spent \in [DEKS -> Nat]
  /\ \A d \in DEKS : spent[d] <= Allowed
  /\ Whole("EDEK_PVC") => store["EDEK_PVC"].dek \in Covered
  /\ pc \in {"check", "open", "done"} => keys \in Covered

TodoOK == todo \in Seq(GoodWrites(guesses, Covered))

IInv == StoreOK /\ LeftOK /\ RamOK /\ CallOK /\ CountOK /\ SpentOK /\ TodoOK

(* One more interrupted wipe allows PIN_MAX_TRIES more.                    *)
LEMMA AllowedMore ==
  ASSUME NEW r \in Nat
  PROVE  /\ PIN_MAX_TRIES * (1 + r) \in Nat
         /\ PIN_MAX_TRIES <= PIN_MAX_TRIES * (1 + r)
         /\ PIN_MAX_TRIES * (1 + (r + 1))
              = PIN_MAX_TRIES * (1 + r) + PIN_MAX_TRIES
         /\ PIN_MAX_TRIES * (1 + 0) = PIN_MAX_TRIES
<1>1. PIN_MAX_TRIES \in Nat
  BY StorageAssumption
<1>2. \A m \in Nat : /\ m * (1 + r) = m + m * r
                     /\ m * (1 + (r + 1)) = m + m * r + m
                     /\ m * (1 + 0) = m
                     /\ m * r \in Nat
  OBVIOUS
<1> QED BY <1>1, <1>2

(* A step that leaves the histories alone leaves these alone.              *)
LEMMA SameTries ==
  ASSUME UNCHANGED triesVars
  PROVE  /\ Covered' = Covered /\ Allowed' = Allowed
         /\ guesses' = guesses /\ spent' = spent /\ revived' = revived
BY DEF triesVars, Covered, Allowed

LEMMA IInvImplies == IInv => TypeOK /\ CounterCovers /\ GuessBound
<1> SUFFICES ASSUME IInv PROVE TypeOK /\ CounterCovers /\ GuessBound
  OBVIOUS
<1>1. \A i \in DOMAIN todo : todo[i] \in GoodWrites(guesses, Covered)
  BY DEF IInv, TodoOK
<1>2. \A i \in DOMAIN todo :
        /\ IsWrite(todo[i])
        /\ todo[i].key = "PIN_LOGS" /\ todo[i].val \in Nat
             => guesses <= todo[i].val
  BY <1>1 DEF GoodWrites, IsWrite
<1>3. TypeOK
  BY <1>2 DEF IInv, StoreOK, LeftOK, RamOK, CountOK, SpentOK, TypeOK
<1>4. CounterCovers
  BY <1>2 DEF IInv, CountOK, CounterCovers
<1>5. GuessBound
  BY DEF IInv, SpentOK, Allowed, GuessBound
<1> QED BY <1>3, <1>4, <1>5

(* The count read from the flash.                                          *)
LEMMA CountRead ==
  ASSUME StoreOK, LogsReadable
  PROVE  store["PIN_LOGS"] \in 0..LOG_LIMIT
BY PinLogsEntry DEF StoreOK, LogsReadable, Whole

(* The stored EDEK.                                                        *)
LEMMA EdekRead ==
  ASSUME StoreOK, Whole("EDEK_PVC")
  PROVE  store["EDEK_PVC"] \in [pin : AnyPin, dek : DEKS, ver : Versions]
BY EdekEntry DEF StoreOK, Whole

(* Nothing is left in an erased sector.                                    *)
LEMMA NothingLeftOK ==
  /\ FreshStore \in [Keys -> AnyEntry]
  /\ \A k \in Keys : FreshStore[k] \in Entry(k)
  /\ LET l == NothingLeft IN
     /\ l = [store |-> l.store, ver |-> l.ver]
     /\ l.store \in [Keys -> AnyEntry]
     /\ \A k \in Keys : l.store[k] \in Entry(k)
     /\ l.ver \in Versions
<1>1. \A k \in Keys : FreshStore[k] = MISSING
  BY DEF FreshStore
<1>2. FreshStore \in [Keys -> AnyEntry]
  BY EntryOf DEF FreshStore, AnyEntry
<1>3. \A k \in Keys : FreshStore[k] \in Entry(k)
  BY <1>1, EntryOf
<1> HIDE DEF FreshStore
<1> QED BY <1>2, <1>3 DEF NothingLeft, Versions

(* A step that leaves the other sector alone, or erases it, or leaves a    *)
(* part of the store in it.                                                *)
LEMMA LeftStep ==
  ASSUME StoreOK, LeftOK, nver \in Versions,
         \/ left' \in {left, NothingLeft}
         \/ \E f \in [Keys -> AnyEntry] :
              /\ \A k \in Keys : f[k] \in {store[k], MISSING, TORN}
              /\ left' = Leftover(f)
  PROVE  LeftOK'
<1>1. CASE left' \in {left, NothingLeft}
  BY <1>1, NothingLeftOK DEF LeftOK
<1>2. ASSUME NEW f \in [Keys -> AnyEntry],
             \A k \in Keys : f[k] \in {store[k], MISSING, TORN},
             left' = Leftover(f)
      PROVE  LeftOK'
  <2>1. \A k \in Keys : f[k] \in Entry(k)
    BY <1>2, EntryOf DEF StoreOK
  <2>2. left'.store = f /\ left'.ver = nver
    BY <1>2 DEF Leftover
  <2> QED BY <1>2, <2>1, <2>2 DEF LeftOK, Leftover
<1> QED BY <1>1, <1>2

(* A step that checks no PIN keeps what was said of the tries, if it does  *)
(* not bring another EDEK.                                                 *)
LEMMA SpentStep ==
  ASSUME SpentOK, UNCHANGED triesVars,
         store'["EDEK_PVC"] \in {store["EDEK_PVC"], MISSING, TORN},
         pc' \in {"check", "open", "done"} =>
           keys' = keys /\ pc \in {"check", "open", "done"}
  PROVE  SpentOK'
<1>1. /\ Covered' = Covered /\ Allowed' = Allowed
      /\ spent' = spent /\ revived' = revived
  BY SameTries
<1>2. Whole("EDEK_PVC")' => store'["EDEK_PVC"].dek \in Covered
  BY DEF SpentOK, Whole
<1>3. pc' \in {"check", "open", "done"} => keys' \in Covered
  BY DEF SpentOK
<1> HIDE DEF Covered, Allowed
<1> QED BY <1>1, <1>2, <1>3 DEF SpentOK, Whole

LEMMA InitIInv == Init => IInv
<1> SUFFICES ASSUME Init PROVE IInv
  OBVIOUS
<1>1. StoreOK /\ (LogsReadable => store["PIN_LOGS"] = 0)
  <2>1. CASE store = FreshStore
    <3>1. \A k \in Keys : store[k] = MISSING
      BY <2>1 DEF FreshStore
    <3> QED BY <2>1, <3>1, EntryOf, PinLogsEntry
            DEF FreshStore, StoreOK, AnyEntry, LogsReadable, Whole
  <2>2. CASE \E v \in OLD_VERSIONS, pin \in AnyPin, K \in SUBSET Protected :
               store = OldStore(v, pin, K)
    <3>1. PICK v \in OLD_VERSIONS, pin \in AnyPin, K \in SUBSET Protected :
            store = OldStore(v, pin, K)
      BY <2>2
    <3> DEFINE d == CHOOSE x \in DEKS : TRUE
    <3>2. d \in DEKS /\ (CHOOSE x \in Vals : TRUE) \in Vals
      BY StorageAssumption
    <3>3. K \cap PrivateKeys = {} /\ K \subseteq Protected
      BY <3>1, StorageAssumption DEF AppKeys
    <3>4. /\ store["PIN_LOGS"] = 0
          /\ store["EDEK_PVC"] = [pin |-> pin, dek |-> d, ver |-> v]
          /\ store["PIN_NOT_SET"] = (pin = PIN_EMPTY)
          /\ store["VERSION"] = [ver |-> v, dek |-> d]
      BY <3>1, <3>3 DEF OldStore, Keys, PrivateKeys
    <3>5. /\ store["STORAGE_TAG"] = [dek |-> d, sum |-> K]
          /\ store["WIPE_CODE_DATA"] = WIPE_CODE_EMPTY
          /\ store["STORAGE_UPGRADED"] = FALSE
          /\ store["UNAUTH_VERSION"] = v
      BY <3>1, <3>3 DEF OldStore, Keys, PrivateKeys
    <3>6. /\ \A k \in K : store[k] = [val |-> CHOOSE x \in Vals : TRUE, dek |-> d]
          /\ \A k \in AppKeys \ K : store[k] = MISSING
      BY <3>1, <3>3, StorageAssumption
      DEF OldStore, Keys, PrivateKeys, AppKeys
    <3> HIDE DEF d
    <3>7. \A k \in PrivateKeys : store[k] \in Entry(k)
      <4>1. v \in Versions
        BY DEF Versions
      <4>2. /\ store["PIN_LOGS"] \in Entry("PIN_LOGS")
            /\ store["EDEK_PVC"] \in Entry("EDEK_PVC")
            /\ store["VERSION"] \in Entry("VERSION")
        BY <3>2, <3>4, <4>1, PinLogsEntry, EdekEntry, VersionEntry,
           StorageAssumption
      <4>3. /\ store["PIN_NOT_SET"] \in Entry("PIN_NOT_SET")
            /\ store["STORAGE_UPGRADED"] \in Entry("STORAGE_UPGRADED")
        BY <3>4, <3>5, FlagEntry
      <4>4. /\ store["STORAGE_TAG"] \in Entry("STORAGE_TAG")
            /\ store["WIPE_CODE_DATA"] \in Entry("WIPE_CODE_DATA")
            /\ store["UNAUTH_VERSION"] \in Entry("UNAUTH_VERSION")
        BY <3>2, <3>5, <4>1, TagEntry, WipeCodeEntry, VersionEntry
        DEF AnyWipeCode
      <4> QED BY <4>2, <4>3, <4>4 DEF PrivateKeys
    <3>8. \A k \in AppKeys : store[k] \in Entry(k)
      BY <3>2, <3>3, <3>6, AppEntry, EntryOf DEF AppKeys, Keys
    <3>9. \A k \in Keys : store[k] \in Entry(k)
      BY <3>7, <3>8 DEF Keys
    <3>10. store = [k \in Keys |-> store[k]]
      BY <3>1 DEF OldStore
    <3> QED BY <3>4, <3>9, <3>10 DEF StoreOK, AnyEntry
  <2> QED BY <2>1, <2>2 DEF Init
<1>2. RamOK /\ CallOK
  <2>1. nver \in Versions
    BY DEF Init, Versions
  <2>2. losses \in 0..MAX_LOSSES /\ ctr \in Nat
    BY StorageAssumption DEF Init
  <2>3. RamOK
    BY <2>1, <2>2, Zenon DEF Init, RamOK
  <2>4. CallOK
    BY Zenon DEF Init, CallOK
  <2> QED BY <2>3, <2>4
<1>3. CountOK
  BY <1>1, StorageAssumption DEF Init, CountOK
<1>4. TodoOK
  BY DEF Init, TodoOK
<1>5. LeftOK
  BY NothingLeftOK DEF Init, LeftOK
<1>6. SpentOK
  <2>1. /\ revived = 0 /\ guesses = 0 /\ pc = "boot"
        /\ spent = [d \in DEKS |-> 0]
    BY DEF Init
  <2>2. Allowed = PIN_MAX_TRIES /\ PIN_MAX_TRIES \in Nat
    BY <2>1, AllowedMore, StorageAssumption DEF Allowed
  <2>3. Covered = DEKS
    BY <2>1, <2>2 DEF Covered
  <2>4. Whole("EDEK_PVC") => store["EDEK_PVC"].dek \in DEKS
    BY <1>1, EdekRead
  <2> QED BY <2>1, <2>2, <2>3, <2>4 DEF SpentOK
<1> QED BY <1>1, <1>2, <1>3, <1>4, <1>5, <1>6 DEF IInv

-----------------------------------------------------------------------------
(* One lemma per group of actions: each preserves the invariant.           *)

LEMMA WipeStep ==
  ASSUME IInv, NEW r \in {"idle", "halt", "fault", "refault"}, storage_wipe(r)
  PROVE  IInv'
<1> USE DEF IInv, storage_wipe, flashVars
<1>1. StoreOK' /\ TodoOK' /\ LeftOK'
  BY SameTries DEF StoreOK, TodoOK, LeftOK
<1>2. RamOK'
  BY DEF RamOK
<1>3. CallOK'
  BY DEF CallOK
<1>4. CountOK'
  BY SameTries DEF CountOK, LogsReadable, Whole
<1>5. SpentOK'
  BY SpentStep
<1> QED BY <1>1, <1>2, <1>3, <1>4, <1>5

LEMMA FaultStep ==
  ASSUME IInv, handle_fault
  PROVE  IInv'
<1>1. CASE ~CanCount
  BY <1>1, WipeStep DEF handle_fault, FaultCounted, FaultUsesUpLog
<1>2. CASE CanCount
  <2> USE DEF IInv
  <2>1. /\ \/ pc' = "fault" /\ ret' = ret
           \/ pc' = "wipe" /\ ret' = "fault"
        /\ todo' \in {pin_fails_increase, pin_log_used_up}
        /\ UNCHANGED <<store, nver, left, unlocked, keys, asum, ctr, call,
                       triesVars, losses>>
    BY <1>2 DEF handle_fault, FaultCounted, FaultUsesUpLog, flashVars, ramVars
  <2>2. store["PIN_LOGS"] \in 0..LOG_LIMIT /\ store["PIN_LOGS"] < LOG_LIMIT
    BY <1>2, CountRead DEF CanCount
  <2>3. TodoOK'
    <3>1. guesses \in Nat /\ guesses <= store["PIN_LOGS"] + 1
      BY <1>2, <2>2 DEF CountOK, CanCount
    <3>2. store["PIN_LOGS"] + 1 \in 0..LOG_LIMIT
      BY <2>2, StorageAssumption
    <3>3. pin_fails_increase \in Seq(GoodWrites(guesses, Covered))
      BY <3>1, <3>2, GoodCounter DEF pin_fails_increase
    <3>4. pin_log_used_up \in Seq(GoodWrites(guesses, Covered))
      BY <3>1, GoodUsedUp
    <3> QED BY <2>1, <3>3, <3>4, SameTries DEF TodoOK
  <2>4. StoreOK' /\ LeftOK'
    BY <2>1 DEF StoreOK, LeftOK
  <2>5. RamOK'
    BY <2>1 DEF RamOK
  <2>6. CallOK'
    BY <2>1 DEF CallOK
  <2>7. CountOK'
    BY <2>1, SameTries DEF CountOK, LogsReadable, Whole
  <2>8. SpentOK'
    BY <2>1, SpentStep
  <2> QED BY <2>3, <2>4, <2>5, <2>6, <2>7, <2>8
<1> QED BY <1>1, <1>2

(* Actions that only move pc, or RAM, and write nothing.                   *)
LEMMA QuietStep ==
  ASSUME IInv,
         \/ storage_init \/ storage_init_lock \/ storage_lock
         \/ CheckUnchanged
         \/ (\E k \in Protected : storage_get(k))
  PROVE  IInv'
<1> USE DEF IInv, storage_init, storage_init_lock, storage_lock, Lock,
        CheckUnchanged, Check, storage_get, Idle, flashVars, ramVars
<1>1. StoreOK' /\ TodoOK' /\ LeftOK'
  BY SameTries DEF StoreOK, TodoOK, LeftOK
<1>2. RamOK'
  BY DEF RamOK, Present
<1>3. CallOK'
  BY DEF CallOK
<1>4. CountOK'
  BY SameTries DEF CountOK, LogsReadable, Whole
<1>5. SpentOK'
  BY SpentStep
<1> QED BY <1>1, <1>2, <1>3, <1>4, <1>5

(* New keys, a zero counter and no wrong PIN yet.                          *)
LEMMA NewStorageStep ==
  ASSUME IInv, storage_init_new \/ Erase
  PROVE  IInv'
<1> USE DEF IInv
<1>1. PICK d \in DEKS :
        /\ keys' = d /\ todo' = init_wiped_storage(d)
        /\ unlocked' = TRUE /\ asum' = {} /\ guesses' = 0
        /\ pc' = "lock" \/ pc' = ret
        /\ store' = store \/ store' = FreshStore
        /\ left' \in {left, NothingLeft}
        /\ store'["EDEK_PVC"] = MISSING
        /\ spent' \in [DEKS -> Nat] /\ spent'[d] = 0
        /\ \A e \in DEKS : spent'[e] <= spent[e]
        /\ UNCHANGED <<nver, ctr, call, ret, revived, losses>>
  <2>1. spent \in [DEKS -> Nat]
    BY DEF SpentOK
  <2>2. CASE storage_init_new
    BY <2>1, <2>2 DEF storage_init_new, flashVars
  <2>3. CASE Erase
    <3>1. FreshStore["EDEK_PVC"] = MISSING
      BY EdekEntry DEF FreshStore
    <3>2. PICK d \in DEKS : keys' = d /\ todo' = init_wiped_storage(d)
      BY <2>3 DEF Erase
    <3>3. /\ spent' = [e \in DEKS |-> 0]
          /\ store' = FreshStore /\ left' = NothingLeft
          /\ unlocked' = TRUE /\ asum' = {} /\ guesses' = 0 /\ pc' = ret
          /\ UNCHANGED <<nver, ctr, call, ret, revived, losses>>
      BY <2>3 DEF Erase
    <3>4. spent' \in [DEKS -> Nat] /\ \A e \in DEKS : spent'[e] = 0
      BY <3>3
    <3>5. \A e \in DEKS : spent'[e] <= spent[e]
      BY <2>1, <3>4
    <3> QED BY <3>1, <3>2, <3>3, <3>4, <3>5
  <2> QED BY <2>2, <2>3
<1>2. StoreOK'
  <2>1. CASE store' = store
    BY <2>1 DEF StoreOK
  <2>2. CASE store' = FreshStore
    BY <2>2, NothingLeftOK DEF StoreOK
  <2> QED BY <1>1, <2>1, <2>2
<1>3. RamOK' /\ CallOK'
  BY <1>1 DEF RamOK, CallOK
<1>4. LeftOK'
  BY <1>1, LeftStep DEF RamOK
<1>5. Allowed' = Allowed /\ Allowed \in Nat /\ PIN_MAX_TRIES <= Allowed
  BY <1>1, AllowedMore DEF Allowed, SpentOK
<1>6. d \in Covered'
  BY <1>1, <1>5, StorageAssumption DEF Covered
<1>7. TodoOK'
  BY <1>1, <1>6, GoodNewStorage DEF TodoOK
<1>8. CountOK'
  <2>1. LogsReadable' => store'["PIN_LOGS"] \in 0..LOG_LIMIT
    BY <1>2, PinLogsEntry DEF StoreOK, LogsReadable, Whole
  <2> QED BY <1>1, <2>1, StorageAssumption DEF CountOK, RamOK
<1>9. SpentOK'
  <2>1. \A e \in DEKS : spent'[e] <= Allowed'
    BY <1>1, <1>5 DEF SpentOK
  <2>2. ~Whole("EDEK_PVC")'
    BY <1>1 DEF Whole
  <2>3. pc' \notin {"check", "open", "done"} /\ revived' \in Nat
    BY <1>1 DEF RamOK, SpentOK
  <2> QED BY <1>1, <2>1, <2>2, <2>3 DEF SpentOK
<1> QED BY <1>2, <1>3, <1>4, <1>7, <1>8, <1>9

(* A copy that was cut short holds what the store does, or less.           *)
LEMMA CopyKeeps ==
  ASSUME StoreOK, NEW f, f \in CutCopies \/ f = store \/ f = Flagged
  PROVE  /\ f \in [Keys -> AnyEntry]
         /\ \A k \in Keys : f[k] \in Entry(k)
         /\ \A k \in Keys : k # "STORAGE_UPGRADED"
              => f[k] \in {store[k], MISSING, TORN}
         /\ f # Flagged => \A k \in Keys : f[k] \in {store[k], MISSING, TORN}
<1>1. CASE f \in CutCopies
  <2>1. PICK lost \in LostSets \cup {{}} : f \in PartCopies(lost)
    BY <1>1 DEF CutCopies
  <2>2. PICK gone \in [lost -> {MISSING, TORN}] :
          f = [k \in Keys |-> IF k \in lost /\ store[k] # MISSING
                              THEN gone[k] ELSE store[k]]
    BY <2>1 DEF PartCopies
  <2>3. \A k \in Keys : f[k] \in {store[k], MISSING, TORN}
    BY <2>2
  <2>4. \A k \in Keys : f[k] \in Entry(k)
    BY <2>3, EntryOf DEF StoreOK
  <2> QED BY <2>2, <2>3, <2>4 DEF AnyEntry
<1>2. CASE f = store
  BY <1>2 DEF StoreOK
<1>3. CASE f = Flagged
  <2>1. TRUE \in Entry("STORAGE_UPGRADED") /\ "STORAGE_UPGRADED" \in Keys
    BY FlagEntry
  <2>2. \A k \in Keys : f[k] \in Entry(k)
    BY <1>3, <2>1 DEF StoreOK, Flagged
  <2> QED BY <1>3, <2>1, <2>2 DEF StoreOK, AnyEntry, Flagged
<1> QED BY <1>1, <1>2, <1>3

(* What a loss of power leaves in the other sector.                        *)
LEMMA LossStep ==
  ASSUME NEW l, LossLeaves(l), RamOK
  PROVE  losses' \in 0..MAX_LOSSES /\ left' \in {l, NothingLeft}
BY StorageAssumption DEF LossLeaves, RamOK

(* The copying of an upgrade, complete or cut short, leaves the counter    *)
(* alone or makes it unreadable; so does a cut-short compaction.           *)
LEMMA UpgradeStep ==
  ASSUME IInv, storage_upgrade \/ UpgradeCutShort
  PROVE  IInv'
<1> USE DEF IInv
<1>1. /\ store' \in CutCopies \/ store' = Flagged
      /\ nver' = NORCOW_VERSION
      /\ losses' \in 0..MAX_LOSSES
      /\ left' \in {Leftover(store), NothingLeft}
      /\ UNCHANGED <<ramVars, pc, todo, triesVars>>
  <2>1. CASE storage_upgrade
    BY <2>1 DEF storage_upgrade, RamOK
  <2>2. CASE UpgradeCutShort
    BY <2>2, LossStep DEF UpgradeCutShort
  <2> QED BY <2>1, <2>2
<1>2. /\ StoreOK'
      /\ \A k \in Keys : k # "STORAGE_UPGRADED"
           => store'[k] \in {store[k], MISSING, TORN}
  BY <1>1, CopyKeeps DEF StoreOK
<1>3. RamOK' /\ CallOK'
  BY <1>1 DEF RamOK, CallOK, ramVars, Versions
<1>4. LeftOK'
  <2>1. store \in [Keys -> AnyEntry] /\ nver \in Versions
    BY DEF StoreOK, RamOK
  <2> QED BY <1>1, <2>1, LeftStep
<1>5. TodoOK'
  BY <1>1, SameTries DEF TodoOK
<1>6. CountOK'
  BY <1>1, <1>2, PinLogsEntry, SameTries
  DEF CountOK, ramVars, LogsReadable, Whole
<1>7. SpentOK'
  BY <1>1, <1>2, EdekEntry, SpentStep DEF ramVars
<1> QED BY <1>2, <1>3, <1>4, <1>5, <1>6, <1>7

(* unlock() counts the attempt first.                                      *)
LEMMA TryStep ==
  ASSUME IInv, NEW c \in Calls, UnlockTry(c)
  PROVE  IInv'
<1> USE DEF IInv, UnlockTry, Idle, flashVars
<1>1. /\ store["PIN_LOGS"] \in 0..LOG_LIMIT
      /\ store["PIN_LOGS"] < PIN_MAX_TRIES
      /\ guesses \in Nat /\ guesses <= store["PIN_LOGS"]
  BY CountRead, StorageAssumption DEF TooMany, CountOK
<1>2. store["PIN_LOGS"] + 1 \in 0..LOG_LIMIT
  BY <1>1, StorageAssumption
<1>3. TodoOK'
  <2>1. pin_fails_increase \in Seq(GoodWrites(guesses, Covered))
    BY <1>1, <1>2, GoodCounter DEF pin_fails_increase
  <2>2. pin_log_used_up \in Seq(GoodWrites(guesses, Covered))
    BY <1>1, GoodUsedUp
  <2> QED BY <2>1, <2>2, SameTries DEF TodoOK, Increases
<1>4. StoreOK' /\ LeftOK'
  BY DEF StoreOK, LeftOK
<1>5. RamOK'
  BY <1>1 DEF RamOK
<1>6. CallOK'
  BY DEF CallOK
<1>7. CountOK'
  BY <1>1, SameTries DEF CountOK, LogsReadable, Whole
<1>8. SpentOK'
  BY SpentStep
<1> QED BY <1>3, <1>4, <1>5, <1>6, <1>7, <1>8

(* A wrong PIN is one more guess, which the counter already covers.        *)
LEMMA WrongPinStep ==
  ASSUME IInv, VerifyWrong \/ VerifyLast
  PROVE  IInv'
<1> USE DEF IInv
<1>1. /\ pc = "verify" /\ todo = <<>> /\ store["PIN_LOGS"] = ctr + 1
      /\ WrongPin
      /\ UNCHANGED <<store, nver, left, unlocked, keys, asum, todo, losses>>
  BY DEF VerifyWrong, VerifyLast, Verify, Counted, flashVars
<1>2. ctr \in Nat /\ guesses \in Nat /\ guesses <= ctr /\ ctr < PIN_MAX_TRIES
  BY <1>1 DEF RamOK, CountOK
<1>3. /\ pc' \in {"idle", "wipe"}
      /\ ctr' \in Nat /\ call' \in Calls \cup {NONE}
      /\ ret' \in {"idle", "halt", "fault", "refault"}
  BY DEF VerifyWrong, VerifyLast, RamOK
<1>4. guesses' = guesses + 1 /\ revived' = revived
  BY <1>1 DEF WrongPin
<1>5. StoreOK' /\ TodoOK' /\ LeftOK'
  BY <1>1 DEF StoreOK, TodoOK, LeftOK
<1>6. RamOK'
  BY <1>1, <1>2, <1>3 DEF RamOK
<1>7. CallOK'
  BY <1>1, <1>3 DEF CallOK
<1>8. CountOK'
  BY <1>1, <1>2, <1>3, <1>4, StorageAssumption DEF CountOK, LogsReadable, Whole
<1>9. SpentOK'
  <2>1. Allowed' = Allowed /\ Allowed \in Nat /\ PIN_MAX_TRIES \in Nat
    BY <1>4, AllowedMore, StorageAssumption DEF Allowed, SpentOK
  <2>2. pc' \notin {"check", "open", "done"} /\ revived' \in Nat
    BY <1>3, <1>4 DEF SpentOK
  <2>3. CASE ~Whole("EDEK_PVC")
    <3>1. spent' = spent /\ ~Whole("EDEK_PVC")'
      BY <1>1, <2>3 DEF WrongPin, Whole
    <3> QED BY <2>1, <2>2, <3>1 DEF SpentOK
  <2>4. CASE Whole("EDEK_PVC")
    <3> DEFINE d == store["EDEK_PVC"].dek
    <3>1. /\ d \in DEKS /\ spent \in [DEKS -> Nat]
          /\ spent[d] + PIN_MAX_TRIES <= guesses + Allowed
      BY <2>4 DEF SpentOK, Covered
    <3>2. spent' = [spent EXCEPT ![d] = spent[d] + 1]
      BY <1>1, <2>4 DEF WrongPin
    <3>3. store'["EDEK_PVC"].dek = d
      BY <1>1
    <3> HIDE DEF d
    <3>4. /\ spent' \in [DEKS -> Nat] /\ spent'[d] = spent[d] + 1
          /\ \A e \in DEKS : e # d => spent'[e] = spent[e]
      BY <3>1, <3>2
    <3>5. \A e \in DEKS : spent'[e] <= Allowed'
      BY <1>2, <2>1, <3>1, <3>4 DEF SpentOK
    <3>6. d \in Covered'
      BY <1>2, <1>4, <2>1, <3>1, <3>4 DEF Covered
    <3> QED BY <2>2, <3>3, <3>4, <3>5, <3>6 DEF SpentOK
  <2> QED BY <2>3, <2>4
<1> QED BY <1>5, <1>6, <1>7, <1>8, <1>9

(* The right PIN starts the count anew; an old EDEK is written again.      *)
LEMMA RightPinStep ==
  ASSUME IInv, VerifyRight
  PROVE  IInv'
<1> USE DEF IInv
<1> DEFINE d == store["EDEK_PVC"].dek
<1>1. /\ pc = "verify" /\ pc' = "check"
      /\ keys' = d /\ asum' = Present /\ guesses' = 0
      /\ spent' = [spent EXCEPT ![d] = 0]
      /\ todo' = IF store["VERSION"].ver <= 4 THEN set_pin(call.pin, d)
                 ELSE <<>>
      /\ PinOpens(call.pin)
      /\ UNCHANGED <<store, nver, left, unlocked, ctr, call, ret, revived,
                     losses>>
  BY DEF VerifyRight, Verify, flashVars
<1>2. d \in DEKS /\ call.pin \in AnyPin
  BY <1>1, EdekRead DEF PinOpens
<1>3. store'["EDEK_PVC"].dek = d
  BY <1>1
<1> HIDE DEF d
<1>4. StoreOK' /\ LeftOK'
  BY <1>1 DEF StoreOK, LeftOK
<1>5. /\ Allowed' = Allowed /\ Allowed \in Nat /\ PIN_MAX_TRIES <= Allowed
      /\ PIN_MAX_TRIES \in Nat
  BY <1>1, AllowedMore, StorageAssumption DEF Allowed, SpentOK
<1>6. /\ spent' \in [DEKS -> Nat] /\ spent'[d] = 0
      /\ \A e \in DEKS : e # d => spent'[e] = spent[e]
  BY <1>1, <1>2 DEF SpentOK
<1>7. d \in Covered'
  BY <1>1, <1>2, <1>5, <1>6 DEF Covered
<1>8. TodoOK'
  BY <1>1, <1>2, <1>7, GoodSetPin DEF TodoOK
<1>9. RamOK'
  BY <1>1, <1>2 DEF RamOK, Present
<1>10. CallOK'
  BY <1>1, <1>2 DEF CallOK
<1>11. CountOK'
  <2>1. LogsReadable => store["PIN_LOGS"] \in 0..LOG_LIMIT
    BY CountRead
  <2> QED BY <1>1, <2>1, StorageAssumption DEF CountOK, LogsReadable, Whole
<1>12. SpentOK'
  <2>1. \A e \in DEKS : spent'[e] <= Allowed'
    BY <1>5, <1>6 DEF SpentOK
  <2> QED BY <1>1, <1>3, <1>6, <1>7, <2>1 DEF SpentOK
<1> QED BY <1>4, <1>8, <1>9, <1>10, <1>11, <1>12

LEMMA UpgradedStep ==
  ASSUME IInv, CheckUpgraded
  PROVE  IInv'
<1> USE DEF IInv, CheckUpgraded, Check, flashVars, ramVars
<1>1. nver \in Versions /\ keys \in DEKS /\ guesses \in Nat
  BY DEF RamOK, CallOK, CountOK
<1>2. TodoOK'
  BY <1>1, GoodVersion, GoodConcat, SameTries DEF TodoOK, WriteVersion
<1>3. StoreOK' /\ LeftOK'
  BY DEF StoreOK, LeftOK
<1>4. RamOK'
  BY DEF RamOK
<1>5. CallOK'
  BY DEF CallOK
<1>6. CountOK'
  BY SameTries DEF CountOK, LogsReadable, Whole
<1>7. SpentOK'
  BY SpentStep
<1> QED BY <1>2, <1>3, <1>4, <1>5, <1>6, <1>7

(* The counter is reset only when no wrong PIN is left to cover.           *)
LEMMA OpenStep ==
  ASSUME IInv, Open
  PROVE  IInv'
<1> USE DEF IInv, Open, flashVars
<1>1. guesses = 0
  BY DEF CountOK
<1>2. TodoOK'
  BY <1>1, GoodCounter, StorageAssumption, SameTries DEF TodoOK, pin_fails_reset
<1>3. StoreOK' /\ LeftOK'
  BY DEF StoreOK, LeftOK
<1>4. RamOK'
  BY DEF RamOK
<1>5. CallOK'
  BY DEF CallOK
<1>6. CountOK'
  BY SameTries DEF CountOK, LogsReadable, Whole
<1>7. SpentOK'
  BY SpentStep
<1> QED BY <1>2, <1>3, <1>4, <1>5, <1>6, <1>7

LEMMA DoneStep ==
  ASSUME IInv, Done
  PROVE  IInv'
<1> USE DEF IInv
<1>1. /\ pc = "done" /\ pc' = "idle" /\ todo = <<>>
      /\ ctr' = 0 /\ call' = NONE
      /\ UNCHANGED <<store, nver, left, unlocked, keys, asum, ret, triesVars,
                     losses>>
  BY DEF Done, flashVars
<1>2. call \in Calls /\ keys \in DEKS /\ guesses \in Nat /\ keys \in Covered
  BY <1>1 DEF CallOK, CountOK, SpentOK
<1>3. TodoOK'
  <2>1. CASE call.op = "unlock"
    <3>1. todo' = <<>>
      BY <2>1 DEF Done
    <3> QED BY <3>1 DEF TodoOK
  <2>2. CASE call.op = "change_pin"
    <3>1. call.new \in AnyPin
      BY <1>2, <2>2 DEF Calls
    <3>2. todo' = <<>> \/ todo' = set_pin(call.new, keys)
      BY <2>2 DEF Done
    <3> QED BY <1>1, <1>2, <3>1, <3>2, GoodSetPin, SameTries DEF TodoOK
  <2>3. CASE call.op = "change_wipe_code"
    <3>1. WipeCode(call.new) \in AnyWipeCode
      BY <1>2, <2>3 DEF Calls, WipeCode, AnyPin, AnyWipeCode
    <3>2. todo' = norcow_set("WIPE_CODE_DATA", WipeCode(call.new))
      BY <2>3 DEF Done
    <3> QED BY <1>1, <1>2, <3>1, <3>2, GoodWipeCode, SameTries DEF TodoOK
  <2> QED BY <1>2, <2>1, <2>2, <2>3 DEF Calls
<1>4. StoreOK' /\ LeftOK'
  BY <1>1 DEF StoreOK, LeftOK
<1>5. RamOK'
  BY <1>1 DEF RamOK
<1>6. CallOK'
  BY <1>1 DEF CallOK
<1>7. CountOK'
  BY <1>1, SameTries DEF CountOK, LogsReadable, Whole
<1>8. SpentOK'
  BY <1>1, SpentStep
<1> QED BY <1>3, <1>4, <1>5, <1>6, <1>7, <1>8

(* Application entries never touch the counter.                            *)
LEMMA SetStep ==
  ASSUME IInv, NEW k \in AppKeys, NEW v \in Vals, storage_set(k, v)
  PROVE  IInv'
<1> USE DEF IInv
<1>1. /\ UNCHANGED <<store, nver, left, unlocked, keys, ctr, call, ret, pc,
                     triesVars, losses>>
      /\ unlocked \/ k \in Writable
  BY DEF storage_set, flashVars
<1>2. k \in Keys /\ k # "PIN_LOGS" /\ k # "EDEK_PVC" /\ guesses \in Nat
  BY AppEntry DEF AppKeys, CountOK
<1>3. TodoOK' /\ asum' \subseteq Protected
  <2>1. CASE k \in Protected
    <3>1. /\ todo' = storage_set_encrypted(k, v)
          /\ asum' = IF store[k] = MISSING THEN SymDiff(asum, {k}) ELSE asum
      BY <2>1 DEF storage_set
    <3>2. keys \in DEKS /\ asum \subseteq Protected
      BY <1>1, <2>1, StorageAssumption DEF CallOK, RamOK
    <3>3. SymDiff(asum, {k}) \subseteq Protected
      BY <2>1, <3>2 DEF SymDiff
    <3>4. [val |-> v, dek |-> keys] \in Entry(k)
      BY <2>1, <3>2, AppEntry
    <3>5. /\ <<W(k, MISSING), W(k, TORN)>> \in Seq(GoodWrites(guesses, Covered))
          /\ <<W(k, [val |-> v, dek |-> keys])>>
               \in Seq(GoodWrites(guesses, Covered))
      <4>1. /\ W(k, MISSING) \in GoodWrites(guesses, Covered)
            /\ W(k, TORN) \in GoodWrites(guesses, Covered)
        BY <1>2, GoodGone
      <4>2. W(k, [val |-> v, dek |-> keys]) \in GoodWrites(guesses, Covered)
        <5> DEFINE e == [val |-> v, dek |-> keys]
        <5>1. e \in Entry(k)
          BY <3>4
        <5> HIDE DEF e
        <5>2. W(k, e) \in GoodWrites(guesses, Covered)
          BY <1>2, <5>1, GoodWrite
        <5> QED BY <5>2 DEF e
      <4> QED BY <4>1, <4>2
    <3>6. /\ auth_update(k) \in Seq(GoodWrites(guesses, Covered))
          /\ <<>> \in Seq(GoodWrites(guesses, Covered))
      <4>1. /\ guesses \in Nat /\ keys \in DEKS
            /\ SymDiff(asum, {k}) \in SUBSET Protected
        BY <1>2, <3>2, <3>3
      <4>2. auth_update(k) \in Seq(GoodWrites(guesses, Covered))
        BY <4>1, GoodTag DEF auth_update
      <4> QED BY <4>2
    <3>7. storage_set_encrypted(k, v) \in Seq(GoodWrites(guesses, Covered))
      BY <1>2, <3>5, <3>6, GoodConcat DEF storage_set_encrypted
    <3> QED BY <1>1, <3>1, <3>2, <3>3, <3>7, SameTries DEF TodoOK
  <2>2. CASE k \notin Protected
    <3>1. todo' = norcow_set(k, v) /\ asum' = asum
      BY <2>2 DEF storage_set
    <3>2. v \in Entry(k)
      BY <2>2, AppEntry DEF AppKeys
    <3> QED BY <1>1, <1>2, <3>1, <3>2, GoodSet, SameTries DEF TodoOK, RamOK
  <2> QED BY <2>1, <2>2
<1>4. StoreOK' /\ LeftOK'
  BY <1>1 DEF StoreOK, LeftOK
<1>5. RamOK'
  BY <1>1, <1>3 DEF RamOK
<1>6. CallOK'
  BY <1>1 DEF CallOK
<1>7. CountOK'
  BY <1>1, SameTries DEF CountOK, LogsReadable, Whole
<1>8. SpentOK'
  BY <1>1, SpentStep
<1> QED BY <1>3, <1>4, <1>5, <1>6, <1>7, <1>8

LEMMA DeleteStep ==
  ASSUME IInv, NEW k \in AppKeys, storage_delete(k)
  PROVE  IInv'
<1> USE DEF IInv
<1>1. /\ UNCHANGED <<store, nver, left, unlocked, keys, ctr, call, ret, pc,
                     triesVars, losses>>
      /\ unlocked \/ k \in Writable
  BY DEF storage_delete, flashVars
<1>2. k \in Keys /\ k # "PIN_LOGS" /\ k # "EDEK_PVC" /\ guesses \in Nat
  BY AppEntry DEF AppKeys, CountOK
<1>3. <<W(k, MISSING)>> \in Seq(GoodWrites(guesses, Covered))
  BY <1>2, GoodGone
<1>4. TodoOK' /\ asum' \subseteq Protected
  <2>1. CASE k \in Protected
    <3>1. /\ todo' = <<W(k, MISSING)>> \o auth_update(k)
          /\ asum' = SymDiff(asum, {k})
      BY <2>1 DEF storage_delete
    <3>2. keys \in DEKS /\ asum \subseteq Protected
      BY <1>1, <2>1, StorageAssumption DEF CallOK, RamOK
    <3>3. SymDiff(asum, {k}) \subseteq Protected
      BY <2>1, <3>2 DEF SymDiff
    <3>4. auth_update(k) \in Seq(GoodWrites(guesses, Covered))
      BY <1>2, <3>2, <3>3, GoodTag DEF auth_update
    <3> QED BY <1>1, <1>2, <1>3, <3>1, <3>3, <3>4, GoodConcat,
           SameTries DEF TodoOK
  <2>2. CASE k \notin Protected
    BY <1>1, <1>3, <2>2, SameTries DEF storage_delete, TodoOK, RamOK
  <2> QED BY <2>1, <2>2
<1>5. StoreOK' /\ LeftOK'
  BY <1>1 DEF StoreOK, LeftOK
<1>6. RamOK'
  BY <1>1, <1>4 DEF RamOK
<1>7. CallOK'
  BY <1>1 DEF CallOK
<1>8. CountOK'
  BY <1>1, SameTries DEF CountOK, LogsReadable, Whole
<1>9. SpentOK'
  BY <1>1, SpentStep
<1> QED BY <1>4, <1>5, <1>6, <1>7, <1>8, <1>9

(* A write that reaches the flash was a good one.                          *)
LEMMA FlashStep ==
  ASSUME IInv, FlashWrite
  PROVE  IInv'
<1> USE DEF IInv
<1> DEFINE w == Head(todo)
<1>1. /\ todo # <<>>
      /\ store' = [store EXCEPT ![w.key] = w.val]
      /\ todo' = Tail(todo)
      /\ left' \in {left, NothingLeft}
      /\ UNCHANGED <<nver, ramVars, pc, triesVars, losses>>
  BY DEF FlashWrite
<1>2. w \in GoodWrites(guesses, Covered) /\ TodoOK'
  BY <1>1, HeadTailProperties, SameTries DEF TodoOK
<1>3. /\ w.key \in Keys /\ w.val \in Entry(w.key)
      /\ w.key = "PIN_LOGS" /\ w.val \in Nat => guesses <= w.val
      /\ w.key = "EDEK_PVC" /\ w.val \notin {MISSING, TORN}
           => w.val.dek \in Covered
  BY <1>2 DEF GoodWrites
<1> HIDE DEF w
<1>4. \A k \in Keys : store'[k] \in Entry(k)
  BY <1>1, <1>3 DEF StoreOK
<1>5. StoreOK' /\ LeftOK'
  <2>1. StoreOK'
    BY <1>1, <1>4 DEF StoreOK, AnyEntry
  <2> QED BY <1>1, <2>1, LeftStep DEF RamOK
<1>6. RamOK' /\ CallOK'
  BY <1>1 DEF RamOK, CallOK, ramVars
<1>7. CountOK'
  <2>1. LogsReadable' => store'["PIN_LOGS"] \in Nat
    BY <1>4, PinLogsEntry, StorageAssumption DEF LogsReadable, Whole
  <2>2. LogsReadable' => guesses <= store'["PIN_LOGS"]
    BY <1>1, <1>3, <2>1, PinLogsEntry
    DEF StoreOK, CountOK, LogsReadable, Whole
  <2> QED BY <1>1, <2>2, SameTries DEF CountOK, ramVars
<1>8. SpentOK'
  <2>1. Whole("EDEK_PVC")' => store'["EDEK_PVC"].dek \in Covered
    <3>1. CASE w.key = "EDEK_PVC"
      BY <1>1, <1>3, <3>1, EdekEntry DEF StoreOK, Whole
    <3>2. CASE w.key # "EDEK_PVC"
      BY <1>1, <1>3, <3>2, EdekEntry DEF StoreOK, Whole, SpentOK
    <3> QED BY <3>1, <3>2
  <2>2. pc' \in {"check", "open", "done"} => keys' \in Covered
    BY <1>1 DEF SpentOK, ramVars
  <2> QED BY <1>1, <2>1, <2>2, SameTries DEF SpentOK
<1> QED BY <1>2, <1>5, <1>6, <1>7, <1>8

(* A half-done reset shows a smaller count, but nothing is left to cover.  *)
LEMMA PartialResetStep ==
  ASSUME IInv, PartialReset
  PROVE  IInv'
<1> USE DEF IInv
<1>1. /\ pc = "done" /\ LogsReadable
      /\ UNCHANGED <<nver, left, ramVars, pc, todo, triesVars, losses>>
  BY DEF PartialReset
<1>2. PICK c \in 0..(store["PIN_LOGS"] - 1) :
        store' = [store EXCEPT !["PIN_LOGS"] = c]
  BY DEF PartialReset
<1>3. c \in 0..LOG_LIMIT /\ guesses = 0
  BY <1>1, <1>2, CountRead, StorageAssumption DEF CountOK
<1>4. \A k \in Keys : store'[k] \in Entry(k)
  BY <1>2, <1>3, PinLogsEntry DEF StoreOK
<1>5. StoreOK' /\ LeftOK'
  <2>1. StoreOK'
    BY <1>2, <1>4 DEF StoreOK, AnyEntry
  <2> QED BY <1>1, <2>1, LeftStep DEF RamOK
<1>6. RamOK' /\ CallOK' /\ TodoOK'
  BY <1>1, SameTries DEF RamOK, CallOK, TodoOK, ramVars
<1>7. CountOK'
  BY <1>1, <1>2, <1>3, PinLogsEntry, SameTries DEF CountOK, StoreOK, ramVars
<1>8. SpentOK'
  <2>1. store'["EDEK_PVC"] = store["EDEK_PVC"]
    BY <1>2, EdekEntry DEF StoreOK
  <2> QED BY <1>1, <2>1, SpentStep DEF ramVars
<1> QED BY <1>5, <1>6, <1>7, <1>8

(* A restart forgets the RAM; the count and the EDEK in the flash stay or  *)
(* are lost.                                                               *)
LEMMA RestartStep ==
  ASSUME IInv, Restart, losses' \in 0..MAX_LOSSES, UNCHANGED <<nver, triesVars>>,
         StoreOK', LeftOK',
         store'["PIN_LOGS"] \in {store["PIN_LOGS"], MISSING, TORN},
         store'["EDEK_PVC"] \in {store["EDEK_PVC"], MISSING, TORN}
  PROVE  IInv'
<1> USE DEF IInv, Restart
<1>1. RamOK'
  BY DEF RamOK
<1>2. CallOK'
  BY DEF CallOK
<1>3. CountOK'
  BY SameTries DEF CountOK, LogsReadable, Whole
<1>4. TodoOK'
  BY DEF TodoOK
<1>5. SpentOK'
  BY SpentStep
<1> QED BY <1>1, <1>2, <1>3, <1>4, <1>5

LEMMA PowerStep ==
  ASSUME IInv, PowerCycle \/ PowerLoss \/ PowerLossMoving
  PROVE  IInv'
<1> USE DEF IInv
<1>1. CASE PowerCycle
  <2>1. UNCHANGED <<store, nver, left, triesVars, losses>>
    BY <1>1 DEF PowerCycle, flashVars
  <2>2. StoreOK' /\ LeftOK'
    BY <2>1 DEF StoreOK, LeftOK
  <2> QED BY <1>1, <2>1, <2>2, RestartStep DEF PowerCycle, RamOK
<1>2. CASE PowerLoss
  <2>1. UNCHANGED <<store, nver, triesVars>> /\ LossLeaves(left) /\ Restart
    BY <1>2 DEF PowerLoss
  <2>2. losses' \in 0..MAX_LOSSES /\ left' \in {left, NothingLeft}
    BY <2>1, LossStep
  <2>3. StoreOK' /\ LeftOK'
    BY <2>1, <2>2, LeftStep DEF StoreOK, RamOK
  <2> QED BY <2>1, <2>2, <2>3, RestartStep
<1>3. CASE PowerLossMoving
  <2>1. PICK f, g :
          /\ f \in CutCopies \/ f = store
          /\ g \in CutCopies \/ g = store
          /\ store' = f
          /\ LossLeaves(Leftover(g)) \/ LossLeaves(NothingLeft)
    BY <1>3 DEF PowerLossMoving
  <2>2. losses' \in 0..MAX_LOSSES /\ left' \in {Leftover(g), NothingLeft}
    BY <2>1, LossStep
  <2>3. /\ Restart /\ UNCHANGED <<nver, triesVars>>
    BY <1>3 DEF PowerLossMoving
  <2>4. \A h : h \in CutCopies \/ h = store =>
          /\ h \in [Keys -> AnyEntry]
          /\ \A k \in Keys : h[k] \in Entry(k)
          /\ \A k \in Keys : k # "STORAGE_UPGRADED"
               => h[k] \in {store[k], MISSING, TORN}
    BY CopyKeeps
  <2>5. StoreOK'
    BY <2>1, <2>4 DEF StoreOK
  <2>6. LeftOK'
    <3>1. CASE left' = NothingLeft
      BY <3>1, LeftStep DEF RamOK
    <3>2. CASE left' = Leftover(g)
      <4>1. left'.store = g /\ left'.ver = nver
        BY <3>2 DEF Leftover
      <4> QED BY <2>1, <2>4, <3>2, <4>1 DEF LeftOK, Leftover, RamOK
    <3> QED BY <2>2, <3>1, <3>2
  <2>7. /\ store'["PIN_LOGS"] \in {store["PIN_LOGS"], MISSING, TORN}
        /\ store'["EDEK_PVC"] \in {store["EDEK_PVC"], MISSING, TORN}
    BY <2>1, <2>4, PinLogsEntry, EdekEntry
  <2> QED BY <2>2, <2>3, <2>5, <2>6, <2>7, RestartStep
<1> QED BY <1>1, <1>2, <1>3

(* An interrupted wipe: the count starts anew, with as many tries as       *)
(* PIN_MAX_TRIES more if a sector came back.                               *)
LEMMA WipeCutStep ==
  ASSUME IInv, WipeCutBeforeHeader \/ WipeCutAfterHeader
  PROVE  IInv'
<1> USE DEF IInv
<1>1. /\ Restart /\ guesses' = 0 /\ spent' = spent
      /\ losses' \in 0..MAX_LOSSES /\ left' \in {left, NothingLeft}
  BY LossStep DEF WipeCutBeforeHeader, WipeCutAfterHeader
<1>2. /\ StoreOK' /\ nver' \in Versions
      /\ \/ revived' = revived + 1
         \/ revived' = revived /\ ~Whole("EDEK_PVC")'
  <2>1. CASE WipeCutBeforeHeader
    BY <2>1 DEF WipeCutBeforeHeader, StoreOK, LeftOK
  <2>2. CASE WipeCutAfterHeader
    <3>1. store' = FreshStore /\ nver' = nver /\ revived' = revived
      BY <2>2 DEF WipeCutAfterHeader
    <3>2. FreshStore["EDEK_PVC"] = MISSING
      BY EdekEntry DEF FreshStore
    <3> QED BY <3>1, <3>2, NothingLeftOK DEF StoreOK, RamOK, Whole
  <2> QED BY <2>1, <2>2
<1>3. LeftOK'
  BY <1>1, LeftStep DEF RamOK
<1>4. RamOK' /\ CallOK' /\ TodoOK'
  <2>1. RamOK'
    BY <1>1, <1>2 DEF Restart, RamOK
  <2>2. CallOK'
    BY <1>1 DEF Restart, CallOK
  <2>3. TodoOK'
    BY <1>1 DEF Restart, TodoOK
  <2> QED BY <2>1, <2>2, <2>3
<1>5. CountOK'
  <2>1. LogsReadable' => store'["PIN_LOGS"] \in 0..LOG_LIMIT
    BY <1>2, PinLogsEntry DEF StoreOK, LogsReadable, Whole
  <2> QED BY <1>1, <2>1, StorageAssumption DEF Restart, CountOK
<1>6. SpentOK'
  <2>1. /\ Allowed \in Nat /\ PIN_MAX_TRIES \in Nat /\ revived \in Nat
        /\ revived' = revived => Allowed' = Allowed
        /\ revived' = revived + 1 => Allowed' = Allowed + PIN_MAX_TRIES
    BY AllowedMore, StorageAssumption DEF Allowed, SpentOK
  <2>2. /\ revived' \in Nat /\ Allowed' \in Nat /\ Allowed <= Allowed'
    BY <1>2, <2>1
  <2>3. \A d \in DEKS : spent'[d] <= Allowed'
    BY <1>1, <2>1, <2>2 DEF SpentOK
  <2>4. revived' = revived + 1 => Covered' = DEKS
    BY <1>1, <2>1 DEF Covered, SpentOK
  <2>5. Whole("EDEK_PVC")' => store'["EDEK_PVC"].dek \in DEKS
    BY <1>2, EdekEntry DEF StoreOK, Whole
  <2>6. Whole("EDEK_PVC")' => store'["EDEK_PVC"].dek \in Covered'
    BY <1>2, <2>4, <2>5
  <2> QED BY <1>1, <2>2, <2>3, <2>6 DEF SpentOK, Restart
<1> QED BY <1>2, <1>3, <1>4, <1>5, <1>6

LEMMA NextIInv == IInv /\ [Next]_vars => IInv'
<1> SUFFICES ASSUME IInv, [Next]_vars PROVE IInv'
  OBVIOUS
<1>1. CASE storage_upgrade \/ UpgradeCutShort
  BY <1>1, UpgradeStep
<1>2. CASE storage_init \/ storage_init_lock \/ storage_lock \/ CheckUnchanged
             \/ (\E k \in Protected : storage_get(k))
  BY <1>2, QuietStep
<1>3. CASE storage_init_new \/ Erase
  BY <1>3, NewStorageStep
<1>4. CASE UnlockFault \/ VerifyFault \/ CheckFault \/ FaultAfterWipe
             \/ (\E k \in Protected : storage_get_fault(k))
  BY <1>4, FaultStep
  DEF UnlockFault, VerifyFault, CheckFault, FaultAfterWipe, storage_get_fault
<1>5. CASE WipeDevice \/ CheckAttack \/ (\E c \in Calls : UnlockWipeCode(c))
             \/ (\E c \in Calls : UnlockTooMany(c))
  BY <1>5, WipeStep DEF WipeDevice, CheckAttack, UnlockWipeCode, UnlockTooMany
<1>6. CASE \E c \in Calls : UnlockTry(c)
  BY <1>6, TryStep
<1>7. CASE VerifyWrong \/ VerifyLast
  BY <1>7, WrongPinStep
<1>8. CASE VerifyRight
  BY <1>8, RightPinStep
<1>9. CASE CheckUpgraded
  BY <1>9, UpgradedStep
<1>10. CASE Open
  BY <1>10, OpenStep
<1>11. CASE Done
  BY <1>11, DoneStep
<1>12. CASE \E k \in AppKeys, v \in Vals : storage_set(k, v)
  BY <1>12, SetStep
<1>13. CASE \E k \in AppKeys : storage_delete(k)
  BY <1>13, DeleteStep
<1>14. CASE FlashWrite
  BY <1>14, FlashStep
<1>15. CASE PartialReset
  BY <1>15, PartialResetStep
<1>16. CASE PowerCycle \/ PowerLoss \/ PowerLossMoving
  BY <1>16, PowerStep
<1>17. CASE WipeCutBeforeHeader \/ WipeCutAfterHeader
  BY <1>17, WipeCutStep
<1>18. CASE UNCHANGED vars
  <2>1. UNCHANGED triesVars
    BY <1>18 DEF vars, triesVars
  <2>2. TodoOK' /\ CountOK'
    BY <1>18, <2>1, SameTries DEF vars, IInv, TodoOK, CountOK, LogsReadable, Whole
  <2>3. SpentOK'
    BY <1>18, <2>1, SpentStep DEF vars, IInv
  <2>4. StoreOK' /\ LeftOK' /\ RamOK' /\ CallOK'
    BY <1>18 DEF vars, IInv, StoreOK, LeftOK, RamOK, CallOK
  <2> QED BY <2>2, <2>3, <2>4 DEF IInv
<1> QED BY <1>1, <1>2, <1>3, <1>4, <1>5, <1>6, <1>7, <1>8, <1>9, <1>10, <1>11,
           <1>12, <1>13, <1>14, <1>15, <1>16, <1>17, <1>18 DEF Next, Unlocking

-----------------------------------------------------------------------------
(* Every variable of storage.c keeps its type, in every behaviour.         *)
THEOREM TypeCorrect == Spec => []TypeOK
<1>1. Init => IInv
  BY InitIInv
<1>2. IInv /\ [Next]_vars => IInv'
  BY NextIInv
<1>3. IInv => TypeOK
  BY IInvImplies
<1> QED BY <1>1, <1>2, <1>3, PTL DEF Spec

(* The failure counter covers every wrong PIN checked since the last right *)
(* one, a new EDEK or the return of a sector, for any number of PINs,      *)
(* tries, keys and power losses.                                           *)
THEOREM CounterCorrect == Spec => []CounterCovers
<1>1. Init => IInv
  BY InitIInv
<1>2. IInv /\ [Next]_vars => IInv'
  BY NextIInv
<1>3. IInv => CounterCovers
  BY IInvImplies
<1> QED BY <1>1, <1>2, <1>3, PTL DEF Spec

(* unlock() never checks more than PIN_MAX_TRIES wrong PINs against the    *)
(* EDEK of one data key, whatever power losses, cut-short moves of the     *)
(* items and upgrades happen; an interrupted wipe that brings back a       *)
(* sector allows as many again, and nothing else does.                     *)
THEOREM GuessesBounded == Spec => []GuessBound
<1>1. Init => IInv
  BY InitIInv
<1>2. IInv /\ [Next]_vars => IInv'
  BY NextIInv
<1>3. IInv => GuessBound
  BY IInvImplies
<1> QED BY <1>1, <1>2, <1>3, PTL DEF Spec

=============================================================================
