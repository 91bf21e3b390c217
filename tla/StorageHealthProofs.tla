------------------------ MODULE StorageHealthProofs ------------------------
(***************************************************************************)
(* Theorems about what the flash of Storage holds once the writes of the   *)
(* running handler have reached it: an unlocked storage is sound, it is    *)
(* unlocked only with the PIN or with new keys, and without a power loss   *)
(* no operation ends in the fault handler, but for a used-up PIN log.      *)
(***************************************************************************)
EXTENDS StorageProofs

(* The writes s turn the store f into a: under every key a holds what the  *)
(* last write of s to it says, or what f held.                             *)
Untouched(s, k) == \A i \in DOMAIN s : s[i].key # k
LastWrite(s, k, v) ==
  \E i \in DOMAIN s : /\ s[i].key = k /\ s[i].val = v
                      /\ \A j \in DOMAIN s : j > i => s[j].key # k
Outcome(s, f, a) ==
  \A k \in Keys : (Untouched(s, k) /\ a[k] = f[k]) \/ LastWrite(s, k, a[k])

IsStore(f) == f = [k \in Keys |-> f[k]]

LEMMA OutcomeOfNothing ==
  ASSUME NEW f, NEW a, IsStore(f), IsStore(a)
  PROVE  /\ Outcome(<<>>, f, f)
         /\ Outcome(<<>>, f, a) => a = f
BY DEF Outcome, Untouched, LastWrite, IsStore

LEMMA OutcomeOfWrite ==
  ASSUME NEW f, IsStore(f), NEW k \in Keys, NEW v
  PROVE  Outcome(<<W(k, v)>>, f, [f EXCEPT ![k] = v])
BY DEF Outcome, Untouched, LastWrite, IsStore, W

LEMMA OutcomeOfSet ==
  ASSUME NEW f, IsStore(f), NEW k \in Keys, NEW v
  PROVE  Outcome(norcow_set(k, v), f, [f EXCEPT ![k] = v])
<1> DEFINE s == norcow_set(k, v)
<1>1. /\ DOMAIN s = 1..3
      /\ s[1].key = k /\ s[2].key = k /\ s[3].key = k /\ s[3].val = v
  BY DEF norcow_set, W
<1> HIDE DEF s
<1>2. LastWrite(s, k, v)
  BY <1>1 DEF LastWrite
<1>3. \A j \in Keys : j # k => Untouched(s, j)
  BY <1>1 DEF Untouched
<1>4. Outcome(s, f, [f EXCEPT ![k] = v])
  BY <1>2, <1>3 DEF Outcome, IsStore
<1> QED BY <1>4 DEF s

LEMMA OutcomeOfConcat ==
  ASSUME NEW S, NEW s \in Seq(S), NEW t \in Seq(S),
         NEW f, NEW a, NEW b, Outcome(s, f, a), Outcome(t, a, b)
  PROVE  Outcome(s \o t, f, b)
<1> DEFINE u == s \o t
<1>1. /\ DOMAIN s = 1..Len(s) /\ DOMAIN t = 1..Len(t)
      /\ Len(s) \in Nat /\ Len(t) \in Nat /\ DOMAIN u = 1..(Len(s) + Len(t))
      /\ \A i \in 1..(Len(s) + Len(t)) :
           u[i] = IF i <= Len(s) THEN s[i] ELSE t[i - Len(s)]
  BY ConcatProperties, LenProperties
<1> HIDE DEF u
<1>2. ASSUME NEW k \in Keys
      PROVE  (Untouched(u, k) /\ b[k] = f[k]) \/ LastWrite(u, k, b[k])
  <2>1. CASE Untouched(t, k) /\ b[k] = a[k]
    <3>1. CASE Untouched(s, k) /\ a[k] = f[k]
      BY <1>1, <2>1, <3>1 DEF Untouched
    <3>2. CASE LastWrite(s, k, a[k])
      <4>1. PICK i \in DOMAIN s :
              /\ s[i].key = k /\ s[i].val = a[k]
              /\ \A j \in DOMAIN s : j > i => s[j].key # k
        BY <3>2 DEF LastWrite
      <4>2. i \in DOMAIN u /\ u[i].key = k /\ u[i].val = b[k]
        BY <1>1, <2>1, <4>1
      <4>3. \A j \in DOMAIN u : j > i => u[j].key # k
        BY <1>1, <2>1, <4>1 DEF Untouched
      <4> QED BY <4>2, <4>3 DEF LastWrite
    <3> QED BY <3>1, <3>2 DEF Outcome
  <2>2. CASE LastWrite(t, k, b[k])
    <3>1. PICK i \in DOMAIN t :
            /\ t[i].key = k /\ t[i].val = b[k]
            /\ \A j \in DOMAIN t : j > i => t[j].key # k
      BY <2>2 DEF LastWrite
    <3>2. Len(s) + i \in DOMAIN u
          /\ u[Len(s) + i].key = k /\ u[Len(s) + i].val = b[k]
      BY <1>1, <3>1
    <3>3. ASSUME NEW j \in DOMAIN u, j > Len(s) + i PROVE u[j].key # k
      <4>1. j - Len(s) \in DOMAIN t /\ j - Len(s) > i /\ ~(j <= Len(s))
        BY <1>1, <3>1, <3>3
      <4>2. u[j] = t[j - Len(s)]
        BY <1>1, <4>1
      <4> QED BY <3>1, <4>1, <4>2
    <3> QED BY <3>2, <3>3 DEF LastWrite
  <2> QED BY <2>1, <2>2 DEF Outcome
<1> QED BY <1>2 DEF Outcome, u

(* A write that reaches the flash does not change what the flash will hold *)
(* in the end.                                                             *)
LEMMA OutcomeOfTail ==
  ASSUME NEW S, NEW s \in Seq(S), s # <<>>, NEW f, IsStore(f), NEW a,
         Outcome(s, f, a)
  PROVE  Outcome(Tail(s), [f EXCEPT ![Head(s).key] = Head(s).val], a)
<1> DEFINE t == Tail(s)
           g == [f EXCEPT ![Head(s).key] = Head(s).val]
<1>1. /\ Len(s) \in Nat \ {0} /\ DOMAIN s = 1..Len(s)
      /\ DOMAIN t = 1..(Len(s) - 1)
      /\ \A i \in 1..(Len(s) - 1) : t[i] = s[i + 1]
      /\ Head(s) = s[1]
  BY HeadTailProperties, LenProperties, EmptySeq
<1> HIDE DEF t
<1>2. ASSUME NEW k \in Keys
      PROVE  (Untouched(t, k) /\ a[k] = g[k]) \/ LastWrite(t, k, a[k])
  <2>1. CASE Untouched(s, k) /\ a[k] = f[k]
    BY <1>1, <2>1 DEF Untouched, IsStore
  <2>2. CASE LastWrite(s, k, a[k])
    <3>1. PICK i \in DOMAIN s :
            /\ s[i].key = k /\ s[i].val = a[k]
            /\ \A j \in DOMAIN s : j > i => s[j].key # k
      BY <2>2 DEF LastWrite
    <3>2. CASE i = 1
      BY <1>1, <3>1, <3>2 DEF Untouched, IsStore
    <3>3. CASE i # 1
      <4>1. i - 1 \in DOMAIN t /\ t[i - 1].key = k /\ t[i - 1].val = a[k]
        BY <1>1, <3>1, <3>3
      <4>2. \A j \in DOMAIN t : j > i - 1 => t[j].key # k
        BY <1>1, <3>1, <3>3
      <4> QED BY <4>1, <4>2 DEF LastWrite
    <3> QED BY <3>2, <3>3
  <2> QED BY <2>1, <2>2 DEF Outcome
<1> QED BY <1>2 DEF Outcome, t

(* An entry that will be written over may change before.                   *)
LEMMA OutcomeOverwrites ==
  ASSUME NEW s, NEW f, IsStore(f), NEW a, NEW k \in Keys, NEW v,
         Outcome(s, f, a), ~Untouched(s, k)
  PROVE  Outcome(s, [f EXCEPT ![k] = v], a)
BY DEF Outcome, IsStore

-----------------------------------------------------------------------------
(* What the lists of writes come to.                                       *)

Put(f, k, v) == [f EXCEPT ![k] = v]

LEMMA PutIs ==
  ASSUME NEW f, IsStore(f), NEW k \in Keys, NEW v
  PROVE  /\ IsStore(Put(f, k, v)) /\ Put(f, k, v)[k] = v
         /\ \A j \in Keys : j # k => Put(f, k, v)[j] = f[j]
BY DEF IsStore, Put

LEMMA SetOutcome ==
  ASSUME NEW f, IsStore(f), NEW k \in Keys, NEW v
  PROVE  Outcome(norcow_set(k, v), f, Put(f, k, v))
BY OutcomeOfSet DEF Put

(* Two of the three writes of norcow_set.                                  *)
LEMMA TornOutcome ==
  ASSUME NEW f, IsStore(f), NEW k \in Keys
  PROVE  Outcome(<<W(k, MISSING), W(k, TORN)>>, f, Put(f, k, TORN))
<1> DEFINE s == <<W(k, MISSING), W(k, TORN)>>
<1>1. DOMAIN s = 1..2 /\ s[1].key = k /\ s[2].key = k /\ s[2].val = TORN
  BY DEF W
<1> HIDE DEF s
<1>2. LastWrite(s, k, TORN) /\ \A j \in Keys : j # k => Untouched(s, j)
  BY <1>1 DEF LastWrite, Untouched
<1>3. Outcome(s, f, Put(f, k, TORN))
  BY <1>2, PutIs DEF Outcome
<1> QED BY <1>3 DEF s

(* Where it does not matter how many tries the writes cover.               *)
LEMMA AnySet ==
  ASSUME NEW k \in Keys, NEW v \in Entry(k)
  PROVE  norcow_set(k, v) \in Seq(GoodWrites(0, DEKS))
<1>1. k = "PIN_LOGS" /\ v \in Nat => 0 <= v
  OBVIOUS
<1>2. k = "EDEK_PVC" /\ v \notin {MISSING, TORN} => v.dek \in DEKS
  BY EdekEntry
<1> QED BY <1>1, <1>2, GoodSet

LEMMA SetThen ==
  ASSUME NEW f, NEW a, IsStore(a), NEW k \in Keys, NEW v \in Entry(k),
         NEW s \in Seq(GoodWrites(0, DEKS)), Outcome(s, f, a)
  PROVE  /\ s \o norcow_set(k, v) \in Seq(GoodWrites(0, DEKS))
         /\ Outcome(s \o norcow_set(k, v), f, Put(a, k, v))
<1>1. norcow_set(k, v) \in Seq(GoodWrites(0, DEKS))
  BY AnySet
<1> QED BY <1>1, SetOutcome, OutcomeOfConcat, GoodConcat

(* The private keys are eight and no application keys.                     *)
LEMMA KeysApart ==
  /\ PrivateKeys \subseteq Keys /\ Protected \subseteq Keys
  /\ AppKeys \subseteq Keys /\ Protected \subseteq AppKeys
  /\ \A k \in AppKeys : k \notin PrivateKeys
  /\ \A k \in Protected : k \notin PrivateKeys
BY StorageAssumption DEF Keys, AppKeys

(* a is f with the EDEK of a new PIN.                                      *)
PinChanged(f, a, pin, d) ==
  /\ a["EDEK_PVC"] = [pin |-> pin, dek |-> d, ver |-> NORCOW_VERSION]
  /\ a["PIN_NOT_SET"] = (pin = PIN_EMPTY)
  /\ \A k \in Keys : k \notin {"EDEK_PVC", "PIN_NOT_SET"} => a[k] = f[k]

LEMMA SetPinOutcome ==
  ASSUME NEW f, IsStore(f), NEW pin \in AnyPin, NEW d \in DEKS
  PROVE  \E a : /\ IsStore(a) /\ Outcome(set_pin(pin, d), f, a)
               /\ PinChanged(f, a, pin, d)
<1> DEFINE e == [pin |-> pin, dek |-> d, ver |-> NORCOW_VERSION]
           p == pin = PIN_EMPTY
           b == Put(f, "EDEK_PVC", e)
           a == Put(b, "PIN_NOT_SET", p)
<1>1. e \in Entry("EDEK_PVC") /\ p \in Entry("PIN_NOT_SET")
  BY EdekEntry, FlagEntry DEF Versions
<1>2. "EDEK_PVC" \in Keys /\ "PIN_NOT_SET" \in Keys
  BY EdekEntry, FlagEntry
<1>3. set_pin(pin, d) = norcow_set("EDEK_PVC", e) \o norcow_set("PIN_NOT_SET", p)
  BY DEF set_pin
<1>7. a["EDEK_PVC"] = e => a["EDEK_PVC"] = [pin |-> pin, dek |-> d, ver |-> NORCOW_VERSION]
  OBVIOUS
<1> HIDE DEF e, p
<1>4. IsStore(b) /\ Outcome(norcow_set("EDEK_PVC", e), f, b)
  BY <1>2, PutIs, SetOutcome
<1>5. norcow_set("EDEK_PVC", e) \in Seq(GoodWrites(0, DEKS))
  BY <1>1, <1>2, AnySet
<1>6. Outcome(set_pin(pin, d), f, a)
  BY <1>1, <1>2, <1>3, <1>4, <1>5, SetThen
<1>8. /\ IsStore(a) /\ a["EDEK_PVC"] = e /\ a["PIN_NOT_SET"] = p
      /\ \A k \in Keys : k \notin {"EDEK_PVC", "PIN_NOT_SET"} => a[k] = f[k]
  BY <1>2, <1>4, PutIs
<1>9. PinChanged(f, a, pin, d)
  BY <1>7, <1>8 DEF PinChanged, p
<1> QED BY <1>6, <1>8, <1>9

(* a is f with the version brought up to date.                             *)
VersionWritten(f, a, v, d) ==
  /\ a["STORAGE_UPGRADED"] = FALSE
  /\ a["VERSION"] = [ver |-> v, dek |-> d]
  /\ a["UNAUTH_VERSION"] = v
  /\ \A k \in Keys : k \notin {"STORAGE_UPGRADED", "VERSION", "UNAUTH_VERSION"}
       => a[k] = f[k]

LEMMA VersionOutcome ==
  ASSUME NEW f, IsStore(f), NEW v \in Versions, NEW d \in DEKS
  PROVE  \E a : /\ IsStore(a) /\ Outcome(WriteVersion(v, d), f, a)
                /\ VersionWritten(f, a, v, d)
<1> DEFINE r == [ver |-> v, dek |-> d]
           no == FALSE
           s == norcow_set("STORAGE_UPGRADED", no)
           t == s \o norcow_set("VERSION", r)
           b == Put(f, "STORAGE_UPGRADED", no)
           c == Put(b, "VERSION", r)
           a == Put(c, "UNAUTH_VERSION", v)
<1>1. r \in Entry("VERSION") /\ v \in Entry("UNAUTH_VERSION")
      /\ no \in Entry("STORAGE_UPGRADED")
  BY VersionEntry, FlagEntry
<1>2. "VERSION" \in Keys /\ "UNAUTH_VERSION" \in Keys
      /\ "STORAGE_UPGRADED" \in Keys
  BY VersionEntry, FlagEntry
<1>10. a["STORAGE_UPGRADED"] = no => a["STORAGE_UPGRADED"] = FALSE
  OBVIOUS
<1>3. WriteVersion(v, d) = t \o norcow_set("UNAUTH_VERSION", v)
  BY DEF WriteVersion
<1>4. a["VERSION"] = r => a["VERSION"] = [ver |-> v, dek |-> d]
  OBVIOUS
<1> HIDE DEF r, no
<1>5. /\ IsStore(b) /\ Outcome(s, f, b) /\ s \in Seq(GoodWrites(0, DEKS))
      /\ b["STORAGE_UPGRADED"] = no
      /\ \A k \in Keys : k # "STORAGE_UPGRADED" => b[k] = f[k]
  BY <1>1, <1>2, PutIs, SetOutcome, AnySet
<1> HIDE DEF s, b
<1>6. /\ IsStore(c) /\ Outcome(t, f, c) /\ t \in Seq(GoodWrites(0, DEKS))
      /\ c["VERSION"] = r /\ \A k \in Keys : k # "VERSION" => c[k] = b[k]
  BY <1>1, <1>2, <1>5, PutIs, SetThen
<1> HIDE DEF t, c
<1>7. Outcome(WriteVersion(v, d), f, a)
  BY <1>1, <1>2, <1>3, <1>6, SetThen
<1>8. /\ IsStore(a) /\ a["STORAGE_UPGRADED"] = no
      /\ a["VERSION"] = r /\ a["UNAUTH_VERSION"] = v
      /\ \A k \in Keys :
           k \notin {"STORAGE_UPGRADED", "VERSION", "UNAUTH_VERSION"}
             => a[k] = f[k]
  BY <1>2, <1>5, <1>6, PutIs
<1>9. VersionWritten(f, a, v, d)
  BY <1>4, <1>8, <1>10 DEF VersionWritten
<1> QED BY <1>7, <1>8, <1>9

(* a is f with all that a new storage needs.                               *)
NewlyWritten(f, a, d) ==
  /\ a["STORAGE_TAG"] = [dek |-> d, sum |-> {}]
  /\ a["VERSION"] = [ver |-> NORCOW_VERSION, dek |-> d]
  /\ a["UNAUTH_VERSION"] = NORCOW_VERSION
  /\ a["STORAGE_UPGRADED"] = FALSE
  /\ a["PIN_LOGS"] = 0
  /\ a["WIPE_CODE_DATA"] = WIPE_CODE_EMPTY
  /\ a["EDEK_PVC"] = [pin |-> PIN_EMPTY, dek |-> d, ver |-> NORCOW_VERSION]
  /\ a["PIN_NOT_SET"] = TRUE
  /\ \A k \in AppKeys : a[k] = f[k]

LEMMA NewOutcome ==
  ASSUME NEW f, IsStore(f), NEW d \in DEKS
  PROVE  \E a : /\ IsStore(a) /\ Outcome(init_wiped_storage(d), f, a)
                /\ NewlyWritten(f, a, d)
<1> DEFINE g == [dek |-> d, sum |-> {}]
           r == [ver |-> NORCOW_VERSION, dek |-> d]
           n == NORCOW_VERSION
           no == FALSE
           w == WIPE_CODE_EMPTY
           s1 == norcow_set("STORAGE_TAG", g)
           s2 == s1 \o norcow_set("VERSION", r)
           s3 == s2 \o norcow_set("UNAUTH_VERSION", n)
           s4 == s3 \o norcow_set("STORAGE_UPGRADED", no)
           s5 == s4 \o norcow_set("PIN_LOGS", 0)
           s6 == s5 \o norcow_set("WIPE_CODE_DATA", w)
           a1 == Put(f, "STORAGE_TAG", g)
           a2 == Put(a1, "VERSION", r)
           a3 == Put(a2, "UNAUTH_VERSION", n)
           a4 == Put(a3, "STORAGE_UPGRADED", no)
           a5 == Put(a4, "PIN_LOGS", 0)
           a6 == Put(a5, "WIPE_CODE_DATA", w)
<1>1. /\ g \in Entry("STORAGE_TAG") /\ r \in Entry("VERSION")
      /\ n \in Entry("UNAUTH_VERSION") /\ no \in Entry("STORAGE_UPGRADED")
      /\ 0 \in Entry("PIN_LOGS") /\ w \in Entry("WIPE_CODE_DATA")
  <2>1. g \in Entry("STORAGE_TAG")
    BY TagEntry
  <2>2. r \in Entry("VERSION") /\ n \in Entry("UNAUTH_VERSION")
    BY VersionEntry DEF Versions
  <2>3. no \in Entry("STORAGE_UPGRADED")
    BY FlagEntry
  <2>4. 0 \in Entry("PIN_LOGS") /\ w \in Entry("WIPE_CODE_DATA")
    BY PinLogsEntry, WipeCodeEntry, StorageAssumption DEF AnyWipeCode
  <2> QED BY <2>1, <2>2, <2>3, <2>4
<1>2. /\ "STORAGE_TAG" \in Keys /\ "VERSION" \in Keys
      /\ "UNAUTH_VERSION" \in Keys /\ "STORAGE_UPGRADED" \in Keys
      /\ "PIN_LOGS" \in Keys /\ "WIPE_CODE_DATA" \in Keys
  BY KeysApart DEF PrivateKeys
<1>3. init_wiped_storage(d) = s6 \o set_pin(PIN_EMPTY, d)
  BY DEF init_wiped_storage
<1>4. /\ IsStore(a1) /\ Outcome(s1, f, a1) /\ s1 \in Seq(GoodWrites(0, DEKS))
      /\ a1["STORAGE_TAG"] = g
      /\ \A k \in Keys : k # "STORAGE_TAG" => a1[k] = f[k]
  BY <1>1, <1>2, PutIs, SetOutcome, AnySet
<1> DEFINE Known == /\ a6["STORAGE_TAG"] = [dek |-> d, sum |-> {}]
                    /\ a6["VERSION"] = [ver |-> NORCOW_VERSION, dek |-> d]
                    /\ a6["UNAUTH_VERSION"] = NORCOW_VERSION
                    /\ a6["STORAGE_UPGRADED"] = FALSE
                    /\ a6["WIPE_CODE_DATA"] = WIPE_CODE_EMPTY
<1>20. (/\ a6["STORAGE_TAG"] = g /\ a6["VERSION"] = r
        /\ a6["UNAUTH_VERSION"] = n /\ a6["STORAGE_UPGRADED"] = no
        /\ a6["WIPE_CODE_DATA"] = w) => Known
  OBVIOUS
<1> HIDE DEF s1, a1, g, r, n, no, w
<1>5. /\ IsStore(a2) /\ Outcome(s2, f, a2) /\ s2 \in Seq(GoodWrites(0, DEKS))
      /\ a2["VERSION"] = r /\ \A k \in Keys : k # "VERSION" => a2[k] = a1[k]
  BY <1>1, <1>2, <1>4, PutIs, SetThen
<1> HIDE DEF s2, a2
<1>6. /\ IsStore(a3) /\ Outcome(s3, f, a3) /\ s3 \in Seq(GoodWrites(0, DEKS))
      /\ a3["UNAUTH_VERSION"] = n /\ \A k \in Keys : k # "UNAUTH_VERSION" => a3[k] = a2[k]
  BY <1>1, <1>2, <1>5, PutIs, SetThen
<1> HIDE DEF s3, a3
<1>7. /\ IsStore(a4) /\ Outcome(s4, f, a4) /\ s4 \in Seq(GoodWrites(0, DEKS))
      /\ a4["STORAGE_UPGRADED"] = no /\ \A k \in Keys : k # "STORAGE_UPGRADED" => a4[k] = a3[k]
  BY <1>1, <1>2, <1>6, PutIs, SetThen
<1> HIDE DEF s4, a4
<1>8. /\ IsStore(a5) /\ Outcome(s5, f, a5) /\ s5 \in Seq(GoodWrites(0, DEKS))
      /\ a5["PIN_LOGS"] = 0 /\ \A k \in Keys : k # "PIN_LOGS" => a5[k] = a4[k]
  BY <1>1, <1>2, <1>7, PutIs, SetThen
<1> HIDE DEF s5, a5
<1>9. /\ IsStore(a6) /\ Outcome(s6, f, a6) /\ s6 \in Seq(GoodWrites(0, DEKS))
      /\ a6["WIPE_CODE_DATA"] = w /\ \A k \in Keys : k # "WIPE_CODE_DATA" => a6[k] = a5[k]
  BY <1>1, <1>2, <1>8, PutIs, SetThen
<1> HIDE DEF s6, a6
<1>10. /\ a6["STORAGE_TAG"] = g /\ a6["VERSION"] = r
       /\ a6["UNAUTH_VERSION"] = n /\ a6["STORAGE_UPGRADED"] = no
       /\ a6["PIN_LOGS"] = 0 /\ a6["WIPE_CODE_DATA"] = w
  BY <1>2, <1>4, <1>5, <1>6, <1>7, <1>8, <1>9
<1>11. \A k \in AppKeys : a6[k] = f[k]
  BY <1>2, <1>4, <1>5, <1>6, <1>7, <1>8, <1>9, KeysApart DEF PrivateKeys
<1>12. PIN_EMPTY \in AnyPin
  BY DEF AnyPin
<1>13. PICK a : /\ IsStore(a) /\ Outcome(set_pin(PIN_EMPTY, d), a6, a)
                /\ PinChanged(a6, a, PIN_EMPTY, d)
  BY <1>9, <1>12, SetPinOutcome
<1>14. Outcome(init_wiped_storage(d), f, a)
  <2>1. set_pin(PIN_EMPTY, d) \in Seq(GoodWrites(0, DEKS))
    BY <1>12, GoodSetPin
  <2> QED BY <1>3, <1>9, <1>13, <2>1, OutcomeOfConcat
<1>15. NewlyWritten(f, a, d)
  <2>1. /\ a["EDEK_PVC"] = [pin |-> PIN_EMPTY, dek |-> d, ver |-> NORCOW_VERSION]
        /\ a["PIN_NOT_SET"] = TRUE
        /\ \A k \in Keys : k \notin {"EDEK_PVC", "PIN_NOT_SET"} => a[k] = a6[k]
    BY <1>13 DEF PinChanged
  <2>2. \A k \in AppKeys : a[k] = f[k]
    BY <2>1, <1>11, KeysApart DEF PrivateKeys
  <2>3. Known
    BY <1>10, <1>20
  <2>4. /\ a["STORAGE_TAG"] = a6["STORAGE_TAG"] /\ a["VERSION"] = a6["VERSION"]
        /\ a["UNAUTH_VERSION"] = a6["UNAUTH_VERSION"]
        /\ a["STORAGE_UPGRADED"] = a6["STORAGE_UPGRADED"]
        /\ a["PIN_LOGS"] = 0 /\ a["WIPE_CODE_DATA"] = a6["WIPE_CODE_DATA"]
    BY <2>1, <1>2, <1>10
  <2> QED BY <2>1, <2>2, <2>3, <2>4 DEF NewlyWritten
<1> QED BY <1>13, <1>14, <1>15

(* a is f with another entry under the protected key k, and tag g.         *)
Reentered(f, a, k, v, g) ==
  /\ a[k] = v /\ a["STORAGE_TAG"] = g
  /\ \A j \in Keys : j \notin {k, "STORAGE_TAG"} => a[j] = f[j]

NewTag(k) == [dek |-> keys, sum |-> SymDiff(asum, {k})]

LEMMA TagWritten ==
  ASSUME NEW k \in Protected, keys \in DEKS, asum \subseteq Protected
  PROVE  /\ auth_update(k) = norcow_set("STORAGE_TAG", NewTag(k))
         /\ NewTag(k) \in Entry("STORAGE_TAG")
         /\ auth_update(k) \in Seq(GoodWrites(0, DEKS))
<1>1. SymDiff(asum, {k}) \in SUBSET Protected
  BY DEF SymDiff
<1>2. auth_update(k) \in Seq(GoodWrites(0, DEKS))
  BY <1>1, GoodTag DEF auth_update
<1> QED BY <1>1, <1>2, TagEntry DEF auth_update, NewTag

LEMMA SetEncryptedOutcome ==
  ASSUME IsStore(store), NEW k \in Protected, NEW v \in Vals,
         keys \in DEKS, asum \subseteq Protected
  PROVE  \E a : /\ IsStore(a) /\ Outcome(storage_set_encrypted(k, v), store, a)
                /\ Reentered(store, a, k, [val |-> v, dek |-> keys],
                             IF store[k] = MISSING THEN NewTag(k)
                             ELSE store["STORAGE_TAG"])
<1> DEFINE e == [val |-> v, dek |-> keys]
           s == <<W(k, MISSING), W(k, TORN)>>
           t == IF store[k] = MISSING THEN auth_update(k) ELSE <<>>
           b == Put(store, k, TORN)
           c == IF store[k] = MISSING THEN Put(b, "STORAGE_TAG", NewTag(k))
                ELSE b
           a == Put(c, k, e)
<1>1. /\ k \in Keys /\ "STORAGE_TAG" \in Keys /\ k # "STORAGE_TAG"
      /\ e \in Entry(k) /\ k # "PIN_LOGS"
  BY KeysApart, AppEntry, TagEntry DEF PrivateKeys
<1>2. IsStore(b) /\ b[k] = TORN /\ \A j \in Keys : j # k => b[j] = store[j]
  BY <1>1, PutIs
<1>3. Outcome(s, store, b) /\ s \in Seq(GoodWrites(0, DEKS))
  <2>1. s \in Seq(GoodWrites(0, DEKS))
    BY <1>1, GoodGone
  <2>2. Outcome(s, store, b)
    BY <1>1, TornOutcome
  <2> QED BY <2>1, <2>2
<1>4. /\ IsStore(c) /\ Outcome(t, b, c) /\ t \in Seq(GoodWrites(0, DEKS))
      /\ c["STORAGE_TAG"] = IF store[k] = MISSING THEN NewTag(k)
                            ELSE store["STORAGE_TAG"]
      /\ \A j \in Keys : j \notin {k, "STORAGE_TAG"} => c[j] = store[j]
  <2>1. CASE store[k] = MISSING
    <3>1. t = norcow_set("STORAGE_TAG", NewTag(k)) /\ t \in Seq(GoodWrites(0, DEKS))
      BY <2>1, TagWritten
    <3>2. c = Put(b, "STORAGE_TAG", NewTag(k))
      BY <2>1
    <3> HIDE DEF t, b, c
    <3> QED BY <1>1, <1>2, <2>1, <3>1, <3>2, PutIs, SetOutcome
  <2>2. CASE store[k] # MISSING
    <3>1. t = <<>> /\ c = b
      BY <2>2
    <3> HIDE DEF t, b, c
    <3>2. t \in Seq(GoodWrites(0, DEKS))
      BY <3>1
    <3> QED BY <1>1, <1>2, <2>2, <3>1, <3>2, OutcomeOfNothing
  <2> QED BY <2>1, <2>2
<1>5. <<W(k, e)>> \in Seq(GoodWrites(0, DEKS)) /\ Outcome(<<W(k, e)>>, c, a)
  <2>1. W(k, e) \in GoodWrites(0, DEKS)
    BY <1>1, GoodWrite
  <2> HIDE DEF c, e
  <2> QED BY <1>1, <1>4, <2>1, OutcomeOfWrite DEF Put
<1>6. storage_set_encrypted(k, v) = (s \o t) \o <<W(k, e)>>
  BY DEF storage_set_encrypted
<1>7. Reentered(store, a, k, e, c["STORAGE_TAG"]) /\ IsStore(a)
  <2> HIDE DEF c, e
  <2> QED BY <1>1, <1>4, PutIs DEF Reentered
<1>8. Outcome(storage_set_encrypted(k, v), store, a)
  <2> HIDE DEF s, t, b, c, a, e
  <2>1. s \o t \in Seq(GoodWrites(0, DEKS)) /\ Outcome(s \o t, store, c)
    BY <1>3, <1>4, OutcomeOfConcat, GoodConcat
  <2> QED BY <1>5, <1>6, <2>1, OutcomeOfConcat
<1>9. Reentered(store, a, k, e, IF store[k] = MISSING THEN NewTag(k)
                                ELSE store["STORAGE_TAG"])
  BY <1>4, <1>7
<1> HIDE DEF a
<1> QED BY <1>7, <1>8, <1>9

LEMMA DeleteOutcome ==
  ASSUME IsStore(store), NEW k \in Protected,
         keys \in DEKS, asum \subseteq Protected
  PROVE  \E a : /\ IsStore(a)
                /\ Outcome(<<W(k, MISSING)>> \o auth_update(k), store, a)
                /\ Reentered(store, a, k, MISSING, NewTag(k))
<1> DEFINE b == Put(store, k, MISSING)
           s == <<W(k, MISSING)>>
           a == Put(b, "STORAGE_TAG", NewTag(k))
<1>1. k \in Keys /\ "STORAGE_TAG" \in Keys /\ k # "STORAGE_TAG"
  BY KeysApart DEF PrivateKeys
<1>2. /\ IsStore(b) /\ b[k] = MISSING
      /\ \A j \in Keys : j # k => b[j] = store[j]
  BY <1>1, PutIs
<1>3. Outcome(s, store, b) /\ s \in Seq(GoodWrites(0, DEKS))
  BY <1>1, GoodGone, OutcomeOfWrite DEF Put
<1> HIDE DEF b, s
<1>4. /\ IsStore(a) /\ a["STORAGE_TAG"] = NewTag(k)
      /\ \A j \in Keys : j # "STORAGE_TAG" => a[j] = b[j]
  BY <1>1, <1>2, PutIs
<1>5. Reentered(store, a, k, MISSING, NewTag(k))
  BY <1>1, <1>2, <1>4 DEF Reentered
<1>6. Outcome(s \o auth_update(k), store, a)
  BY <1>1, <1>2, <1>3, TagWritten, SetThen
<1> HIDE DEF a
<1> QED BY <1>4, <1>5, <1>6 DEF s

-----------------------------------------------------------------------------
(* The inductive invariant. a is what the flash will hold when the writes  *)
(* in todo are done; the properties are about the store only where nothing *)
(* is left to write, and none of them survives without what a promises.    *)

Gone == {MISSING, TORN}
PresentIn(a) == {k \in Protected : a[k] # MISSING}

(* The storage a, for which d are the cached keys and S is the cached sum. *)
Sound(a, d, S) ==
  /\ a["EDEK_PVC"] \notin Gone /\ a["EDEK_PVC"].dek = d
  /\ a["STORAGE_TAG"] = [dek |-> d, sum |-> PresentIn(a)]
  /\ S = PresentIn(a)

(* Every entry of the storage a is whole and fits the others; n is the     *)
(* version of the flash sector, e the one whose scheme the EDEK needs.     *)
Fitting(a) ==
  /\ a["EDEK_PVC"] \in [pin : AnyPin, dek : DEKS, ver : Versions]
  /\ a["VERSION"] \in [ver : Versions, dek : DEKS]
  /\ a["VERSION"].dek = a["EDEK_PVC"].dek
  /\ a["STORAGE_TAG"] = [dek |-> a["EDEK_PVC"].dek, sum |-> PresentIn(a)]
  /\ \A k \in PresentIn(a) : a[k] # TORN /\ a[k].dek = a["EDEK_PVC"].dek
  /\ a["WIPE_CODE_DATA"] \notin Gone
  /\ a["PIN_LOGS"] \in 0..LOG_LIMIT
FlagFits(a) == a["PIN_NOT_SET"] = (a["EDEK_PVC"].pin = PIN_EMPTY)
VersionFits(a, n, e) ==
  /\ a["UNAUTH_VERSION"] = a["VERSION"].ver
  /\ \/ a["VERSION"].ver = n /\ a["STORAGE_UPGRADED"] = FALSE
     \/ a["VERSION"].ver < n /\ a["STORAGE_UPGRADED"] = TRUE
  /\ KdfScheme(a["EDEK_PVC"].ver) = KdfScheme(e)
Healthy(a, n, e) == Fitting(a) /\ FlagFits(a) /\ VersionFits(a, n, e)

SoundWhen(a) ==
  /\ (unlocked /\ pc # "lock") \/ pc \in {"check", "open", "done"}
       => Sound(a, keys, asum)
  /\ pc \in {"check", "open", "done"} => a["EDEK_PVC"].pin = call.pin

(* The last allowed try used up the PIN log, or that has been found out.   *)
UsedUp(a) ==
  \/ /\ pc = "verify"
     /\ a["PIN_LOGS"] = EXHAUSTED /\ ctr + 1 = PIN_MAX_TRIES
  \/ pc = "wipe" /\ ret = "fault"

HealthyWhen(a) ==
  losses = 0 =>
    /\ \/ /\ Healthy(a, nver, IF pc = "check" THEN NORCOW_VERSION
                              ELSE a["VERSION"].ver)
          /\ pc = "verify" => a["PIN_LOGS"] = ctr + 1
       \/ pc = "boot" /\ nver = NORCOW_VERSION /\ store = FreshStore
       \/ UsedUp(a)
    /\ pc # "refault" /\ ret # "refault"
    /\ pc \in {"open", "done"} => a["VERSION"].ver = NORCOW_VERSION

Foresees(a) ==
  /\ IsStore(a) /\ Outcome(todo, store, a)
  /\ SoundWhen(a) /\ HealthyWhen(a)

BootOK ==
  /\ pc = "boot" => ~unlocked /\ todo = <<>>
  /\ pc # "boot" => nver = NORCOW_VERSION

HInv == BootOK /\ \E a : Foresees(a)

LEMMA StoreIs == IInv => IsStore(store)
BY DEF IInv, StoreOK, IsStore

(* Between the writes the future is now.                                   *)
LEMMA NothingToWrite ==
  ASSUME IInv, HInv, todo = <<>>
  PROVE  Foresees(store)
<1>1. PICK a : Foresees(a)
  BY DEF HInv
<1>2. a = store
  BY <1>1, StoreIs, OutcomeOfNothing DEF Foresees
<1> QED BY <1>1, <1>2

LEMMA StillNothingToWrite ==
  ASSUME IInv', BootOK', todo' = <<>>, SoundWhen(store)', HealthyWhen(store)'
  PROVE  HInv'
<1>1. IsStore(store')
  BY DEF IInv, StoreOK, IsStore
<1>2. Outcome(todo', store', store')
  BY <1>1, OutcomeOfNothing
<1>3. Foresees(store)'
  BY <1>1, <1>2 DEF Foresees
<1> QED BY <1>3 DEF HInv

(* Versions are numbers, no one larger than NORCOW_VERSION.                *)
LEMMA VersionsAreNat ==
  \A v \in Versions : v \in Nat /\ v <= NORCOW_VERSION
BY StorageAssumption DEF Versions

(* Nothing that is ever written is mistaken for a lost entry.              *)
LEMMA WholeIs ==
  /\ \A e \in [pin : AnyPin, dek : DEKS, ver : Versions] : e \notin Gone
  /\ \A e \in [ver : Versions, dek : DEKS] : e \notin Gone
  /\ \A e \in [dek : DEKS, sum : SUBSET Protected] : e \notin Gone
  /\ \A e \in AnyWipeCode : e \notin Gone
  /\ \A e \in Versions : e \notin Gone
  /\ \A e \in 0..LOG_LIMIT : e \notin Gone
  /\ \A k \in Protected : \A e \in [val : Vals, dek : DEKS] : e \notin Gone
  /\ \A e \in BOOLEAN : e \notin Gone
<1>1. /\ Contents("EDEK_PVC") = [pin : AnyPin, dek : DEKS, ver : Versions]
      /\ Contents("VERSION") = [ver : Versions, dek : DEKS]
      /\ Contents("STORAGE_TAG") = [dek : DEKS, sum : SUBSET Protected]
      /\ Contents("WIPE_CODE_DATA") = AnyWipeCode
      /\ Contents("UNAUTH_VERSION") = Versions
      /\ Contents("PIN_LOGS") = 0..LOG_LIMIT
      /\ Contents("STORAGE_UPGRADED") = BOOLEAN
  BY StorageAssumption DEF Contents, Keys, PrivateKeys, AppKeys
<1>2. \A k \in Protected : Contents(k) = [val : Vals, dek : DEKS]
  BY StorageAssumption DEF Contents, Keys, PrivateKeys, AppKeys
<1> HIDE DEF Contents
<1>3. \A k \in Keys : \A e \in Contents(k) : e \notin Gone
  BY MarkerAssumption DEF Gone
<1>4. PrivateKeys \subseteq Keys /\ Protected \subseteq Keys
  BY KeysApart
<1> QED BY <1>1, <1>2, <1>3, <1>4 DEF PrivateKeys

-----------------------------------------------------------------------------
(* The first states.                                                       *)

LEMMA InitHealth == Init => HInv
<1> SUFFICES ASSUME Init PROVE HInv
  OBVIOUS
<1>1. /\ unlocked = FALSE /\ ret = "idle" /\ pc = "boot" /\ todo = <<>>
      /\ losses = 0
  BY DEF Init
<1>2. BootOK /\ SoundWhen(store)
  BY <1>1 DEF BootOK, SoundWhen
<1>3. HealthyWhen(store)
  <2>1. CASE store = FreshStore /\ nver = NORCOW_VERSION
    BY <1>1, <2>1 DEF HealthyWhen
  <2>2. CASE \E v \in OLD_VERSIONS, pin \in AnyPin, K \in SUBSET Protected :
               store = OldStore(v, pin, K) /\ nver = v
    <3>1. PICK v \in OLD_VERSIONS, pin \in AnyPin, K \in SUBSET Protected :
            store = OldStore(v, pin, K) /\ nver = v
      BY <2>2
    <3> DEFINE d == CHOOSE x \in DEKS : TRUE
               x == CHOOSE y \in Vals : TRUE
    <3>2. d \in DEKS /\ x \in Vals /\ v \in Versions /\ v \in Nat
      BY StorageAssumption DEF Versions
    <3>3. K \cap PrivateKeys = {} /\ K \subseteq Protected
      BY <3>1, StorageAssumption DEF AppKeys
    <3>4. /\ store["PIN_LOGS"] = 0
          /\ store["EDEK_PVC"] = [pin |-> pin, dek |-> d, ver |-> v]
          /\ store["PIN_NOT_SET"] = (pin = PIN_EMPTY)
          /\ store["VERSION"] = [ver |-> v, dek |-> d]
      BY <3>1, <3>3 DEF OldStore, Keys, PrivateKeys
    <3>5. /\ store["STORAGE_TAG"] = [dek |-> d, sum |-> K]
          /\ store["WIPE_CODE_DATA"] = WIPE_CODE_EMPTY
          /\ store["STORAGE_UPGRADED"] = FALSE
          /\ store["UNAUTH_VERSION"] = v
      BY <3>1, <3>3 DEF OldStore, Keys, PrivateKeys
    <3>6. /\ \A k \in K : store[k] = [val |-> x, dek |-> d]
          /\ \A k \in Protected \ K : store[k] = MISSING
      BY <3>1, <3>3, StorageAssumption
      DEF OldStore, Keys, PrivateKeys, AppKeys
    <3> HIDE DEF d, x
    <3>7. \A k \in K : store[k] \notin Gone /\ store[k].dek = d
      <4>1. [val |-> x, dek |-> d] \in [val : Vals, dek : DEKS]
        BY <3>2
      <4> QED BY <3>3, <3>6, <4>1, WholeIs
    <3>8. PresentIn(store) = K
      BY <3>3, <3>6, <3>7 DEF PresentIn, Gone
    <3>9. store["WIPE_CODE_DATA"] \notin Gone
      BY <3>5, WholeIs DEF AnyWipeCode
    <3>10. Fitting(store)
      BY <3>2, <3>4, <3>5, <3>7, <3>8, <3>9, StorageAssumption
      DEF Fitting, Gone
    <3>11. FlagFits(store)
      BY <3>4 DEF FlagFits
    <3>12. VersionFits(store, nver, store["VERSION"].ver)
      BY <3>1, <3>4, <3>5 DEF VersionFits
    <3> QED BY <1>1, <3>10, <3>11, <3>12 DEF HealthyWhen, Healthy
  <2> QED BY <2>1, <2>2 DEF Init
<1>4. IsStore(store) /\ Outcome(todo, store, store)
  BY <1>1, InitIInv, StoreIs, OutcomeOfNothing
<1> QED BY <1>2, <1>3, <1>4 DEF HInv, Foresees

-----------------------------------------------------------------------------
(* How the writes of the handlers change a sound or healthy storage.       *)

LEMMA SoundSame ==
  ASSUME NEW f, NEW a, NEW d, NEW S, Sound(f, d, S),
         a["EDEK_PVC"] = f["EDEK_PVC"], a["STORAGE_TAG"] = f["STORAGE_TAG"],
         \A k \in Protected : a[k] = f[k]
  PROVE  Sound(a, d, S)
BY DEF Sound, PresentIn

(* A new count of PIN failures.                                            *)
LEMMA CountChanged ==
  ASSUME NEW f, IsStore(f), NEW c
  PROVE  LET a == Put(f, "PIN_LOGS", c) IN
         /\ \A d, S : Sound(f, d, S) => Sound(a, d, S)
         /\ \A n, e : Healthy(f, n, e) /\ c \in 0..LOG_LIMIT
                        => Healthy(a, n, e)
<1> DEFINE a == Put(f, "PIN_LOGS", c)
<1>1. /\ a["PIN_LOGS"] = c
      /\ \A k \in Keys : k # "PIN_LOGS" => a[k] = f[k]
      /\ \A k \in Protected : k \in Keys /\ k # "PIN_LOGS"
      /\ PrivateKeys \subseteq Keys
  BY PutIs, KeysApart DEF PrivateKeys
<1> HIDE DEF a
<1>2. /\ a["EDEK_PVC"] = f["EDEK_PVC"] /\ a["STORAGE_TAG"] = f["STORAGE_TAG"]
      /\ a["VERSION"] = f["VERSION"] /\ a["WIPE_CODE_DATA"] = f["WIPE_CODE_DATA"]
      /\ a["UNAUTH_VERSION"] = f["UNAUTH_VERSION"]
      /\ a["STORAGE_UPGRADED"] = f["STORAGE_UPGRADED"]
      /\ a["PIN_NOT_SET"] = f["PIN_NOT_SET"]
      /\ \A k \in Protected : a[k] = f[k]
  BY <1>1 DEF PrivateKeys
<1>3. PresentIn(a) = PresentIn(f)
  BY <1>2 DEF PresentIn
<1>4. ASSUME Fitting(f), c \in 0..LOG_LIMIT PROVE Fitting(a)
  BY <1>1, <1>2, <1>3, <1>4 DEF Fitting, PresentIn
<1>5. FlagFits(f) => FlagFits(a)
  BY <1>2 DEF FlagFits
<1>6. \A n, e : VersionFits(f, n, e) => VersionFits(a, n, e)
  BY <1>2 DEF VersionFits
<1>7. \A d, S : Sound(f, d, S) => Sound(a, d, S)
  BY <1>2, SoundSame
<1>8. \A n, e : Healthy(f, n, e) /\ c \in 0..LOG_LIMIT => Healthy(a, n, e)
  BY <1>4, <1>5, <1>6 DEF Healthy
<1> QED BY <1>7, <1>8 DEF a

(* A new PIN for the same keys.                                            *)
LEMMA PinChangeKeeps ==
  ASSUME NEW f, NEW a, NEW pin \in AnyPin, NEW d \in DEKS,
         f["EDEK_PVC"].dek = d, PinChanged(f, a, pin, d)
  PROVE  /\ a["EDEK_PVC"].pin = pin
         /\ a["VERSION"] = f["VERSION"] /\ a["PIN_LOGS"] = f["PIN_LOGS"]
         /\ \A S : Sound(f, d, S) => Sound(a, d, S)
         /\ \A n, e : Healthy(f, n, e) => Healthy(a, n, NORCOW_VERSION)
<1>1. /\ a["EDEK_PVC"] = [pin |-> pin, dek |-> d, ver |-> NORCOW_VERSION]
      /\ a["STORAGE_TAG"] = f["STORAGE_TAG"] /\ a["VERSION"] = f["VERSION"]
      /\ a["WIPE_CODE_DATA"] = f["WIPE_CODE_DATA"]
      /\ a["UNAUTH_VERSION"] = f["UNAUTH_VERSION"]
      /\ a["STORAGE_UPGRADED"] = f["STORAGE_UPGRADED"]
      /\ a["PIN_LOGS"] = f["PIN_LOGS"]
      /\ \A k \in Protected : a[k] = f[k]
  BY KeysApart DEF PinChanged, PrivateKeys
<1>2. PresentIn(a) = PresentIn(f)
  BY <1>1 DEF PresentIn
<1>3. a["EDEK_PVC"] \in [pin : AnyPin, dek : DEKS, ver : Versions]
  BY <1>1 DEF Versions
<1>4. a["EDEK_PVC"] \notin Gone
  BY <1>3, WholeIs
<1>5. Fitting(f) => Fitting(a)
  <2>1. a["EDEK_PVC"].dek = f["EDEK_PVC"].dek
    BY <1>1
  <2>2. \A k \in PresentIn(a) : a[k] = f[k]
    BY <1>1 DEF PresentIn
  <2> QED BY <1>1, <1>2, <1>3, <2>1, <2>2 DEF Fitting
<1>6. FlagFits(a)
  BY <1>1 DEF FlagFits, PinChanged
<1>7. \A n, e : VersionFits(f, n, e) => VersionFits(a, n, NORCOW_VERSION)
  BY <1>1 DEF VersionFits
<1>8. \A S : Sound(f, d, S) => Sound(a, d, S)
  BY <1>1, <1>2, <1>4 DEF Sound
<1>9. \A n, e : Healthy(f, n, e) => Healthy(a, n, NORCOW_VERSION)
  BY <1>5, <1>6, <1>7 DEF Healthy
<1> QED BY <1>1, <1>8, <1>9

(* A new storage in an empty flash.                                        *)
LEMMA NewIsHealthy ==
  ASSUME NEW a, NEW d \in DEKS, NewlyWritten(FreshStore, a, d)
  PROVE  Sound(a, d, {}) /\ Healthy(a, NORCOW_VERSION, NORCOW_VERSION)
<1>1. \A k \in Protected : a[k] = MISSING
  BY KeysApart DEF NewlyWritten, FreshStore
<1>2. PresentIn(a) = {}
  BY <1>1 DEF PresentIn
<1>3. PIN_EMPTY \in AnyPin /\ NORCOW_VERSION \in Versions
  BY DEF AnyPin, Versions
<1>4. a["EDEK_PVC"] \in [pin : AnyPin, dek : DEKS, ver : Versions]
  BY <1>3 DEF NewlyWritten
<1>5. a["EDEK_PVC"] \notin Gone
  BY <1>4, WholeIs
<1>6. a["WIPE_CODE_DATA"] \notin Gone
  BY WholeIs DEF AnyWipeCode, NewlyWritten
<1>7. Fitting(a)
  BY <1>2, <1>3, <1>4, <1>6, StorageAssumption DEF Fitting, NewlyWritten
<1>8. FlagFits(a)
  <2>1. a["EDEK_PVC"].pin = PIN_EMPTY /\ a["PIN_NOT_SET"] = TRUE
    BY DEF NewlyWritten
  <2> QED BY <2>1 DEF FlagFits
<1>9. VersionFits(a, NORCOW_VERSION, NORCOW_VERSION)
  BY DEF VersionFits, NewlyWritten
<1>10. Sound(a, d, {})
  BY <1>2, <1>5 DEF Sound, NewlyWritten
<1> QED BY <1>7, <1>8, <1>9, <1>10 DEF Healthy

-----------------------------------------------------------------------------
(* One lemma per group of actions: each preserves the invariant.           *)

(* A storage that no power loss has touched gives no cause for a fault,    *)
(* unless its PIN log is used up.                                          *)
LEMMA NoFaultNow ==
  ASSUME IInv, HInv, losses = 0
  PROVE  /\ VerifyFault => UsedUp(store)
         /\ ~UnlockFault /\ ~CheckFault /\ ~CheckAttack
         /\ ~FaultAfterWipe
         /\ \A k \in Protected : ~storage_get_fault(k)
<1> DEFINE d == store["EDEK_PVC"].dek
<1>1. ASSUME todo = <<>>, pc # "boot", ~UsedUp(store)
      PROVE  /\ Foresees(store) /\ nver = NORCOW_VERSION
             /\ Healthy(store, nver, IF pc = "check" THEN NORCOW_VERSION
                                     ELSE store["VERSION"].ver)
             /\ WipeCodeReadable /\ LogsReadable /\ VersionReadable(d)
             /\ store["EDEK_PVC"] # MISSING
             /\ \A k \in Protected : Decrypts(k, d)
  <2>1. Foresees(store) /\ nver = NORCOW_VERSION
    BY <1>1, NothingToWrite DEF HInv, BootOK
  <2>2. Healthy(store, nver, IF pc = "check" THEN NORCOW_VERSION
                             ELSE store["VERSION"].ver)
    BY <1>1, <2>1 DEF Foresees, HealthyWhen
  <2>3. Fitting(store) /\ store["UNAUTH_VERSION"] = store["VERSION"].ver
    BY <2>2 DEF Healthy, VersionFits
  <2>4. /\ store["EDEK_PVC"] \notin Gone /\ store["VERSION"] \notin Gone
        /\ store["UNAUTH_VERSION"] \notin Gone
        /\ store["WIPE_CODE_DATA"] \notin Gone /\ store["PIN_LOGS"] \notin Gone
    BY <2>3, WholeIs DEF Fitting
  <2>5. TagGood(d)
    BY <2>3 DEF Fitting, TagGood, PresentIn, Present
  <2>6. \A k \in Protected : store[k] # MISSING => Uses(k, d)
    BY <2>3 DEF Fitting, PresentIn, Uses, Whole
  <2>7. VersionReadable(d)
    BY <2>3, <2>4, <2>5
    DEF Fitting, VersionReadable, Decrypts, Uses, Whole, Gone
  <2>8. WipeCodeReadable /\ LogsReadable
    BY <2>4 DEF WipeCodeReadable, LogsReadable, Whole, Gone
  <2> QED BY <2>1, <2>2, <2>4, <2>5, <2>6, <2>7, <2>8 DEF Decrypts, Gone
<1>2. ~UnlockFault
  BY <1>1 DEF UnlockFault, Idle, UsedUp
<1>3. VerifyFault => UsedUp(store)
  <2> SUFFICES ASSUME VerifyFault, ~UsedUp(store) PROVE FALSE
    OBVIOUS
  <2>1. pc = "verify" /\ todo = <<>>
    BY DEF VerifyFault, Verify
  <2>2. store["PIN_LOGS"] = ctr + 1
    BY <1>1, <2>1 DEF Foresees, HealthyWhen
  <2> QED BY <1>1, <2>1, <2>2 DEF VerifyFault, Counted
<1>4. ~CheckFault /\ ~CheckAttack
  <2> SUFFICES ASSUME CheckFault \/ CheckAttack PROVE FALSE
    OBVIOUS
  <2>1. pc = "check" /\ todo = <<>>
    BY DEF CheckFault, CheckAttack, Check
  <2>2. VersionFits(store, nver, NORCOW_VERSION)
    BY <1>1, <2>1 DEF Healthy, UsedUp
  <2>3. Upgraded \/ Unchanged
    BY <2>2 DEF VersionFits, Upgraded, Unchanged
  <2>4. store["STORAGE_UPGRADED"] \in BOOLEAN
    BY <2>2 DEF VersionFits
  <2>5. store["STORAGE_UPGRADED"] # MISSING
    BY <2>4, WholeIs DEF Gone
  <2>6. VersionsAgree
    BY <2>2, <2>5 DEF VersionFits, VersionsAgree
  <2> QED BY <2>3, <2>6 DEF CheckFault, CheckAttack
<1>5. ~FaultAfterWipe
  BY DEF FaultAfterWipe, HInv, Foresees, HealthyWhen
<1>6. ASSUME NEW k \in Protected PROVE ~storage_get_fault(k)
  <2> SUFFICES ASSUME storage_get_fault(k) PROVE FALSE
    OBVIOUS
  <2>1. pc = "idle" /\ todo = <<>> /\ unlocked /\ ~Decrypts(k, keys)
    BY DEF storage_get_fault, Idle
  <2>2. ~UsedUp(store)
    BY <2>1 DEF UsedUp
  <2>3. d = keys
    BY <1>1, <2>1, <2>2 DEF Foresees, SoundWhen, Sound
  <2> QED BY <1>1, <2>1, <2>2, <2>3
<1> QED BY <1>2, <1>3, <1>4, <1>5, <1>6

(* After a power loss a fault may be counted; that changes the count only. *)
LEMMA HealthFault ==
  ASSUME IInv, HInv, IInv', todo = <<>>, losses # 0,
         pc \in {"idle", "verify", "check", "refault"}, handle_fault
  PROVE  HInv'
<1>1. /\ store' = store /\ pc' \in {"fault", "wipe"} /\ losses' # 0
      /\ UNCHANGED <<nver, unlocked, keys, asum>>
  BY DEF handle_fault, FaultCounted, FaultUsesUpLog, storage_wipe, flashVars,
         ramVars
<1>2. Foresees(store) /\ nver = NORCOW_VERSION
  BY NothingToWrite DEF HInv, BootOK
<1>3. unlocked => Sound(store, keys, asum)
  BY <1>2 DEF Foresees, SoundWhen
<1>4. BootOK'
  BY <1>1, <1>2 DEF BootOK
<1>5. CASE CanCount
  <2>1. IsStore(store) /\ "PIN_LOGS" \in Keys
    BY StoreIs, PinLogsEntry
  <2>2. PICK c : Outcome(todo', store', Put(store, "PIN_LOGS", c))
    <3>1. CASE todo' = pin_fails_increase
      BY <1>1, <2>1, <3>1, SetOutcome DEF pin_fails_increase
    <3>2. CASE todo' = pin_log_used_up
      BY <1>1, <2>1, <3>2, TornOutcome DEF pin_log_used_up, EXHAUSTED
    <3> QED BY <1>5, <3>1, <3>2 DEF handle_fault, FaultCounted, FaultUsesUpLog
  <2>3. PICK a : a = Put(store, "PIN_LOGS", c)
    OBVIOUS
  <2>4. IsStore(a)
    BY <2>1, <2>3, PutIs
  <2>5. unlocked => Sound(a, keys, asum)
    BY <1>3, <2>1, <2>3, CountChanged
  <2>6. Foresees(a)'
    BY <1>1, <2>2, <2>3, <2>4, <2>5 DEF Foresees, SoundWhen, HealthyWhen
  <2> QED BY <1>4, <2>6 DEF HInv
<1>6. CASE ~CanCount
  <2>1. todo' = <<>>
    BY <1>6 DEF handle_fault, FaultCounted, FaultUsesUpLog, storage_wipe
  <2>2. SoundWhen(store)' /\ HealthyWhen(store)'
    BY <1>1, <1>3 DEF SoundWhen, HealthyWhen
  <2> QED BY <1>4, <2>1, <2>2, StillNothingToWrite
<1> QED BY <1>5, <1>6

(* The PIN log is used up: it cannot be read and the storage is wiped.     *)
LEMMA HealthUsedUp ==
  ASSUME IInv, HInv, IInv', losses = 0, VerifyFault
  PROVE  HInv'
<1>1. todo = <<>> /\ pc = "verify" /\ handle_fault
  BY DEF VerifyFault, Verify
<1>2. Foresees(store) /\ nver = NORCOW_VERSION
  BY <1>1, NothingToWrite DEF HInv, BootOK
<1>3. store["PIN_LOGS"] = TORN
  BY <1>1, NoFaultNow DEF UsedUp, EXHAUSTED
<1>4. storage_wipe("fault")
  BY <1>1, <1>3
  DEF handle_fault, FaultCounted, FaultUsesUpLog, CanCount, LogsReadable, Whole
<1>5. /\ pc' = "wipe" /\ ret' = "fault" /\ todo' = <<>> /\ store' = store
      /\ UNCHANGED <<nver, unlocked, keys, asum>>
  BY <1>1, <1>4 DEF storage_wipe, flashVars
<1>6. BootOK'
  BY <1>2, <1>5 DEF BootOK
<1>7. SoundWhen(store)'
  BY <1>1, <1>2, <1>5 DEF Foresees, SoundWhen
<1>8. HealthyWhen(store)'
  BY <1>5 DEF HealthyWhen, UsedUp
<1> QED BY <1>5, <1>6, <1>7, <1>8, StillNothingToWrite

(* Steps that leave the flash and the keys alone.                          *)
LEMMA HealthQuiet ==
  ASSUME IInv, HInv, IInv', todo = <<>>, todo' = <<>>,
         pc \in {"idle", "verify", "check"}, pc' \in {"idle", "wipe"},
         losses = 0 => /\ pc # "check" /\ ret' # "refault"
                       /\ ~UsedUp(store),
         UNCHANGED <<store, nver, unlocked, keys, losses>>,
         unlocked => asum' = asum
  PROVE  HInv'
<1>1. Foresees(store) /\ nver = NORCOW_VERSION
  BY NothingToWrite DEF HInv, BootOK
<1>2. BootOK'
  BY <1>1 DEF BootOK
<1>3. SoundWhen(store)'
  BY <1>1 DEF Foresees, SoundWhen
<1>4. HealthyWhen(store)'
  BY <1>1 DEF Foresees, HealthyWhen
<1> QED BY <1>2, <1>3, <1>4, StillNothingToWrite

(* A try that was counted did not use up the log.                          *)
LEMMA CountedNotUsedUp ==
  ASSUME IInv, Counted, pc = "verify"
  PROVE  ~UsedUp(store)
<1>1. ctr + 1 \in Nat
  BY DEF IInv, RamOK
<1> QED BY <1>1, MarkerAssumption DEF Counted, UsedUp, EXHAUSTED

LEMMA HealthQuietSteps ==
  ASSUME IInv, HInv, IInv',
         \/ VerifyWrong \/ VerifyLast \/ WipeDevice \/ CheckAttack
         \/ (\E c \in Calls : UnlockWipeCode(c))
         \/ (\E c \in Calls : UnlockTooMany(c))
         \/ (\E k \in Protected : storage_get(k))
  PROVE  HInv'
<1>1. /\ todo = <<>> /\ todo' = <<>>
      /\ pc \in {"idle", "verify", "check"} /\ pc' \in {"idle", "wipe"}
      /\ UNCHANGED <<store, nver, unlocked, keys, losses>>
  BY DEF VerifyWrong, VerifyLast, Verify, WipeDevice, CheckAttack, Check,
         UnlockWipeCode, UnlockTooMany, storage_wipe, storage_get, Idle,
         flashVars
<1>2. unlocked => asum' = asum
  <2>1. CASE \E k \in Protected : storage_get(k)
    <3>1. Foresees(store)
      BY <1>1, NothingToWrite
    <3>2. pc = "idle" /\ asum' = Present
      BY <2>1 DEF storage_get, Idle
    <3> QED BY <3>1, <3>2
            DEF Foresees, SoundWhen, Sound, Present, PresentIn
  <2>2. CASE ~ \E k \in Protected : storage_get(k)
    BY <2>2
    DEF VerifyWrong, VerifyLast, WipeDevice, CheckAttack, UnlockWipeCode,
        UnlockTooMany, storage_wipe
  <2> QED BY <2>1, <2>2
<1>3. losses = 0 => pc # "check" /\ ret' # "refault" /\ ~UsedUp(store)
  <2> SUFFICES ASSUME losses = 0
               PROVE  pc # "check" /\ ret' # "refault" /\ ~UsedUp(store)
    OBVIOUS
  <2>1. ~CheckAttack
    BY NoFaultNow
  <2>2. ret # "refault"
    BY DEF HInv, Foresees, HealthyWhen
  <2>3. ~UsedUp(store)
    BY <2>1, CountedNotUsedUp
    DEF VerifyWrong, VerifyLast, Verify, WipeDevice, UnlockWipeCode,
        UnlockTooMany, storage_get, Idle, UsedUp
  <2> QED BY <2>1, <2>2, <2>3
          DEF VerifyWrong, VerifyLast, Verify, WipeDevice, UnlockWipeCode,
              UnlockTooMany, storage_wipe, storage_get, Idle
<1> QED BY <1>1, <1>2, <1>3, HealthQuiet

(* Booting and locking.                                                    *)
LEMMA HealthLock ==
  ASSUME IInv, HInv, IInv', storage_init_lock \/ storage_lock \/ storage_init
  PROVE  HInv'
<1>1. /\ todo = <<>> /\ todo' = <<>> /\ pc' = "idle"
      /\ pc \in {"lock", "idle", "boot"} /\ unlocked' = FALSE
      /\ UNCHANGED <<store, nver, losses, ret>>
  BY DEF storage_init_lock, storage_lock, Lock, storage_init, Idle, HInv,
         BootOK, flashVars, ramVars, IInv, RamOK
<1>2. Foresees(store)
  BY <1>1, NothingToWrite
<1>3. nver = NORCOW_VERSION /\ (pc = "boot" => store["EDEK_PVC"] # MISSING)
  BY <1>1 DEF HInv, BootOK, storage_init, storage_init_lock, storage_lock, Idle
<1>4. store # FreshStore \/ pc # "boot"
  BY <1>3, EdekEntry DEF FreshStore
<1>5. BootOK' /\ SoundWhen(store)'
  BY <1>1, <1>3 DEF BootOK, SoundWhen
<1>6. HealthyWhen(store)'
  BY <1>1, <1>2, <1>4 DEF Foresees, HealthyWhen, UsedUp
<1> QED BY <1>1, <1>5, <1>6, StillNothingToWrite

LEMMA HealthUpgrade ==
  ASSUME IInv, HInv, IInv', storage_upgrade \/ UpgradeCutShort
  PROVE  HInv'
<1>1. /\ todo = <<>> /\ todo' = <<>> /\ pc = "boot" /\ pc' = "boot"
      /\ unlocked = FALSE /\ unlocked' = FALSE
      /\ nver < NORCOW_VERSION /\ nver' = NORCOW_VERSION
  BY DEF storage_upgrade, UpgradeCutShort, HInv, BootOK, ramVars, IInv, RamOK
<1>2. BootOK' /\ SoundWhen(store)'
  BY <1>1 DEF BootOK, SoundWhen
<1>3. HealthyWhen(store)'
  <2>1. CASE UpgradeCutShort
    <3>1. losses' # 0
      BY <2>1 DEF UpgradeCutShort, LossLeaves, IInv, RamOK
    <3> QED BY <3>1 DEF HealthyWhen
  <2>2. CASE storage_upgrade /\ losses = 0
    <3>1. /\ store' = Put(store, "STORAGE_UPGRADED", TRUE)
          /\ ret' = ret /\ losses' = 0
      BY <2>2 DEF storage_upgrade, Flagged, Put, ramVars
    <3>2. Foresees(store)
      BY <1>1, NothingToWrite
    <3>3. nver \in Nat /\ NORCOW_VERSION \in Nat
      BY VersionsAreNat, StorageAssumption DEF IInv, RamOK
    <3>4. Healthy(store, nver, store["VERSION"].ver)
      BY <1>1, <2>2, <3>2, <3>3 DEF Foresees, HealthyWhen, UsedUp
    <3>5. /\ store'["STORAGE_UPGRADED"] = TRUE
          /\ \A k \in Keys : k # "STORAGE_UPGRADED" => store'[k] = store[k]
      <4> DEFINE yes == TRUE
      <4>1. "STORAGE_UPGRADED" \in Keys /\ IsStore(store)
        BY FlagEntry, StoreIs
      <4>2. Put(store, "STORAGE_UPGRADED", yes)["STORAGE_UPGRADED"] = yes
            /\ \A k \in Keys : k # "STORAGE_UPGRADED"
                 => Put(store, "STORAGE_UPGRADED", yes)[k] = store[k]
        <5> HIDE DEF yes
        <5> QED BY <4>1, PutIs
      <4> QED BY <3>1, <4>2
    <3>6. /\ store'["EDEK_PVC"] = store["EDEK_PVC"]
          /\ store'["STORAGE_TAG"] = store["STORAGE_TAG"]
          /\ store'["VERSION"] = store["VERSION"]
          /\ store'["WIPE_CODE_DATA"] = store["WIPE_CODE_DATA"]
          /\ store'["UNAUTH_VERSION"] = store["UNAUTH_VERSION"]
          /\ store'["PIN_NOT_SET"] = store["PIN_NOT_SET"]
          /\ store'["PIN_LOGS"] = store["PIN_LOGS"]
          /\ \A k \in Protected : store'[k] = store[k]
      BY <3>5, KeysApart DEF PrivateKeys
    <3>7. PresentIn(store') = PresentIn(store)
      BY <3>6 DEF PresentIn
    <3>8. Fitting(store')
      BY <3>4, <3>6, <3>7 DEF Healthy, Fitting, PresentIn
    <3>9. FlagFits(store')
      BY <3>4, <3>6 DEF Healthy, FlagFits
    <3>10. store["VERSION"].ver \in Nat
      BY <3>4, VersionsAreNat DEF Healthy, Fitting
    <3>11. store["VERSION"].ver < NORCOW_VERSION
      BY <1>1, <3>3, <3>4, <3>10 DEF Healthy, VersionFits
    <3>12. VersionFits(store', nver', store'["VERSION"].ver)
      BY <1>1, <3>4, <3>5, <3>6, <3>11 DEF Healthy, VersionFits
    <3>13. ret' # "refault"
      BY <2>2, <3>1, <3>2 DEF Foresees, HealthyWhen
    <3> QED BY <1>1, <3>8, <3>9, <3>12, <3>13 DEF HealthyWhen, Healthy
  <2>3. CASE storage_upgrade /\ losses # 0
    BY <2>3 DEF storage_upgrade, HealthyWhen
  <2> QED BY <2>1, <2>2, <2>3
<1> QED BY <1>1, <1>2, <1>3, StillNothingToWrite

(* The attempt is counted; the count can still be represented, or the log  *)
(* is used up.                                                             *)
LEMMA HealthTry ==
  ASSUME IInv, HInv, IInv', NEW c \in Calls, UnlockTry(c)
  PROVE  HInv'
<1>1. /\ todo = <<>> /\ pc = "idle" /\ pc' = "verify" /\ store' = store
      /\ ctr' = store["PIN_LOGS"]
      /\ UNCHANGED <<nver, unlocked, keys, asum, ret, losses>>
  BY DEF UnlockTry, Idle, flashVars
<1>2. Foresees(store) /\ nver = NORCOW_VERSION
  BY <1>1, NothingToWrite DEF HInv, BootOK
<1>3. store["PIN_LOGS"] + 1 \in 0..LOG_LIMIT
      /\ store["PIN_LOGS"] < PIN_MAX_TRIES
  BY CountRead, StorageAssumption DEF UnlockTry, IInv, TooMany
<1>4. PICK n : /\ Outcome(todo', store', Put(store, "PIN_LOGS", n))
               /\ \/ n = ctr' + 1
                  \/ n = EXHAUSTED /\ ctr' + 1 = PIN_MAX_TRIES
  <2>1. IsStore(store) /\ "PIN_LOGS" \in Keys
    BY StoreIs, PinLogsEntry
  <2>2. CASE todo' = pin_fails_increase
    BY <1>1, <2>1, <2>2, SetOutcome DEF pin_fails_increase
  <2>3. CASE todo' = pin_log_used_up /\ MayUseUpLog
    <3>1. ctr' + 1 = PIN_MAX_TRIES
      BY <1>1, <1>3, <2>3, CountRead, StorageAssumption
      DEF MayUseUpLog, UnlockTry, IInv
    <3>2. Outcome(todo', store', Put(store, "PIN_LOGS", TORN))
      BY <1>1, <2>1, <2>3, TornOutcome DEF pin_log_used_up, EXHAUSTED
    <3> QED BY <3>1, <3>2 DEF EXHAUSTED
  <2> QED BY <2>2, <2>3 DEF UnlockTry, Increases
<1> PICK a : a = Put(store, "PIN_LOGS", n)
  OBVIOUS
<1>5. /\ IsStore(a) /\ a["PIN_LOGS"] = n /\ a["VERSION"] = store["VERSION"]
      /\ Outcome(todo', store', a)
  BY <1>4, StoreIs, PinLogsEntry, VersionEntry, PutIs
<1>6. SoundWhen(a)'
  BY <1>1, <1>2, StoreIs, CountChanged DEF Foresees, SoundWhen
<1>7. HealthyWhen(a)'
  <2> SUFFICES ASSUME losses = 0 PROVE HealthyWhen(a)'
    BY <1>1 DEF HealthyWhen
  <2>1. Healthy(store, nver, store["VERSION"].ver) /\ ret # "refault"
    BY <1>1, <1>2 DEF Foresees, HealthyWhen, UsedUp
  <2>2. CASE n = ctr' + 1
    <3>1. Healthy(a, nver, a["VERSION"].ver)
      BY <1>1, <1>3, <1>5, <2>1, <2>2, StoreIs, CountChanged
    <3> QED BY <1>1, <1>5, <2>1, <2>2, <3>1 DEF HealthyWhen
  <2>3. CASE n = EXHAUSTED /\ ctr' + 1 = PIN_MAX_TRIES
    BY <1>1, <1>5, <2>1, <2>3 DEF HealthyWhen, UsedUp
  <2> QED BY <1>4, <2>2, <2>3
<1>8. BootOK'
  BY <1>1, <1>2 DEF BootOK
<1>9. Foresees(a)'
  BY <1>5, <1>6, <1>7 DEF Foresees
<1> QED BY <1>8, <1>9 DEF HInv

LEMMA HealthOpen ==
  ASSUME IInv, HInv, IInv', Open
  PROVE  HInv'
<1>1. /\ todo = <<>> /\ pc = "open" /\ pc' = "done" /\ store' = store
      /\ todo' = norcow_set("PIN_LOGS", 0)
      /\ UNCHANGED <<nver, keys, asum, call, ret, losses>>
  BY DEF Open, pin_fails_reset, flashVars
<1>2. Foresees(store) /\ nver = NORCOW_VERSION
  BY <1>1, NothingToWrite DEF HInv, BootOK
<1> PICK a : a = Put(store, "PIN_LOGS", 0)
  OBVIOUS
<1>3. /\ IsStore(a) /\ a["EDEK_PVC"] = store["EDEK_PVC"]
      /\ Outcome(todo', store', a) /\ a["VERSION"] = store["VERSION"]
  BY <1>1, StoreIs, PinLogsEntry, VersionEntry, EdekEntry, PutIs, SetOutcome
<1>4. SoundWhen(a)'
  BY <1>1, <1>2, <1>3, StoreIs, CountChanged DEF Foresees, SoundWhen
<1>5. HealthyWhen(a)'
  <2> SUFFICES ASSUME losses = 0 PROVE HealthyWhen(a)'
    BY <1>1 DEF HealthyWhen
  <2>1. /\ Healthy(store, nver, store["VERSION"].ver)
        /\ ret # "refault"
        /\ store["VERSION"].ver = NORCOW_VERSION
    BY <1>1, <1>2 DEF Foresees, HealthyWhen, UsedUp
  <2>2. Healthy(a, nver, a["VERSION"].ver)
    BY <1>3, <2>1, StoreIs, CountChanged, StorageAssumption
  <2> QED BY <1>1, <1>3, <2>1, <2>2 DEF HealthyWhen
<1>6. BootOK'
  BY <1>1, <1>2 DEF BootOK
<1>7. Foresees(a)'
  BY <1>3, <1>4, <1>5 DEF Foresees
<1> QED BY <1>6, <1>7 DEF HInv

(* The right PIN: the tag was checked with the keys of the EDEK, and a new *)
(* EDEK has the same keys.                                                 *)
LEMMA HealthRight ==
  ASSUME IInv, HInv, IInv', VerifyRight
  PROVE  HInv'
<1> DEFINE d == store["EDEK_PVC"].dek
<1>1. /\ todo = <<>> /\ pc = "verify" /\ pc' = "check" /\ store' = store
      /\ keys' = d /\ asum' = PresentIn(store)
      /\ store["EDEK_PVC"] \notin Gone /\ store["EDEK_PVC"].pin = call.pin
      /\ VersionReadable(d) /\ ~UsedUp(store)
      /\ UNCHANGED <<nver, unlocked, call, ret, losses>>
  BY CountedNotUsedUp
  DEF VerifyRight, Verify, PinOpens, Whole, Present, PresentIn, Gone, flashVars
<1>2. todo' = IF store["VERSION"].ver <= 4 THEN set_pin(call.pin, d) ELSE <<>>
  BY DEF VerifyRight
<1>3. d \in DEKS /\ call.pin \in AnyPin
  BY <1>1, EdekRead DEF IInv, Whole, Gone
<1>4. Foresees(store) /\ nver = NORCOW_VERSION
  BY <1>1, NothingToWrite DEF HInv, BootOK
<1>5. Sound(store, d, PresentIn(store))
  BY <1>1
  DEF Sound, VersionReadable, Decrypts, TagGood, Present, PresentIn
<1>6. losses = 0 => /\ Healthy(store, nver, store["VERSION"].ver)
                    /\ ret # "refault"
  BY <1>1, <1>4 DEF Foresees, HealthyWhen
<1>7. BootOK'
  BY <1>1, <1>4 DEF BootOK
<1>8. CASE store["VERSION"].ver <= 4
  <2>1. PICK a : /\ IsStore(a) /\ Outcome(set_pin(call.pin, d), store, a)
                 /\ PinChanged(store, a, call.pin, d)
    BY <1>3, StoreIs, SetPinOutcome
  <2>6. d = store["EDEK_PVC"].dek
    OBVIOUS
  <2> HIDE DEF d
  <2>2. /\ a["EDEK_PVC"].pin = call.pin
        /\ Sound(a, d, PresentIn(store))
        /\ losses = 0 => Healthy(a, nver, NORCOW_VERSION)
    <3>1. /\ a["EDEK_PVC"].pin = call.pin
          /\ \A S : Sound(store, d, S) => Sound(a, d, S)
          /\ \A n, e : Healthy(store, n, e) => Healthy(a, n, NORCOW_VERSION)
      BY <1>3, <2>1, <2>6, PinChangeKeeps
    <3> QED BY <1>5, <1>6, <3>1
  <2>3. SoundWhen(a)'
    BY <1>1, <2>2 DEF SoundWhen
  <2>4. HealthyWhen(a)'
    BY <1>1, <1>6, <2>2 DEF HealthyWhen
  <2>5. Foresees(a)'
    BY <1>1, <1>2, <1>8, <2>1, <2>3, <2>4 DEF Foresees
  <2> QED BY <1>7, <2>5 DEF HInv
<1>9. CASE ~(store["VERSION"].ver <= 4)
  <2>1. todo' = <<>>
    BY <1>2, <1>9
  <2>2. SoundWhen(store)'
    BY <1>1, <1>5 DEF SoundWhen
  <2>3. ASSUME losses = 0 PROVE Healthy(store, nver, NORCOW_VERSION)
    <3>1. store["VERSION"].ver \in Nat
          /\ store["VERSION"].ver <= NORCOW_VERSION
      BY <1>6, <2>3, VersionsAreNat DEF Healthy, Fitting
    <3>2. KdfScheme(store["VERSION"].ver) = KdfScheme(NORCOW_VERSION)
      BY <1>9, <3>1, StorageAssumption DEF KdfScheme
    <3> QED BY <1>6, <2>3, <3>2 DEF Healthy, VersionFits
  <2>4. HealthyWhen(store)'
    BY <1>1, <1>6, <2>3 DEF HealthyWhen
  <2> QED BY <1>7, <2>1, <2>2, <2>4, StillNothingToWrite
<1> QED BY <1>8, <1>9

(* check_storage_version passes, or brings the version up to date.         *)
LEMMA HealthCheck ==
  ASSUME IInv, HInv, IInv', CheckUpgraded \/ CheckUnchanged
  PROVE  HInv'
<1>1. /\ todo = <<>> /\ pc = "check" /\ pc' = "open" /\ store' = store
      /\ UNCHANGED <<nver, unlocked, keys, asum, call, ret, losses>>
  BY DEF CheckUpgraded, CheckUnchanged, Check, flashVars, ramVars
<1>2. Foresees(store) /\ nver = NORCOW_VERSION /\ keys \in DEKS
  BY <1>1, NothingToWrite DEF HInv, BootOK, IInv, CallOK
<1>3. /\ Sound(store, keys, asum) /\ store["EDEK_PVC"].pin = call.pin
      /\ losses = 0 => /\ Healthy(store, nver, NORCOW_VERSION)
                       /\ ret # "refault"
  BY <1>1, <1>2 DEF Foresees, SoundWhen, HealthyWhen, UsedUp
<1>4. BootOK'
  BY <1>1, <1>2 DEF BootOK
<1>5. CASE CheckUnchanged
  <2>1. todo' = <<>> /\ store["VERSION"].ver = NORCOW_VERSION
    BY <1>1, <1>2, <1>5 DEF CheckUnchanged, Unchanged
  <2>2. SoundWhen(store)' /\ HealthyWhen(store)'
    BY <1>1, <1>2, <1>3, <2>1 DEF SoundWhen, HealthyWhen
  <2> QED BY <1>4, <2>1, <2>2, StillNothingToWrite
<1>6. CASE CheckUpgraded
  <2>1. todo' = WriteVersion(nver, keys) /\ nver \in Versions
    BY <1>6 DEF CheckUpgraded, IInv, RamOK
  <2>2. PICK a : /\ IsStore(a) /\ Outcome(WriteVersion(nver, keys), store, a)
                 /\ VersionWritten(store, a, nver, keys)
    BY <1>2, <2>1, StoreIs, VersionOutcome
  <2>3. /\ a["EDEK_PVC"] = store["EDEK_PVC"]
        /\ a["STORAGE_TAG"] = store["STORAGE_TAG"]
        /\ a["WIPE_CODE_DATA"] = store["WIPE_CODE_DATA"]
        /\ a["PIN_NOT_SET"] = store["PIN_NOT_SET"]
        /\ a["PIN_LOGS"] = store["PIN_LOGS"]
        /\ \A k \in Protected : a[k] = store[k]
    BY <2>2, KeysApart DEF VersionWritten, PrivateKeys
  <2>4. /\ a["VERSION"] = [ver |-> NORCOW_VERSION, dek |-> keys]
        /\ a["UNAUTH_VERSION"] = NORCOW_VERSION
        /\ a["STORAGE_UPGRADED"] = FALSE
    BY <1>2, <2>2 DEF VersionWritten
  <2>5. SoundWhen(a)'
    BY <1>1, <1>3, <2>3, SoundSame DEF SoundWhen
  <2>6. ASSUME losses = 0 PROVE Healthy(a, nver, a["VERSION"].ver)
    <3>1. PresentIn(a) = PresentIn(store)
      BY <2>3 DEF PresentIn
    <3>2. Fitting(store) /\ FlagFits(store)
          /\ KdfScheme(store["EDEK_PVC"].ver) = KdfScheme(NORCOW_VERSION)
      BY <1>3, <2>6 DEF Healthy, VersionFits
    <3>3. a["VERSION"] \in [ver : Versions, dek : DEKS]
          /\ a["VERSION"].dek = a["EDEK_PVC"].dek
      BY <1>2, <1>3, <2>3, <2>4 DEF Versions, Sound
    <3>4. \A k \in PresentIn(a) : a[k] = store[k]
      BY <2>3 DEF PresentIn
    <3>5. Fitting(a)
      BY <2>3, <3>1, <3>2, <3>3, <3>4 DEF Fitting
    <3>6. FlagFits(a)
      BY <2>3, <3>2 DEF FlagFits
    <3>7. VersionFits(a, nver, a["VERSION"].ver)
      BY <1>2, <2>3, <2>4, <3>2 DEF VersionFits
    <3> QED BY <3>5, <3>6, <3>7 DEF Healthy
  <2>7. HealthyWhen(a)'
    BY <1>1, <1>3, <2>4, <2>6 DEF HealthyWhen
  <2>8. Foresees(a)'
    BY <1>1, <2>1, <2>2, <2>5, <2>7 DEF Foresees
  <2> QED BY <1>4, <2>8 DEF HInv
<1> QED BY <1>5, <1>6

(* The PIN or the wipe code is changed.                                    *)
LEMMA HealthDone ==
  ASSUME IInv, HInv, IInv', Done
  PROVE  HInv'
<1>1. /\ todo = <<>> /\ pc = "done" /\ pc' = "idle" /\ store' = store
      /\ UNCHANGED <<nver, unlocked, keys, asum, ret, losses>>
  BY DEF Done, flashVars
<1>2. /\ Foresees(store) /\ nver = NORCOW_VERSION
      /\ keys \in DEKS /\ call \in Calls
  BY <1>1, NothingToWrite DEF HInv, BootOK, IInv, CallOK
<1>3. /\ Sound(store, keys, asum)
      /\ losses = 0 => /\ Healthy(store, nver, store["VERSION"].ver)
                       /\ store["VERSION"].ver = NORCOW_VERSION
                       /\ ret # "refault"
  BY <1>1, <1>2 DEF Foresees, SoundWhen, HealthyWhen, UsedUp
<1>4. BootOK'
  BY <1>1, <1>2 DEF BootOK
<1>5. CASE todo' = <<>>
  <2>1. SoundWhen(store)' /\ HealthyWhen(store)'
    BY <1>1, <1>3 DEF SoundWhen, HealthyWhen
  <2> QED BY <1>4, <1>5, <2>1, StillNothingToWrite
<1>6. CASE call.op = "change_pin" /\ is_not_wipe_code(call.new)
  <2>1. call.new \in AnyPin
    BY <1>2, <1>6 DEF Calls
  <2>2. todo' = set_pin(call.new, keys)
    BY <1>6 DEF Done
  <2>3. PICK a : /\ IsStore(a) /\ Outcome(set_pin(call.new, keys), store, a)
                 /\ PinChanged(store, a, call.new, keys)
    BY <1>2, <2>1, StoreIs, SetPinOutcome
  <2>4. store["EDEK_PVC"].dek = keys
    BY <1>3 DEF Sound
  <2>5. /\ Sound(a, keys, asum) /\ a["VERSION"] = store["VERSION"]
        /\ losses = 0 => Healthy(a, nver, NORCOW_VERSION)
    <3>1. /\ a["VERSION"] = store["VERSION"]
          /\ \A S : Sound(store, keys, S) => Sound(a, keys, S)
          /\ \A n, e : Healthy(store, n, e) => Healthy(a, n, NORCOW_VERSION)
      BY <1>2, <2>1, <2>3, <2>4, PinChangeKeeps
    <3> QED BY <1>3, <3>1
  <2>6. SoundWhen(a)'
    BY <1>1, <2>5 DEF SoundWhen
  <2>7. HealthyWhen(a)'
    BY <1>1, <1>3, <2>5 DEF HealthyWhen
  <2>8. Foresees(a)'
    BY <1>1, <2>2, <2>3, <2>6, <2>7 DEF Foresees
  <2> QED BY <1>4, <2>8 DEF HInv
<1>7. CASE call.op = "change_wipe_code"
  <2>1. todo' = norcow_set("WIPE_CODE_DATA", WipeCode(call.new))
    BY <1>7 DEF Done
  <2>2. WipeCode(call.new) \in AnyWipeCode
    BY <1>2, <1>7 DEF Calls, WipeCode, AnyPin, AnyWipeCode
  <2> PICK w : w = WipeCode(call.new)
    OBVIOUS
  <2> PICK a : a = Put(store, "WIPE_CODE_DATA", w)
    OBVIOUS
  <2>3. w \notin Gone
    BY <2>2, WholeIs
  <2>4. /\ IsStore(a) /\ Outcome(todo', store', a)
        /\ a["WIPE_CODE_DATA"] = w
        /\ \A k \in Keys : k # "WIPE_CODE_DATA" => a[k] = store[k]
    BY <1>1, <2>1, StoreIs, WipeCodeEntry, PutIs, SetOutcome
  <2>5. /\ a["EDEK_PVC"] = store["EDEK_PVC"]
        /\ a["STORAGE_TAG"] = store["STORAGE_TAG"]
        /\ a["VERSION"] = store["VERSION"]
        /\ a["UNAUTH_VERSION"] = store["UNAUTH_VERSION"]
        /\ a["STORAGE_UPGRADED"] = store["STORAGE_UPGRADED"]
        /\ a["PIN_NOT_SET"] = store["PIN_NOT_SET"]
        /\ a["PIN_LOGS"] = store["PIN_LOGS"]
        /\ \A k \in Protected : a[k] = store[k]
    BY <2>4, KeysApart DEF PrivateKeys
  <2>6. SoundWhen(a)'
    BY <1>1, <1>3, <2>5, SoundSame DEF SoundWhen
  <2>7. ASSUME losses = 0 PROVE Healthy(a, nver, a["VERSION"].ver)
    <3>1. PresentIn(a) = PresentIn(store)
          /\ \A k \in PresentIn(a) : a[k] = store[k]
      BY <2>5 DEF PresentIn
    <3>2. Fitting(a)
      BY <1>3, <2>3, <2>4, <2>5, <2>7, <3>1 DEF Healthy, Fitting
    <3>3. FlagFits(a)
      BY <1>3, <2>5, <2>7 DEF Healthy, FlagFits
    <3>4. VersionFits(a, nver, a["VERSION"].ver)
      BY <1>3, <2>5, <2>7 DEF Healthy, VersionFits
    <3> QED BY <3>2, <3>3, <3>4 DEF Healthy
  <2>8. HealthyWhen(a)'
    BY <1>1, <1>3, <2>7 DEF HealthyWhen
  <2>9. Foresees(a)'
    BY <2>4, <2>6, <2>8 DEF Foresees
  <2> QED BY <1>4, <2>9 DEF HInv
<1> QED BY <1>1, <1>2, <1>5, <1>6, <1>7 DEF Done, Calls

(* An application's entry that no tag protects.                            *)
LEMMA UnprotectedKeeps ==
  ASSUME NEW f, IsStore(f), NEW k \in AppKeys, k \notin Protected, NEW v
  PROVE  LET a == Put(f, k, v) IN
         /\ IsStore(a) /\ a["VERSION"] = f["VERSION"]
         /\ \A d, S : Sound(f, d, S) => Sound(a, d, S)
         /\ \A n, e : Healthy(f, n, e) => Healthy(a, n, e)
<1> DEFINE a == Put(f, k, v)
<1>1. /\ k \in Keys /\ k \notin PrivateKeys /\ k \notin Protected
      /\ Protected \subseteq Keys /\ PrivateKeys \subseteq Keys
  BY KeysApart
<1>2. IsStore(a) /\ \A j \in Keys : j # k => a[j] = f[j]
  BY <1>1, PutIs
<1> HIDE DEF a
<1>3. /\ a["EDEK_PVC"] = f["EDEK_PVC"] /\ a["STORAGE_TAG"] = f["STORAGE_TAG"]
      /\ a["VERSION"] = f["VERSION"] /\ a["WIPE_CODE_DATA"] = f["WIPE_CODE_DATA"]
      /\ a["UNAUTH_VERSION"] = f["UNAUTH_VERSION"]
      /\ a["STORAGE_UPGRADED"] = f["STORAGE_UPGRADED"]
      /\ a["PIN_NOT_SET"] = f["PIN_NOT_SET"] /\ a["PIN_LOGS"] = f["PIN_LOGS"]
      /\ \A j \in Protected : a[j] = f[j]
  BY <1>1, <1>2 DEF PrivateKeys
<1>4. PresentIn(a) = PresentIn(f) /\ \A j \in PresentIn(a) : a[j] = f[j]
  BY <1>3 DEF PresentIn
<1>5. Fitting(f) => Fitting(a)
  BY <1>3, <1>4 DEF Fitting
<1>6. FlagFits(f) => FlagFits(a)
  BY <1>3 DEF FlagFits
<1>7. \A n, e : VersionFits(f, n, e) => VersionFits(a, n, e)
  BY <1>3 DEF VersionFits
<1>8. \A d, S : Sound(f, d, S) => Sound(a, d, S)
  BY <1>3, SoundSame
<1>9. \A n, e : Healthy(f, n, e) => Healthy(a, n, e)
  BY <1>5, <1>6, <1>7 DEF Healthy
<1> QED BY <1>2, <1>3, <1>8, <1>9 DEF a

(* A protected entry comes or goes together with its place in the tag.     *)
LEMMA ReenteredKeeps ==
  ASSUME NEW f, NEW a, NEW k \in Protected, NEW v, NEW d, NEW S,
         Reentered(f, a, k, v, [dek |-> d, sum |-> PresentIn(a)]),
         f["EDEK_PVC"] \notin Gone, f["EDEK_PVC"].dek = d, S = PresentIn(a),
         v = MISSING \/ (v \notin Gone /\ v.dek = d)
  PROVE  /\ Sound(a, d, S) /\ a["VERSION"] = f["VERSION"]
         /\ \A n, e : Healthy(f, n, e) => Healthy(a, n, e)
<1>1. /\ k \in Keys /\ k \notin PrivateKeys
      /\ Protected \subseteq Keys /\ PrivateKeys \subseteq Keys
      /\ \A j \in Protected : j # "STORAGE_TAG"
  BY KeysApart DEF PrivateKeys
<1>2. /\ a[k] = v /\ a["STORAGE_TAG"] = [dek |-> d, sum |-> PresentIn(a)]
      /\ \A j \in Keys : j \notin {k, "STORAGE_TAG"} => a[j] = f[j]
  BY DEF Reentered
<1>3. /\ a["EDEK_PVC"] = f["EDEK_PVC"]
      /\ a["VERSION"] = f["VERSION"] /\ a["WIPE_CODE_DATA"] = f["WIPE_CODE_DATA"]
      /\ a["UNAUTH_VERSION"] = f["UNAUTH_VERSION"]
      /\ a["STORAGE_UPGRADED"] = f["STORAGE_UPGRADED"]
      /\ a["PIN_NOT_SET"] = f["PIN_NOT_SET"] /\ a["PIN_LOGS"] = f["PIN_LOGS"]
      /\ \A j \in Protected : j # k => a[j] = f[j]
  BY <1>1, <1>2 DEF PrivateKeys
<1>4. Sound(a, d, S)
  BY <1>2, <1>3 DEF Sound
<1>5. ASSUME Fitting(f) PROVE Fitting(a)
  <2>1. ASSUME NEW j \in PresentIn(a)
        PROVE  a[j] # TORN /\ a[j].dek = a["EDEK_PVC"].dek
    <3>1. CASE j = k
      BY <1>2, <1>3, <2>1, <3>1 DEF PresentIn, Gone
    <3>2. CASE j # k
      BY <1>3, <1>5, <2>1, <3>2 DEF PresentIn, Fitting
    <3> QED BY <3>1, <3>2
  <2> QED BY <1>2, <1>3, <1>5, <2>1 DEF Fitting
<1>6. FlagFits(f) => FlagFits(a)
  BY <1>3 DEF FlagFits
<1>7. \A n, e : VersionFits(f, n, e) => VersionFits(a, n, e)
  BY <1>3 DEF VersionFits
<1>8. \A n, e : Healthy(f, n, e) => Healthy(a, n, e)
  BY <1>5, <1>6, <1>7 DEF Healthy
<1> QED BY <1>3, <1>4, <1>8

LEMMA HealthApp ==
  ASSUME IInv, HInv, IInv', NEW k \in AppKeys,
         (\E v \in Vals : storage_set(k, v)) \/ storage_delete(k)
  PROVE  HInv'
<1>1. /\ todo = <<>> /\ pc = "idle" /\ pc' = "idle" /\ store' = store
      /\ unlocked \/ k \in Writable
      /\ UNCHANGED <<nver, unlocked, keys, ret, losses>>
  BY DEF storage_set, storage_delete, Idle, flashVars
<1>2. Foresees(store) /\ nver = NORCOW_VERSION
  BY <1>1, NothingToWrite DEF HInv, BootOK
<1>3. BootOK'
  BY <1>1, <1>2 DEF BootOK
<1>4. /\ unlocked => Sound(store, keys, asum)
      /\ losses = 0 => /\ Healthy(store, nver, store["VERSION"].ver)
                       /\ ret # "refault"
  BY <1>1, <1>2 DEF Foresees, SoundWhen, HealthyWhen, UsedUp
<1>5. SUFFICES
        \E a : /\ IsStore(a) /\ Outcome(todo', store, a)
               /\ a["VERSION"] = store["VERSION"]
               /\ unlocked => Sound(a, keys, asum')
               /\ \A n, e : Healthy(store, n, e) => Healthy(a, n, e)
  <2>1. PICK a : /\ IsStore(a) /\ Outcome(todo', store, a)
                 /\ a["VERSION"] = store["VERSION"]
                 /\ unlocked => Sound(a, keys, asum')
                 /\ \A n, e : Healthy(store, n, e) => Healthy(a, n, e)
    BY <1>5
  <2>2. SoundWhen(a)'
    BY <1>1, <2>1 DEF SoundWhen
  <2>3. HealthyWhen(a)'
    BY <1>1, <1>4, <2>1 DEF HealthyWhen
  <2>4. Foresees(a)'
    BY <1>1, <2>1, <2>2, <2>3 DEF Foresees
  <2> QED BY <1>3, <2>4 DEF HInv
<1>6. CASE k \notin Protected
  <2>1. asum' = asum
    BY <1>6 DEF storage_set, storage_delete
  <2>2. PICK v : \/ todo' = norcow_set(k, v)
                 \/ todo' = <<W(k, v)>>
    BY <1>6 DEF storage_set, storage_delete
  <2>3. k \in Keys
    BY KeysApart
  <2>4. Outcome(todo', store, Put(store, k, v))
    BY <2>2, <2>3, StoreIs, SetOutcome, OutcomeOfWrite DEF Put
  <2>5. /\ IsStore(Put(store, k, v))
        /\ Put(store, k, v)["VERSION"] = store["VERSION"]
        /\ \A d, S : Sound(store, d, S) => Sound(Put(store, k, v), d, S)
        /\ \A n, e : Healthy(store, n, e) => Healthy(Put(store, k, v), n, e)
    BY <1>6, StoreIs, UnprotectedKeeps
  <2> QED BY <1>4, <2>1, <2>4, <2>5
<1>7. CASE k \in Protected
  <2>1. unlocked /\ keys \in DEKS /\ asum \subseteq Protected
    BY <1>1, <1>7, StorageAssumption DEF IInv, CallOK, RamOK
  <2>2. /\ store["EDEK_PVC"] \notin Gone /\ store["EDEK_PVC"].dek = keys
        /\ store["STORAGE_TAG"] = [dek |-> keys, sum |-> PresentIn(store)]
        /\ asum = PresentIn(store)
    BY <1>4, <2>1 DEF Sound
  <2>3. k \in Keys /\ Protected \subseteq Keys /\ k # "STORAGE_TAG"
        /\ \A j \in Protected : j # "STORAGE_TAG"
    BY <1>7, KeysApart DEF PrivateKeys
  <2>4. CASE \E v \in Vals : storage_set(k, v)
    <3>1. PICK v \in Vals : storage_set(k, v)
      BY <2>4
    <3> DEFINE g == IF store[k] = MISSING THEN NewTag(k)
                    ELSE store["STORAGE_TAG"]
    <3> PICK w : w = [val |-> v, dek |-> keys]
      OBVIOUS
    <3>2. todo' = storage_set_encrypted(k, v)
          /\ asum' = IF store[k] = MISSING THEN SymDiff(asum, {k}) ELSE asum
      BY <1>7, <3>1 DEF storage_set
    <3>3. w \notin Gone /\ w.dek = keys
      BY <1>7, <2>1, WholeIs
    <3>4. PICK a : /\ IsStore(a) /\ Outcome(todo', store, a)
                   /\ Reentered(store, a, k, w, g)
      BY <1>7, <2>1, <3>2, StoreIs, SetEncryptedOutcome
    <3>5. PresentIn(a) = PresentIn(store) \cup {k}
      BY <1>7, <2>3, <3>3, <3>4 DEF PresentIn, Reentered, Gone
    <3>6. asum' = PresentIn(a) /\ g = [dek |-> keys, sum |-> PresentIn(a)]
      <4>1. CASE store[k] = MISSING
        <5>1. SymDiff(asum, {k}) = PresentIn(a)
          BY <2>2, <3>5, <4>1 DEF SymDiff, PresentIn
        <5> QED BY <3>2, <4>1, <5>1 DEF NewTag
      <4>2. CASE store[k] # MISSING
        <5>1. PresentIn(a) = PresentIn(store)
          BY <1>7, <3>5, <4>2 DEF PresentIn
        <5> QED BY <2>2, <3>2, <4>2, <5>1
      <4> QED BY <4>1, <4>2
    <3> HIDE DEF g
    <3>7. Reentered(store, a, k, w, [dek |-> keys, sum |-> PresentIn(a)])
      BY <3>4, <3>6
    <3>8. /\ Sound(a, keys, asum') /\ a["VERSION"] = store["VERSION"]
          /\ \A n, e : Healthy(store, n, e) => Healthy(a, n, e)
      BY <1>7, <2>2, <3>3, <3>6, <3>7, ReenteredKeeps
    <3> QED BY <3>4, <3>8
  <2>5. CASE storage_delete(k)
    <3>1. /\ todo' = <<W(k, MISSING)>> \o auth_update(k)
          /\ asum' = SymDiff(asum, {k}) /\ store[k] # MISSING
      BY <1>7, <2>5 DEF storage_delete
    <3>2. PICK a : /\ IsStore(a) /\ Outcome(todo', store, a)
                   /\ Reentered(store, a, k, MISSING, NewTag(k))
      BY <1>7, <2>1, <3>1, StoreIs, DeleteOutcome
    <3>3. PresentIn(a) = PresentIn(store) \ {k}
      BY <1>7, <2>3, <3>2 DEF PresentIn, Reentered
    <3>4. SymDiff(asum, {k}) = PresentIn(a)
      <4>1. k \in PresentIn(store)
        BY <1>7, <3>1 DEF PresentIn
      <4> QED BY <2>2, <3>3, <4>1 DEF SymDiff
    <3>5. Reentered(store, a, k, MISSING,
                    [dek |-> keys, sum |-> PresentIn(a)])
      <4>1. NewTag(k) = [dek |-> keys, sum |-> PresentIn(a)]
        BY <3>4 DEF NewTag
      <4> QED BY <3>2, <4>1
    <3>6. /\ Sound(a, keys, asum') /\ a["VERSION"] = store["VERSION"]
          /\ \A n, e : Healthy(store, n, e) => Healthy(a, n, e)
      <4>1. PICK m : m = MISSING
        OBVIOUS
      <4>2. asum' = PresentIn(a) /\ (m = MISSING \/ (m \notin Gone /\ m.dek = keys))
        BY <3>1, <3>4, <4>1
      <4>3. Reentered(store, a, k, m, [dek |-> keys, sum |-> PresentIn(a)])
        BY <3>5, <4>1
      <4> QED BY <1>7, <2>2, <4>2, <4>3, ReenteredKeeps
    <3> QED BY <3>2, <3>6
  <2> QED BY <2>4, <2>5
<1> QED BY <1>6, <1>7

(* New keys, in an empty flash or over what an old storage left.           *)
LEMMA HealthNew ==
  ASSUME IInv, HInv, IInv', storage_init_new \/ Erase
  PROVE  HInv'
<1>1. PICK d \in DEKS :
        /\ keys' = d /\ todo' = init_wiped_storage(d) /\ asum' = {}
        /\ UNCHANGED <<nver, ret, losses>>
        /\ todo = <<>> /\ nver = NORCOW_VERSION
  BY DEF storage_init_new, Erase, Wiping, flashVars, HInv, BootOK
<1>2. Foresees(store) /\ ret \in {"idle", "halt", "fault", "refault"}
  BY <1>1, NothingToWrite DEF IInv, RamOK
<1>3. losses = 0 => ret \in {"idle", "halt", "fault"}
  BY <1>2 DEF Foresees, HealthyWhen
<1>4. IsStore(store')
  BY DEF IInv, StoreOK, IsStore
<1>5. PICK a : /\ IsStore(a) /\ Outcome(todo', store', a)
               /\ NewlyWritten(store', a, d)
  BY <1>1, <1>4, NewOutcome
<1>6. ASSUME store' = FreshStore
      PROVE  /\ Sound(a, d, {}) /\ Healthy(a, NORCOW_VERSION, a["VERSION"].ver)
             /\ a["VERSION"].ver = NORCOW_VERSION
  <2>1. Sound(a, d, {}) /\ Healthy(a, NORCOW_VERSION, NORCOW_VERSION)
    BY <1>5, <1>6, NewIsHealthy
  <2>2. a["VERSION"].ver = NORCOW_VERSION
    BY <1>5 DEF NewlyWritten
  <2> QED BY <2>1, <2>2
<1>7. CASE storage_init_new
  <2>1. pc = "boot" /\ pc' = "lock" /\ store' = store
        /\ store["EDEK_PVC"] = MISSING
    BY <1>7 DEF storage_init_new, flashVars
  <2>2. BootOK' /\ SoundWhen(a)'
    BY <1>1, <2>1 DEF BootOK, SoundWhen
  <2>3. losses = 0 => store' = FreshStore
    <3>1. \A n, e : ~Healthy(store, n, e)
      BY <2>1, WholeIs DEF Healthy, Fitting, Gone
    <3> QED BY <1>2, <2>1, <3>1 DEF Foresees, HealthyWhen, UsedUp
  <2>4. HealthyWhen(a)'
    BY <1>1, <1>3, <1>6, <2>1, <2>3 DEF HealthyWhen
  <2>5. Foresees(a)'
    BY <1>5, <2>2, <2>4 DEF Foresees
  <2> QED BY <2>2, <2>5 DEF HInv
<1>8. CASE Erase
  <2>1. pc' = ret /\ store' = FreshStore
    BY <1>8 DEF Erase, FreshStore
  <2>2. BootOK'
    BY <1>1, <1>2, <2>1 DEF BootOK
  <2>3. SoundWhen(a)'
    BY <1>1, <1>2, <1>6, <2>1 DEF SoundWhen
  <2>4. HealthyWhen(a)'
    BY <1>1, <1>3, <1>6, <2>1 DEF HealthyWhen
  <2>5. Foresees(a)'
    BY <1>5, <2>3, <2>4 DEF Foresees
  <2> QED BY <2>2, <2>5 DEF HInv
<1> QED BY <1>7, <1>8

(* A write was foreseen; a half-done reset will be written over.           *)
LEMMA HealthFlash ==
  ASSUME IInv, HInv, IInv', FlashWrite \/ PartialReset
  PROVE  HInv'
<1>1. /\ todo # <<>>
      /\ UNCHANGED <<nver, unlocked, keys, asum, ctr, call, ret, pc, losses>>
  BY DEF FlashWrite, PartialReset, ramVars
<1>2. PICK a : Foresees(a)
  BY DEF HInv
<1>3. pc # "boot" /\ nver = NORCOW_VERSION
  BY <1>1 DEF HInv, BootOK
<1>4. BootOK'
  BY <1>1, <1>3 DEF BootOK
<1>5. SoundWhen(a)' /\ HealthyWhen(a)'
  BY <1>1, <1>2, <1>3 DEF Foresees, SoundWhen, HealthyWhen, UsedUp
<1>6. Outcome(todo', store', a)
  <2>1. IsStore(store) /\ Outcome(todo, store, a)
    BY <1>2, StoreIs DEF Foresees
  <2>2. todo \in Seq(GoodWrites(guesses, Covered))
    BY DEF IInv, TodoOK
  <2>3. CASE FlashWrite
    BY <1>1, <2>1, <2>2, <2>3, OutcomeOfTail DEF FlashWrite
  <2>4. CASE PartialReset
    <3>1. PICK c : store' = [store EXCEPT !["PIN_LOGS"] = c]
      BY <2>4 DEF PartialReset
    <3>2. todo' = todo /\ Head(todo) = W("PIN_LOGS", MISSING)
      BY <2>4 DEF PartialReset
    <3>3. 1 \in DOMAIN todo /\ todo[1] = Head(todo)
      BY <1>1, <2>2, HeadTailProperties, LenProperties, EmptySeq
    <3>4. ~Untouched(todo, "PIN_LOGS")
      BY <3>2, <3>3 DEF Untouched, W
    <3> QED BY <2>1, <3>1, <3>2, <3>4, PinLogsEntry, OutcomeOverwrites
  <2> QED BY <2>3, <2>4
<1>7. Foresees(a)'
  BY <1>2, <1>5, <1>6 DEF Foresees
<1> QED BY <1>4, <1>7 DEF HInv

(* A locked storage promises nothing after a power loss.                   *)
LEMMA HealthPower ==
  ASSUME IInv, HInv, IInv',
         \/ PowerCycle \/ PowerLoss \/ PowerLossMoving
         \/ WipeCutBeforeHeader \/ WipeCutAfterHeader
  PROVE  HInv'
<1>1. /\ unlocked' = FALSE /\ pc' = "boot" /\ todo' = <<>> /\ ret' = "idle"
  BY DEF PowerCycle, PowerLoss, PowerLossMoving, WipeCutBeforeHeader,
         WipeCutAfterHeader, Restart
<1>2. BootOK' /\ SoundWhen(store)'
  BY <1>1 DEF BootOK, SoundWhen
<1>3. HealthyWhen(store)'
  <2>1. CASE PowerCycle
    <3>1. todo = <<>> /\ pc \in {"idle", "halt", "fault"}
          /\ store' = store /\ nver' = nver /\ losses' = losses
      BY <2>1 DEF PowerCycle, flashVars
    <3>2. Foresees(store)
      BY <3>1, NothingToWrite
    <3> QED BY <1>1, <3>1, <3>2 DEF Foresees, HealthyWhen, UsedUp
  <2>2. CASE \/ PowerLoss \/ PowerLossMoving
             \/ WipeCutBeforeHeader \/ WipeCutAfterHeader
    <3>1. losses' # 0
      BY <2>2
      DEF PowerLoss, PowerLossMoving, WipeCutBeforeHeader, WipeCutAfterHeader,
          LossLeaves, IInv, RamOK
    <3> QED BY <3>1 DEF HealthyWhen
  <2> QED BY <2>1, <2>2
<1> QED BY <1>1, <1>2, <1>3, StillNothingToWrite

LEMMA NextHealth == IInv /\ HInv /\ [Next]_vars => HInv'
<1> SUFFICES ASSUME IInv, HInv, [Next]_vars PROVE HInv'
  OBVIOUS
<1>1. IInv'
  BY NextIInv
<1>2. CASE \/ UnlockFault \/ VerifyFault \/ CheckFault \/ FaultAfterWipe
           \/ (\E k \in Protected : storage_get_fault(k))
  <2>1. CASE losses = 0
    BY <1>1, <1>2, <2>1, NoFaultNow, HealthUsedUp
  <2>2. /\ handle_fault /\ todo = <<>>
        /\ pc \in {"idle", "verify", "check", "refault"}
    BY <1>2
    DEF UnlockFault, VerifyFault, CheckFault, FaultAfterWipe,
        storage_get_fault, Idle, Verify, Check
  <2>3. CASE losses # 0
    BY <1>1, <2>2, <2>3, HealthFault
  <2> QED BY <2>1, <2>3
<1>3. CASE \/ VerifyWrong \/ VerifyLast \/ WipeDevice \/ CheckAttack
           \/ (\E c \in Calls : UnlockWipeCode(c))
           \/ (\E c \in Calls : UnlockTooMany(c))
           \/ (\E k \in Protected : storage_get(k))
  BY <1>1, <1>3, HealthQuietSteps
<1>4. CASE storage_init_lock \/ storage_lock \/ storage_init
  BY <1>1, <1>4, HealthLock
<1>5. CASE storage_upgrade \/ UpgradeCutShort
  BY <1>1, <1>5, HealthUpgrade
<1>6. CASE \E c \in Calls : UnlockTry(c)
  BY <1>1, <1>6, HealthTry
<1>7. CASE VerifyRight
  BY <1>1, <1>7, HealthRight
<1>8. CASE CheckUpgraded \/ CheckUnchanged
  BY <1>1, <1>8, HealthCheck
<1>9. CASE Open
  BY <1>1, <1>9, HealthOpen
<1>10. CASE Done
  BY <1>1, <1>10, HealthDone
<1>11. CASE \/ (\E k \in AppKeys, v \in Vals : storage_set(k, v))
            \/ (\E k \in AppKeys : storage_delete(k))
  BY <1>1, <1>11, HealthApp
<1>12. CASE storage_init_new \/ Erase
  BY <1>1, <1>12, HealthNew
<1>13. CASE FlashWrite \/ PartialReset
  BY <1>1, <1>13, HealthFlash
<1>14. CASE \/ PowerCycle \/ PowerLoss \/ PowerLossMoving
            \/ WipeCutBeforeHeader \/ WipeCutAfterHeader
  BY <1>1, <1>14, HealthPower
<1>15. CASE UNCHANGED vars
  BY <1>15 DEF vars, HInv, BootOK, Foresees, SoundWhen, HealthyWhen, UsedUp
<1> QED BY <1>2, <1>3, <1>4, <1>5, <1>6, <1>7, <1>8, <1>9, <1>10, <1>11,
           <1>12, <1>13, <1>14, <1>15 DEF Next, Unlocking

-----------------------------------------------------------------------------
(* What follows from the invariant.                                        *)

LEMMA HInvImplies ==
  ASSUME IInv, HInv
  PROVE  UnlockedSound /\ HasPinAgrees
<1>1. UnlockedSound
  <2> SUFFICES ASSUME Idle, unlocked
               PROVE  /\ Whole("EDEK_PVC") /\ store["EDEK_PVC"].dek = keys
                      /\ TagGood(keys) /\ asum = Present
    BY DEF UnlockedSound
  <2>1. Foresees(store) /\ pc = "idle"
    BY NothingToWrite DEF Idle
  <2>2. Sound(store, keys, asum)
    BY <2>1 DEF Foresees, SoundWhen
  <2> QED BY <2>2 DEF Sound, Whole, Gone, TagGood, Present, PresentIn
<1>2. HasPinAgrees
  <2> SUFFICES ASSUME Idle, losses = 0
               PROVE  store["PIN_NOT_SET"] = PinOpens(PIN_EMPTY)
    BY DEF HasPinAgrees
  <2>1. Foresees(store) /\ pc = "idle"
    BY NothingToWrite DEF Idle
  <2>2. Healthy(store, nver, store["VERSION"].ver)
    BY <2>1 DEF Foresees, HealthyWhen, UsedUp
  <2>3. Whole("EDEK_PVC") /\ LockScheme = store["VERSION"].ver
    <3>1. /\ store["EDEK_PVC"] \notin Gone
          /\ store["UNAUTH_VERSION"] = store["VERSION"].ver
          /\ store["UNAUTH_VERSION"] \notin Gone
      BY <2>2, WholeIs DEF Healthy, Fitting, VersionFits
    <3> QED BY <3>1 DEF Whole, LockScheme, Gone
  <2>4. KdfScheme(store["EDEK_PVC"].ver) = KdfScheme(LockScheme)
    BY <2>2, <2>3 DEF Healthy, VersionFits
  <2>5. PinOpens(PIN_EMPTY) <=> store["EDEK_PVC"].pin = PIN_EMPTY
    BY <2>3, <2>4 DEF PinOpens
  <2>6. store["PIN_NOT_SET"] = (store["EDEK_PVC"].pin = PIN_EMPTY)
    BY <2>2 DEF Healthy, FlagFits
  <2>7. PinOpens(PIN_EMPTY) = (store["EDEK_PVC"].pin = PIN_EMPTY)
    BY <2>5, Zenon DEF PinOpens
  <2> QED BY <2>6, <2>7
<1> QED BY <1>1, <1>2

(* Between operations, an unlocked storage is sound after any sequence of  *)
(* calls and power losses: the tag that storage_get checks is the one of   *)
(* exactly the entries in the flash.                                       *)
THEOREM SoundWhileUnlocked == Spec => []UnlockedSound
<1>1. Init => IInv /\ HInv
  BY InitIInv, InitHealth
<1>2. (IInv /\ HInv) /\ [Next]_vars => (IInv /\ HInv)'
  BY NextIInv, NextHealth
<1>3. IInv /\ HInv => UnlockedSound
  BY HInvImplies
<1> QED BY <1>1, <1>2, <1>3, PTL DEF Spec

(* Without a power loss no sequence of calls makes storage.c reach         *)
(* handle_fault, except that the last allowed try of a PIN may use up the  *)
(* PIN log: everywhere else it takes a power loss to make the storage      *)
(* inconsistent.                                                           *)
THEOREM FaultsExplained == Spec => FaultNeedsLossOrFullLog
<1> DEFINE Explained ==
      FaultReached /\ losses = 0 =>
        /\ pc = "verify" /\ store["PIN_LOGS"] = EXHAUSTED
        /\ ctr + 1 = PIN_MAX_TRIES
<1>1. Init => IInv /\ HInv
  BY InitIInv, InitHealth
<1>2. (IInv /\ HInv) /\ [Next]_vars => (IInv /\ HInv)'
  BY NextIInv, NextHealth
<1>3. IInv /\ HInv /\ [Next]_vars => [Explained]_vars
  <2> SUFFICES ASSUME IInv, HInv, Next, FaultReached, losses = 0
               PROVE  /\ pc = "verify" /\ store["PIN_LOGS"] = EXHAUSTED
                      /\ ctr + 1 = PIN_MAX_TRIES
    OBVIOUS
  <2>1. /\ pc \notin {"wipe", "fault"}
        /\ \/ pc' = "fault"
           \/ pc' = "wipe" /\ ret' \in {"fault", "refault"}
    BY DEF FaultReached
  <2>2. \/ UnlockFault \/ VerifyFault \/ CheckFault \/ CheckAttack
        \/ FaultAfterWipe \/ (\E k \in Protected : storage_get_fault(k))
    BY <2>1
    DEF Next, Unlocking, storage_upgrade, UpgradeCutShort, storage_init,
        storage_init_new, storage_init_lock, storage_lock, Lock,
        UnlockWipeCode, UnlockTooMany, UnlockTry, VerifyWrong, VerifyLast,
        VerifyRight, CheckUpgraded, CheckUnchanged, Open, Done, storage_set,
        storage_delete, storage_get, WipeDevice, Erase, Wiping, FlashWrite,
        PartialReset, PowerCycle, PowerLoss, PowerLossMoving,
        WipeCutBeforeHeader, WipeCutAfterHeader, Restart, storage_wipe, Idle
  <2>3. VerifyFault /\ UsedUp(store)
    BY <2>2, NoFaultNow
  <2> QED BY <2>1, <2>3 DEF UsedUp
<1>4. FaultNeedsLossOrFullLog <=> [][Explained]_vars
  BY DEF FaultNeedsLossOrFullLog
<1> QED BY <1>1, <1>2, <1>3, <1>4, PTL DEF Spec

(* Without a power loss storage_has_pin is right, whatever the version the *)
(* storage was upgraded from.                                              *)
THEOREM HasPinCorrect == Spec => []HasPinAgrees
<1>1. Init => IInv /\ HInv
  BY InitIInv, InitHealth
<1>2. (IInv /\ HInv) /\ [Next]_vars => (IInv /\ HInv)'
  BY NextIInv, NextHealth
<1>3. IInv /\ HInv => HasPinAgrees
  BY HInvImplies
<1> QED BY <1>1, <1>2, <1>3, PTL DEF Spec

(* The storage becomes unlocked only with the PIN of its EDEK, or with new *)
(* keys under which no protected entry can be read.                        *)
THEOREM UnlockingNeedsPin == Spec => UnlockNeedsPin
<1> DEFINE Opening ==
      ~unlocked /\ unlocked' =>
        \/ /\ call # NONE /\ Whole("EDEK_PVC")
           /\ store["EDEK_PVC"].pin = call.pin
           /\ store["EDEK_PVC"].dek = keys'
        \/ \A k \in Protected : store'[k] = MISSING \/ ~Uses(k, keys')
<1>1. Init => IInv /\ HInv
  BY InitIInv, InitHealth
<1>2. (IInv /\ HInv) /\ [Next]_vars => (IInv /\ HInv)'
  BY NextIInv, NextHealth
<1>3. IInv /\ HInv /\ [Next]_vars => [Opening]_vars
  <2> SUFFICES ASSUME IInv, HInv, Next, ~unlocked, unlocked'
               PROVE  Opening
    OBVIOUS
  <2>1. Open \/ storage_init_new \/ Erase
    BY DEF Next, Unlocking, storage_upgrade, UpgradeCutShort, storage_init,
           storage_init_lock, storage_lock, Lock, UnlockFault, UnlockWipeCode,
           UnlockTooMany, UnlockTry, VerifyWrong, VerifyLast, VerifyFault,
           VerifyRight, CheckFault, CheckAttack, CheckUpgraded,
           CheckUnchanged, FaultAfterWipe, Done, storage_set, storage_delete,
           storage_get, storage_get_fault, WipeDevice, FlashWrite,
           PartialReset, PowerCycle, PowerLoss, PowerLossMoving,
           WipeCutBeforeHeader, WipeCutAfterHeader, Restart, handle_fault,
           FaultCounted, FaultUsesUpLog, storage_wipe, ramVars
  <2>2. CASE Open
    <3>1. todo = <<>> /\ pc = "open" /\ keys' = keys
      BY <2>2 DEF Open
    <3>2. Foresees(store) /\ call \in Calls
      BY <3>1, NothingToWrite DEF IInv, CallOK
    <3> QED BY <3>1, <3>2, NoCallAssumption
            DEF Foresees, SoundWhen, Sound, Whole, Gone
  <2>3. CASE storage_init_new
    BY <2>3 DEF storage_init_new, Fresh
  <2>4. CASE Erase
    BY <2>4, KeysApart DEF Erase, FreshStore
  <2> QED BY <2>1, <2>2, <2>3, <2>4
<1>4. UnlockNeedsPin <=> [][Opening]_vars
  BY DEF UnlockNeedsPin
<1> QED BY <1>1, <1>2, <1>3, <1>4, PTL DEF Spec

=============================================================================
