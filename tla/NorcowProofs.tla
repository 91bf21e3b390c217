---------------------------- MODULE NorcowProofs ----------------------------
(***************************************************************************)
(* Proofs about Norcow: what the two sectors hold at every moment, whatever *)
(* the sizes, the build and the number of power losses.                     *)
(***************************************************************************)
EXTENDS Norcow, SequenceTheorems, WellFoundedInduction, TLAPS

-----------------------------------------------------------------------------
(* The invariant, in terms of the flash f and the call c.                  *)

Size(it) == ItemSize(Len(it.val))
Fresh(items, k) == \A j \in DOMAIN items : items[j].key # k

(* An item that is not deleted has a value.                                *)
HasValue(it) == it.key # NORCOW_KEY_DELETED => it.val \in Value

(* An item that may be programmed over another one.                        *)
Lowers(new, was) ==
  /\ HasValue(new)
  /\ new.key \in {was.key, NORCOW_KEY_DELETED}
  /\ \A j \in DOMAIN new.val : new.val[j] <= was.val[j]
  /\ Size(new) = Size(was)

SectorOK(sec) ==
  /\ sec \in [ver : Versions, items : Seq(Items)]
  /\ \A i \in DOMAIN sec.items : HasValue(sec.items[i])
  /\ \A i, j \in DOMAIN sec.items :
       sec.items[i].key = sec.items[j].key /\ i # j
         => sec.items[i].key = NORCOW_KEY_DELETED
  /\ find_free_offset(sec) <= SECTOR_SIZE

FlashOK(f) == /\ f = [s \in Sectors |-> f[s]]
              /\ \A s \in Sectors : SectorOK(f[s])

(* The operations q program item i of sector s, which may be a new one.    *)
Writing(f, q, s, i) ==
  /\ q # <<>>
  /\ Head(q).sec = s
  /\ \/ /\ Head(q).op = "put" /\ Head(q).pos = i
        /\ i \in DOMAIN f[s].items /\ Lowers(Head(q).item, f[s].items[i])
     \/ /\ Head(q).op = "append"
        /\ i = Len(f[s].items) + 1 /\ HasValue(Head(q).item)
        /\ Fresh(f[s].items, Head(q).item.key)
        /\ find_free_offset(f[s]) + Size(Head(q).item) <= SECTOR_SIZE
  /\ \A n \in 2..Len(q) :
       /\ q[n].op = "put" /\ q[n].sec = s /\ q[n].pos = i
       /\ Lowers(q[n].item, q[n - 1].item)

Final(q) == q[Len(q)].item

(* The free offset once q is done.                                         *)
End(f, q, s) ==
  find_free_offset(f[s])
    + IF q # <<>> /\ Head(q).op = "append" THEN Size(Head(q).item) ELSE 0

(* The rest q of erase_sector(s, TRUE).                                    *)
Header(s, v) == [op |-> "header", sec |-> s, ver |-> v]
Erase(s) == [op |-> "erase", sec |-> s]
Preparing(f, q, s) ==
  \/ q = erase_sector(s, TRUE)
  \/ q = <<Header(s, 0), Header(s, NORCOW_VERSION)>> /\ f[s] = Erased
  \/ /\ q = <<Header(s, NORCOW_VERSION)>>
     /\ f[s].ver \in {NO_MAGIC, 0} /\ f[s].items = <<>>

(* The key k has the value v in a log of items.                            *)
Holds(items, k, v) ==
  IF v = NONE THEN Fresh(items, k)
  ELSE \E i \in DOMAIN items : items[i] = [key |-> k, val |-> v]

(* All but the key of the call c have the value they had before it.        *)
Keeps(items, c, st) == \A k \in Keys \ {c.key} : Holds(items, k, st[k])

Settled(f, s) == f[s].ver = NORCOW_VERSION /\ ActiveSector(f) = s

(* The call programs its own item in the sector in use, or has done so.    *)
OwnItem(f, c) ==
  IF c.plan = <<>>
  THEN \E v \in {NONE, c.val} : Holds(f[c.wr].items, c.key, v)
  ELSE \E i \in 1..(Len(f[c.wr].items) + 1) :
         /\ Writing(f, c.plan, c.wr, i)
         /\ \A j \in DOMAIN f[c.wr].items :
              /\ f[c.wr].items[j].key = c.key => j = i
              /\ j = i => f[c.wr].items[j].key \in {c.key, NORCOW_KEY_DELETED}
         /\ Head(c.plan).item.key \in {c.key, NORCOW_KEY_DELETED}
         /\ \/ Final(c.plan).key = NORCOW_KEY_DELETED
            \/ /\ c.kind = "set" /\ c.next = "return"
               /\ Final(c.plan) = [key |-> c.key, val |-> c.val]

Local(f, c, st) ==
  /\ c.next \in {"compact", "write", "return"}
  /\ c.next # "return" => c.kind = "set" /\ c.plan # <<>> /\ c.pos = 1
  /\ c.act = c.wr /\ Settled(f, c.wr)
  /\ c.fr = End(f, c.plan, c.wr)
  /\ c.kind \in {"set", "delete"} => OwnItem(f, c) /\ Keeps(f[c.wr].items, c, st)
  /\ c.kind \in {"init", "wipe"} => c.plan = <<>>

(* The other sector is being prepared, then items are copied into it.      *)
Source(f, c, st) ==
  /\ c.next = "copy" /\ c.kind \in {"set", "init"}
  /\ c.kind = "set" => /\ Fresh(f[1 - c.wr].items, c.key)
                       /\ Keeps(f[1 - c.wr].items, c, st)

Moving(f, c, st) ==
  /\ Source(f, c, st) /\ c.pos = 1
  /\ Preparing(f, c.plan, c.wr)

(* The items before the one that is copied now have been copied.           *)
CopiedTo(from, to, n, i) ==
  /\ \A j \in DOMAIN to : j # i => \E p \in 1..(n - 1) : to[j] = from[p]
  /\ \A p \in 1..(n - 1) : from[p].key # NORCOW_KEY_DELETED =>
       \E j \in DOMAIN to : j # i /\ to[j] = from[p]

Copying(f, c, st) ==
  /\ Source(f, c, st)
  /\ f[c.wr].ver = NORCOW_VERSION
  /\ c.pos - 1 \in DOMAIN f[1 - c.wr].items
  /\ LET it == f[1 - c.wr].items[c.pos - 1]
     IN /\ it.key # NORCOW_KEY_DELETED
        /\ \E i \in 1..(Len(f[c.wr].items) + 1) :
             /\ Writing(f, c.plan, c.wr, i)
             /\ Final(c.plan) = it /\ Head(c.plan).item.key = it.key
             /\ i \in DOMAIN f[c.wr].items => f[c.wr].items[i].key = it.key
             /\ CopiedTo(f[1 - c.wr].items, f[c.wr].items, c.pos - 1, i)
        /\ End(f, c.plan, c.wr) <= Offsets(f[1 - c.wr].items)[c.pos - 1]

Moved(f, c, st) ==
  /\ c.plan = <<Erase(1 - c.wr)>> /\ c.act = c.wr
  /\ f[c.wr].ver = NORCOW_VERSION
  /\ c.fr = find_free_offset(f[c.wr])
  /\ \/ c.kind = "init" /\ c.next = "return"
     \/ /\ c.kind = "set" /\ c.next = "write"
        /\ Fresh(f[c.wr].items, c.key) /\ Keeps(f[c.wr].items, c, st)

Wiping(f, c) ==
  /\ c.kind \in {"init", "wipe"} /\ c.next = "return"
  /\ c.act = c.wr /\ c.fr = 0
  /\ \/ c.plan = norcow_wipe(c.wr)
     \/ /\ c.plan = <<Header(c.wr, 0), Header(c.wr, NORCOW_VERSION), Erase(1 - c.wr)>>
        /\ f[c.wr] = Erased
     \/ /\ c.plan = <<Header(c.wr, NORCOW_VERSION), Erase(1 - c.wr)>>
        /\ f[c.wr].ver \in {NO_MAGIC, 0} /\ f[c.wr].items = <<>>
     \/ /\ c.plan = <<Erase(1 - c.wr)>>
        /\ f[c.wr] = [ver |-> NORCOW_VERSION, items |-> <<>>]

(* What the call asks for.                                                 *)
Asks(c) ==
  /\ c.kind \in {"set", "delete"} => c.key \in Keys
  /\ c.kind = "set" => c.val \in Value /\ (c.fill \/ c.val = Ones(Len(c.val)))

CallOK(f, c, st) ==
  /\ c \in Calls /\ Asks(c)
  /\ \/ Local(f, c, st) \/ Moving(f, c, st) \/ Copying(f, c, st)
     \/ Moved(f, c, st) \/ Wiping(f, c)

(* The item that storage_set_encrypted is filling.                         *)
OpenOK ==
  /\ open \in [key : Keys, val : Value, flashed : Nat]
  /\ open.flashed < Len(open.val)
  /\ call # NONE => call.kind = "set"
  /\ LET v == Splice(open.val, Ones(Len(open.val)), open.flashed)
     IN IF call # NONE /\ call.key = open.key THEN call.val = v
        ELSE store[open.key] \in {NONE, v}

NInv ==
  /\ build \in Builds /\ FlashOK(flash)
  /\ active \in Sectors /\ write \in Sectors /\ free \in 0..SECTOR_SIZE
  /\ on \in BOOLEAN /\ store = [k \in Keys |-> store[k]]
  /\ call # NONE => CallOK(flash, call, store) /\ (call.kind = "init" <=> ~on)
  /\ ~on => call # NONE /\ open = NONE
  /\ Idle => /\ active = write /\ Settled(flash, active)
             /\ free = find_free_offset(flash[active])
             /\ store = Content(flash, active)
  /\ open # NONE => OpenOK

-----------------------------------------------------------------------------
(* Values, sizes and offsets.                                              *)

LEMMA LensAreNat == \A n \in Lens : n \in Nat /\ n # 0
<1>1. Lens \subseteq Nat \ {0}
  BY NorcowAssumption
<1> QED BY <1>1

LEMMA BuildType ==
  ASSUME build \in Builds
  PROVE  /\ SECTOR_SIZE \in Nat /\ SMALL_ITEM_SIZE \in Nat
         /\ BIT_ACCESS \in BOOLEAN /\ Inputs \subseteq Value
BY NorcowAssumption
  DEF SECTOR_SIZE, SMALL_ITEM_SIZE, BIT_ACCESS, Inputs, Value

LEMMA SameBuild ==
  ASSUME build' = build
  PROVE  /\ \A n : ItemSize(n)' = ItemSize(n)
         /\ \A items : Offsets(items)' = Offsets(items)
         /\ \A sec : find_free_offset(sec)' = find_free_offset(sec)
         /\ SECTOR_SIZE' = SECTOR_SIZE /\ BIT_ACCESS' = BIT_ACCESS
         /\ \A s, m : erase_sector(s, m)' = erase_sector(s, m)
<1>1. \A n : ItemSize(n)' = ItemSize(n)
  BY DEF ItemSize, IsSmall, BIT_ACCESS, SMALL_ITEM_SIZE
<1>2. \A items : Offsets(items)' = Offsets(items)
  BY DEF Offsets, ItemSize, IsSmall, BIT_ACCESS, SMALL_ITEM_SIZE
<1>3. \A sec : find_free_offset(sec)' = find_free_offset(sec)
  BY <1>2 DEF find_free_offset
<1>4. SECTOR_SIZE' = SECTOR_SIZE /\ BIT_ACCESS' = BIT_ACCESS
  BY DEF SECTOR_SIZE, BIT_ACCESS
<1>5. \A s, m : erase_sector(s, m)' = erase_sector(s, m)
  BY DEF erase_sector, BIT_ACCESS
<1> QED BY <1>1, <1>2, <1>3, <1>4, <1>5

LEMMA SizeType ==
  ASSUME build \in Builds, NEW n \in Nat
  PROVE  ItemSize(n) \in Nat
BY BuildType, NorcowAssumption DEF ItemSize

LEMMA ValueType ==
  ASSUME NEW v \in Value
  PROVE  /\ v \in Seq(0..1) /\ Len(v) \in Lens /\ Len(v) \in Nat \ {0}
         /\ DOMAIN v = 1..Len(v) /\ v = [j \in 1..Len(v) |-> v[j]]
         /\ \A j \in 1..Len(v) : v[j] \in 0..1
<1>1. PICK n \in Lens : v \in [1..n -> 0..1]
  BY DEF Value
<1>2. n \in Nat \ {0}
  BY LensAreNat
<1>3. v \in Seq(0..1)
  <2>1. v = [j \in 1..n |-> v[j]]
    BY <1>1
  <2> QED BY <1>1, <1>2, <2>1
<1>4. Len(v) = n
  BY <1>1, <1>2, <1>3, LenProperties
<1> QED BY <1>1, <1>2, <1>3, <1>4

LEMMA ValueIs ==
  ASSUME NEW n \in Lens, NEW v \in [1..n -> 0..1]
  PROVE  v \in Value /\ Len(v) = n
<1>1. v \in Value
  BY DEF Value
<1>2. DOMAIN v = 1..n /\ n \in Nat
  BY LensAreNat
<1> QED BY <1>1, <1>2, ValueType

LEMMA SpliceType ==
  ASSUME NEW v \in Value, NEW w \in Value, Len(v) = Len(w), NEW m \in Int
  PROVE  /\ Splice(v, w, m) \in Value /\ Len(Splice(v, w, m)) = Len(v)
         /\ \A j \in 1..Len(v) :
              Splice(v, w, m)[j] = IF j <= m THEN v[j] ELSE w[j]
<1>1. Splice(v, w, m) \in [1..Len(v) -> 0..1]
  BY ValueType DEF Splice
<1>2. Len(v) \in Lens
  BY ValueType
<1> QED BY <1>1, <1>2, ValueIs DEF Splice

LEMMA ConstantType ==
  ASSUME NEW n \in Lens
  PROVE  /\ Ones(n) \in Value /\ Len(Ones(n)) = n
         /\ Zeros(n) \in Value /\ Len(Zeros(n)) = n
         /\ \A j \in 1..n : Ones(n)[j] = 1 /\ Zeros(n)[j] = 0
<1>1. Ones(n) \in [1..n -> 0..1] /\ Zeros(n) \in [1..n -> 0..1]
  BY DEF Ones, Zeros
<1> QED BY <1>1, ValueIs DEF Ones, Zeros

LEMMA ItemType ==
  ASSUME NEW it \in Items
  PROVE  /\ Len(it.val) \in Nat /\ it = [key |-> it.key, val |-> it.val]
         /\ DOMAIN it.val = 1..Len(it.val)
BY ValueType DEF Items

LEMMA ItemSizeType ==
  ASSUME build \in Builds, NEW it \in Items
  PROVE  Size(it) \in Nat
BY ItemType, SizeType DEF Size

LEMMA Least ==
  ASSUME NEW T, T \subseteq Nat, T # {}
  PROVE  \E n \in T : \A m \in T : n <= m
<1>1. PICK n \in T : \A m \in T : ~(<<m, n>> \in OpToRel(<, Nat))
  BY NatLessThanWellFounded, WFMin
<1>2. \A m \in T : ~(m < n)
  BY <1>1 DEF OpToRel
<1> QED BY <1>2

LEMMA MinIs ==
  ASSUME NEW T, T \subseteq Nat, T # {}
  PROVE  Min(T) \in T /\ \A m \in T : Min(T) <= m
BY Least DEF Min

(* A log of items has one function of offsets, by induction on its length. *)
IsOff(o, items) ==
  o = [n \in 0..Len(items) |->
         IF n = 0 THEN 0 ELSE o[n - 1] + ItemSize(Len(items[n].val))]
HasOff(items) == \E o : IsOff(o, items) /\ \A p : IsOff(p, items) => p = o

LEMMA OffOfNothing == HasOff(<<>>)
<1> DEFINE o == [n \in 0..0 |-> 0]
<1>1. IsOff(o, <<>>)
  BY DEF IsOff
<1>2. \A p : IsOff(p, <<>>) => p = o
  BY DEF IsOff
<1> QED BY <1>1, <1>2 DEF HasOff

LEMMA OffOfAppend ==
  ASSUME NEW items \in Seq(Items), NEW it \in Items, HasOff(items)
  PROVE  /\ HasOff(Append(items, it))
         /\ \A o, p : IsOff(o, items) /\ IsOff(p, Append(items, it)) =>
              p = [n \in 0..(Len(items) + 1) |->
                     IF n <= Len(items) THEN o[n]
                     ELSE o[Len(items)] + Size(it)]
<1> DEFINE L == Len(items)
           more == Append(items, it)
<1>1. L \in Nat /\ Len(more) = L + 1 /\ more[L + 1] = it
      /\ \A n \in 1..L : more[n] = items[n]
  OBVIOUS
<1>2. PICK o : IsOff(o, items) /\ \A p : IsOff(p, items) => p = o
  BY DEF HasOff
<1> DEFINE q == [n \in 0..(L + 1) |->
                   IF n <= L THEN o[n] ELSE o[L] + Size(it)]
<1>3. IsOff(q, more)
  <2>1. \A n \in 0..L : o[n] = IF n = 0 THEN 0
                               ELSE o[n - 1] + ItemSize(Len(items[n].val))
    BY <1>2 DEF IsOff
  <2> HIDE DEF more
  <2>2. \A n \in 0..(L + 1) :
          q[n] = IF n = 0 THEN 0 ELSE q[n - 1] + ItemSize(Len(more[n].val))
    BY <1>1, <2>1 DEF Size
  <2> QED BY <1>1, <2>2 DEF IsOff
<1>4. ASSUME NEW p, IsOff(p, more)
      PROVE  p = q
  <2> HIDE DEF more
  <2>1. p = [n \in 0..(L + 1) |->
               IF n = 0 THEN 0 ELSE p[n - 1] + ItemSize(Len(more[n].val))]
    BY <1>1, <1>4 DEF IsOff
  <2> DEFINE r == [n \in 0..L |-> p[n]]
  <2>2. IsOff(r, items)
    <3>1. \A n \in 0..L :
            r[n] = IF n = 0 THEN 0 ELSE r[n - 1] + ItemSize(Len(items[n].val))
      <4> SUFFICES ASSUME NEW n \in 0..L, n # 0
                   PROVE  r[n] = r[n - 1] + ItemSize(Len(items[n].val))
        <5>1. 0 \in 0..(L + 1) /\ 0 \in 0..L
          BY <1>1
        <5>2. p[0] = 0
          BY <2>1, <5>1
        <5>3. r[0] = 0
          BY <5>1, <5>2
        <5> QED BY <5>3
      <4>1. p[n] = p[n - 1] + ItemSize(Len(more[n].val))
        BY <1>1, <2>1
      <4>2. more[n] = items[n]
        BY <1>1
      <4> QED BY <1>1, <4>1, <4>2
    <3> QED BY <3>1 DEF IsOff
  <2>3. r = o
    BY <1>2, <2>2
  <2>4. p[L + 1] = p[L] + Size(it)
    BY <1>1, <2>1 DEF Size
  <2>5. \A n \in 0..(L + 1) : p[n] = q[n]
    BY <1>1, <2>3, <2>4
  <2> QED BY <2>1, <2>5
<1> QED BY <1>2, <1>3, <1>4 DEF HasOff

LEMMA OffsExist == \A items \in Seq(Items) : HasOff(items)
<1> DEFINE Bad == {n \in Nat : \E s \in Seq(Items) : Len(s) = n /\ ~HasOff(s)}
<1>1. SUFFICES ASSUME NEW items \in Seq(Items), ~HasOff(items)
               PROVE  FALSE
  OBVIOUS
<1>2. Bad # {} /\ Bad \subseteq Nat
  BY <1>1
<1>3. PICK n \in Bad : \A m \in Bad : n <= m
  BY <1>2, Least
<1>4. PICK s \in Seq(Items) : Len(s) = n /\ ~HasOff(s)
  BY <1>3
<1>5. n # 0
  BY <1>4, OffOfNothing, EmptySeq
<1> DEFINE t == SubSeq(s, 1, n - 1)
<1>6. t \in Seq(Items) /\ Len(t) = n - 1 /\ s[n] \in Items
      /\ s = Append(t, s[n])
  <2>1. n \in Nat \ {0}
    BY <1>3, <1>5
  <2>2. t \in Seq(Items) /\ Len(t) = n - 1
    BY <1>4, <2>1, SubSeqProperties
  <2>3. s[n] \in Items
    BY <1>4, <2>1, ElementOfSeq
  <2>4. Append(t, s[n]) \in Seq(Items) /\ Len(Append(t, s[n])) = n
        /\ \A i \in 1..n : Append(t, s[n])[i] = s[i]
    BY <1>4, <2>1, <2>2, <2>3, SubSeqProperties, AppendProperties
  <2> QED BY <1>4, <2>2, <2>3, <2>4, SeqEqual
<1> HIDE DEF t
<1>7. HasOff(t)
  BY <1>3, <1>6
<1>8. HasOff(Append(t, s[n]))
  BY <1>6, <1>7, OffOfAppend
<1> QED BY <1>4, <1>6, <1>8


LEMMA OffsetsAre ==
  ASSUME NEW items \in Seq(Items)
  PROVE  /\ IsOff(Offsets(items), items)
         /\ \A p : IsOff(p, items) => p = Offsets(items)
<1>1. PICK o : IsOff(o, items) /\ \A p : IsOff(p, items) => p = o
  BY OffsExist DEF HasOff
<1>2. IsOff(Offsets(items), items)
  BY <1>1 DEF Offsets, IsOff
<1> QED BY <1>1, <1>2

LEMMA OffsetSteps ==
  ASSUME NEW items \in Seq(Items)
  PROVE  /\ Offsets(items)[0] = 0
         /\ \A n \in 1..Len(items) :
              Offsets(items)[n] = Offsets(items)[n - 1] + Size(items[n])
<1>1. Len(items) \in Nat
  OBVIOUS
<1>2. Offsets(items) = [n \in 0..Len(items) |->
         IF n = 0 THEN 0
         ELSE Offsets(items)[n - 1] + ItemSize(Len(items[n].val))]
  BY OffsetsAre DEF IsOff
<1>3. Offsets(items)[0] = 0
  BY <1>1, <1>2
<1>4. ASSUME NEW n \in 1..Len(items)
      PROVE  Offsets(items)[n] = Offsets(items)[n - 1] + Size(items[n])
  BY <1>1, <1>2 DEF Size
<1> QED BY <1>3, <1>4

LEMMA OffsetType ==
  ASSUME build \in Builds, NEW items \in Seq(Items), NEW n \in 0..Len(items)
  PROVE  Offsets(items)[n] \in Nat
<1> DEFINE Bad == {m \in Nat : m <= Len(items) /\ Offsets(items)[m] \notin Nat}
<1>1. SUFFICES ASSUME Bad # {} PROVE FALSE
  OBVIOUS
<1>2. PICK m \in Bad : \A l \in Bad : m <= l
  BY <1>1, Least
<1>3. m # 0
  BY <1>2, OffsetSteps
<1>4. m - 1 \in Nat /\ m - 1 \notin Bad /\ m \in 1..Len(items)
  BY <1>2, <1>3
<1>5. Offsets(items)[m - 1] \in Nat
  BY <1>4
<1>6. items[m] \in Items
  BY <1>4, ElementOfSeq
<1>7. Offsets(items)[m] = Offsets(items)[m - 1] + Size(items[m])
  BY <1>4, OffsetSteps
<1>8. Size(items[m]) \in Nat
  BY <1>6, ItemSizeType
<1> QED BY <1>2, <1>5, <1>7, <1>8

LEMMA OffsetsGrow ==
  ASSUME build \in Builds, NEW items \in Seq(Items),
         NEW m \in 0..Len(items), NEW n \in 0..Len(items), m <= n
  PROVE  Offsets(items)[m] <= Offsets(items)[n]
<1> DEFINE Bad == {l \in Nat : /\ m <= l /\ l <= Len(items)
                               /\ ~(Offsets(items)[m] <= Offsets(items)[l])}
<1>1. SUFFICES ASSUME Bad # {} PROVE FALSE
  OBVIOUS
<1>2. PICK l \in Bad : \A k \in Bad : l <= k
  BY <1>1, Least
<1>3. Offsets(items)[m] \in Nat
  BY OffsetType
<1>4. l # m
  BY <1>2, <1>3
<1>5. l - 1 \in Nat /\ m <= l - 1 /\ l - 1 \notin Bad /\ l \in 1..Len(items)
  BY <1>2, <1>4
<1>6. Offsets(items)[m] <= Offsets(items)[l - 1]
  BY <1>5
<1>7. Offsets(items)[l] = Offsets(items)[l - 1] + Size(items[l])
  BY <1>5, OffsetSteps
<1>8. items[l] \in Items
  BY <1>5, ElementOfSeq
<1>9. Size(items[l]) \in Nat /\ Offsets(items)[l - 1] \in Nat
  BY <1>5, <1>8, ItemSizeType, OffsetType
<1> QED BY <1>2, <1>3, <1>6, <1>7, <1>9

LEMMA OffsetOfPut ==
  ASSUME NEW items \in Seq(Items), NEW more \in Seq(Items),
         Len(more) = Len(items),
         \A n \in 1..Len(items) : Size(more[n]) = Size(items[n])
  PROVE  Offsets(more) = Offsets(items)
<1>1. Len(items) \in Nat
  OBVIOUS
<1>2. \A n \in 1..Len(items) :
        ItemSize(Len(more[n].val)) = ItemSize(Len(items[n].val))
  BY DEF Size
<1>3. Offsets(items) = [n \in 0..Len(items) |->
         IF n = 0 THEN 0
         ELSE Offsets(items)[n - 1] + ItemSize(Len(items[n].val))]
  BY OffsetsAre DEF IsOff
<1>4. [n \in 0..Len(items) |->
         IF n = 0 THEN 0
         ELSE Offsets(items)[n - 1] + ItemSize(Len(items[n].val))]
      = [n \in 0..Len(more) |->
         IF n = 0 THEN 0
         ELSE Offsets(items)[n - 1] + ItemSize(Len(more[n].val))]
  BY <1>1, <1>2
<1>5. IsOff(Offsets(items), more)
  BY <1>3, <1>4 DEF IsOff
<1> QED BY <1>5, OffsetsAre

LEMMA OffsetOfAppend ==
  ASSUME NEW items \in Seq(Items), NEW it \in Items
  PROVE  Offsets(Append(items, it))[Len(items) + 1]
           = Offsets(items)[Len(items)] + Size(it)
<1>1. IsOff(Offsets(items), items)
      /\ IsOff(Offsets(Append(items, it)), Append(items, it))
  <2>1. Append(items, it) \in Seq(Items)
    BY AppendProperties
  <2> QED BY <2>1, OffsetsAre
<1>2. Offsets(Append(items, it)) = [n \in 0..(Len(items) + 1) |->
        IF n <= Len(items) THEN Offsets(items)[n]
        ELSE Offsets(items)[Len(items)] + Size(it)]
  BY <1>1, OffsExist, OffOfAppend
<1>3. Len(items) \in Nat
  OBVIOUS
<1> QED BY <1>2, <1>3

LEMMA FreeOffsetType ==
  ASSUME build \in Builds, NEW sec, sec.items \in Seq(Items)
  PROVE  find_free_offset(sec) \in Nat
<1>1. Len(sec.items) \in 0..Len(sec.items)
  OBVIOUS
<1> QED BY <1>1, OffsetType DEF find_free_offset

-----------------------------------------------------------------------------
(* Flash operations.                                                       *)

LEMMA PutOK ==
  ASSUME build \in Builds, NEW sec, SectorOK(sec), NEW i \in DOMAIN sec.items,
         NEW it \in Items, Lowers(it, sec.items[i]),
         NEW more \in Seq(Items), Len(more) = Len(sec.items),
         \A j \in 1..Len(sec.items) :
           more[j] = IF j = i THEN it ELSE sec.items[j],
         NEW new, new = [ver |-> sec.ver, items |-> more]
  PROVE  SectorOK(new) /\ find_free_offset(new) = find_free_offset(sec)
<1> DEFINE items == sec.items
<1>1. items \in Seq(Items) /\ sec = [ver |-> sec.ver, items |-> items]
      /\ sec.ver \in Versions
  BY DEF SectorOK
<1>2. i \in 1..Len(items) /\ DOMAIN items = 1..Len(items)
  BY <1>1
<1>3. more \in Seq(Items) /\ Len(more) = Len(items)
      /\ \A j \in 1..Len(items) : more[j] = IF j = i THEN it ELSE items[j]
  OBVIOUS
<1>4. new = [ver |-> sec.ver, items |-> more]
  OBVIOUS
<1> HIDE DEF items
<1>5. Offsets(more) = Offsets(items)
  <2>1. \A n \in 1..Len(items) : Size(more[n]) = Size(items[n])
    BY <1>3, <1>2 DEF Lowers, items
  <2> QED BY <1>1, <1>3, <2>1, OffsetOfPut
<1>6. find_free_offset(new) = find_free_offset(sec)
  BY <1>3, <1>4, <1>5 DEF find_free_offset, items
<1>7. \A j, k \in DOMAIN more :
        more[j].key = more[k].key /\ j # k => more[j].key = NORCOW_KEY_DELETED
  <2>1. \A j, k \in 1..Len(items) : items[j].key = items[k].key /\ j # k =>
          items[j].key = NORCOW_KEY_DELETED
    BY <1>2 DEF SectorOK, items
  <2>2. it.key \in {items[i].key, NORCOW_KEY_DELETED}
    BY DEF Lowers, items
  <2>3. DOMAIN more = 1..Len(items)
    BY <1>3
  <2> QED BY <1>2, <1>3, <2>1, <2>2, <2>3
<1>a. \A j \in DOMAIN more : HasValue(more[j])
  BY <1>2, <1>3 DEF SectorOK, Lowers, items
<1>8. SectorOK(new)
  BY <1>1, <1>3, <1>4, <1>6, <1>7, <1>a DEF SectorOK, items
<1> QED BY <1>3, <1>4, <1>6, <1>8 DEF items

LEMMA AppendOK ==
  ASSUME build \in Builds, NEW sec, SectorOK(sec), NEW it \in Items,
         Fresh(sec.items, it.key), HasValue(it),
         find_free_offset(sec) + Size(it) <= SECTOR_SIZE,
         NEW more, more = Append(sec.items, it),
         NEW new, new = [ver |-> sec.ver, items |-> more]
  PROVE  /\ SectorOK(new)
         /\ find_free_offset(new) = find_free_offset(sec) + Size(it)
<1> DEFINE items == sec.items
<1>1. items \in Seq(Items) /\ sec = [ver |-> sec.ver, items |-> items]
      /\ sec.ver \in Versions
  BY DEF SectorOK
<1>2. more \in Seq(Items) /\ Len(more) = Len(items) + 1 /\ Len(items) \in Nat
      /\ more[Len(items) + 1] = it /\ \A j \in 1..Len(items) : more[j] = items[j]
      /\ DOMAIN items = 1..Len(items) /\ DOMAIN more = 1..(Len(items) + 1)
  BY <1>1, AppendProperties, LenProperties
<1>3. new = [ver |-> sec.ver, items |-> more]
  OBVIOUS
<1>4. Offsets(more)[Len(items) + 1] = Offsets(items)[Len(items)] + Size(it)
  BY <1>1, OffsetOfAppend
<1> HIDE DEF items
<1>5. find_free_offset(new) = find_free_offset(sec) + Size(it)
  BY <1>2, <1>3, <1>4 DEF find_free_offset, items
<1>6. \A j, k \in DOMAIN more :
        more[j].key = more[k].key /\ j # k => more[j].key = NORCOW_KEY_DELETED
  <2>1. \A j, k \in 1..Len(items) : items[j].key = items[k].key /\ j # k =>
          items[j].key = NORCOW_KEY_DELETED
    BY <1>2 DEF SectorOK, items
  <2>2. \A j \in 1..Len(items) : items[j].key # it.key
    BY <1>2 DEF Fresh, items
  <2>3. \A j \in 1..(Len(items) + 1) : j \in 1..Len(items) \/ j = Len(items) + 1
    BY <1>2
  <2> QED BY <1>2, <2>1, <2>2, <2>3
<1>a. \A j \in DOMAIN more : HasValue(more[j])
  <2>1. \A j \in 1..Len(items) : HasValue(items[j])
    BY <1>2 DEF SectorOK, items
  <2>2. \A j \in 1..(Len(items) + 1) : j \in 1..Len(items) \/ j = Len(items) + 1
    BY <1>2
  <2> QED BY <1>2, <2>1, <2>2
<1>7. SectorOK(new)
  BY <1>1, <1>2, <1>3, <1>5, <1>6, <1>a DEF SectorOK
<1> QED BY <1>3, <1>5, <1>7 DEF items


Other(s) == 1 - s

LEMMA Opposite ==
  \A s \in Sectors : /\ Other(s) \in Sectors /\ Other(s) # s
                     /\ 1 - s = Other(s) /\ Other(Other(s)) = s
                     /\ \A t \in Sectors : t = s \/ t = Other(s)
BY DEF Sectors, Other

LEMMA SectorIs ==
  ASSUME NEW f, FlashOK(f), NEW s \in Sectors
  PROVE  /\ SectorOK(f[s]) /\ f[s].ver \in Versions /\ f[s].items \in Seq(Items)
         /\ f[s] = [ver |-> f[s].ver, items |-> f[s].items]
         /\ f = [t \in Sectors |-> f[t]]
         /\ Len(f[s].items) \in Nat /\ DOMAIN f[s].items = 1..Len(f[s].items)
         /\ \A i \in 1..Len(f[s].items) : f[s].items[i] \in Items
<1>1. SectorOK(f[s]) /\ f = [t \in Sectors |-> f[t]]
  BY DEF FlashOK
<1>2. f[s] \in [ver : Versions, items : Seq(Items)]
  BY <1>1 DEF SectorOK
<1>3. f[s].items \in Seq(Items)
  BY <1>2
<1> QED BY <1>1, <1>2, <1>3, LenProperties, ElementOfSeq

(* The flash g is f with another sector s.                                 *)
Replaced(f, g, s, sec) ==
  /\ g = [t \in Sectors |-> g[t]]
  /\ g[s] = sec /\ g[Other(s)] = f[Other(s)]

LEMMA ReplacedOK ==
  ASSUME NEW f, FlashOK(f), NEW s \in Sectors, NEW sec, SectorOK(sec),
         NEW g, Replaced(f, g, s, sec)
  PROVE  FlashOK(g) /\ g[s] = sec /\ g[Other(s)] = f[Other(s)]
<1>1. g = [t \in Sectors |-> g[t]] /\ g[s] = sec /\ g[Other(s)] = f[Other(s)]
  BY DEF Replaced
<1>2. \A t \in Sectors : SectorOK(f[t])
  BY DEF FlashOK
<1>3. \A t \in Sectors : SectorOK(g[t])
  BY <1>1, <1>2, Opposite
<1> QED BY <1>1, <1>3 DEF FlashOK

LEMMA ExceptReplaced ==
  ASSUME NEW f, FlashOK(f), NEW s \in Sectors, NEW sec
  PROVE  Replaced(f, [f EXCEPT ![s] = sec], s, sec)
<1>1. f = [t \in Sectors |-> f[t]]
  BY SectorIs
<1> QED BY <1>1, Opposite DEF Replaced

LEMMA AppliedErase ==
  ASSUME NEW f, FlashOK(f), NEW o, o.op = "erase", o.sec \in Sectors
  PROVE  Replaced(f, ApplyOp(f, o), o.sec, Erased)
<1>1. ApplyOp(f, o) = [f EXCEPT ![o.sec] = Erased]
  BY DEF ApplyOp
<1>2. PICK s : s = o.sec
  OBVIOUS
<1>3. Replaced(f, [f EXCEPT ![s] = Erased], s, Erased)
  BY <1>2, ExceptReplaced
<1> QED BY <1>1, <1>2, <1>3

LEMMA AppliedHeader ==
  ASSUME NEW f, FlashOK(f), NEW o, o.op = "header", o.sec \in Sectors
  PROVE  Replaced(f, ApplyOp(f, o), o.sec,
                  [ver |-> o.ver, items |-> f[o.sec].items])
<1>1. PICK new : new = [f[o.sec] EXCEPT !.ver = o.ver]
  OBVIOUS
<1>2. ApplyOp(f, o) = [f EXCEPT ![o.sec] = new]
  BY <1>1 DEF ApplyOp
<1>3. new = [ver |-> o.ver, items |-> f[o.sec].items]
  <2>1. f[o.sec] = [ver |-> f[o.sec].ver, items |-> f[o.sec].items]
    BY SectorIs
  <2> QED BY <1>1, <2>1
<1>4. Replaced(f, [f EXCEPT ![o.sec] = new], o.sec, new)
  BY ExceptReplaced
<1> QED BY <1>2, <1>3, <1>4

LEMMA AppliedItems ==
  ASSUME NEW f, FlashOK(f), NEW o, o.sec \in Sectors, NEW more,
         ApplyOp(f, o) = [f EXCEPT ![o.sec] = [f[o.sec] EXCEPT !.items = more]]
  PROVE  Replaced(f, ApplyOp(f, o), o.sec,
                  [ver |-> f[o.sec].ver, items |-> more])
<1>1. PICK new : new = [f[o.sec] EXCEPT !.items = more]
  OBVIOUS
<1>2. ApplyOp(f, o) = [f EXCEPT ![o.sec] = new]
  BY <1>1
<1>3. new = [ver |-> f[o.sec].ver, items |-> more]
  <2>1. f[o.sec] = [ver |-> f[o.sec].ver, items |-> f[o.sec].items]
    BY SectorIs
  <2> QED BY <1>1, <2>1
<1>4. Replaced(f, [f EXCEPT ![o.sec] = new], o.sec, new)
  BY ExceptReplaced
<1> QED BY <1>2, <1>3, <1>4

LEMMA AppliedAppend ==
  ASSUME NEW f, FlashOK(f), NEW o, o.op = "append", o.sec \in Sectors
  PROVE  Replaced(f, ApplyOp(f, o), o.sec,
                  [ver |-> f[o.sec].ver, items |-> Append(f[o.sec].items, o.item)])
<1>1. PICK more : more = Append(f[o.sec].items, o.item)
  OBVIOUS
<1>2. ApplyOp(f, o) = [f EXCEPT ![o.sec] = [f[o.sec] EXCEPT !.items = more]]
  BY <1>1 DEF ApplyOp
<1> QED BY <1>1, <1>2, AppliedItems, Zenon

(* The item i of sector s became it.                                       *)
Programmed(f, g, s, i, it) ==
  \E more \in Seq(Items) :
    /\ Replaced(f, g, s, [ver |-> f[s].ver, items |-> more])
    /\ Len(more) = Len(f[s].items)
    /\ \A j \in 1..Len(f[s].items) :
         more[j] = IF j = i THEN it ELSE f[s].items[j]

LEMMA AppliedPut ==
  ASSUME NEW f, FlashOK(f), NEW o, o.op = "put", o.sec \in Sectors,
         o.item \in Items, o.pos \in DOMAIN f[o.sec].items
  PROVE  Programmed(f, ApplyOp(f, o), o.sec, o.pos, o.item)
<1>1. PICK more : more = [f[o.sec].items EXCEPT ![o.pos] = o.item]
  OBVIOUS
<1>2. ApplyOp(f, o) = [f EXCEPT ![o.sec] = [f[o.sec] EXCEPT !.items = more]]
  BY <1>1 DEF ApplyOp
<1>3. Replaced(f, ApplyOp(f, o), o.sec, [ver |-> f[o.sec].ver, items |-> more])
  BY <1>2, AppliedItems, Zenon
<1>4. /\ more \in Seq(Items) /\ Len(more) = Len(f[o.sec].items)
      /\ \A j \in 1..Len(f[o.sec].items) :
           more[j] = IF j = o.pos THEN o.item ELSE f[o.sec].items[j]
  <2>1. f[o.sec].items \in Seq(Items) /\ DOMAIN f[o.sec].items = 1..Len(f[o.sec].items)
    BY SectorIs
  <2> QED BY <1>1, <2>1
<1> QED BY <1>3, <1>4 DEF Programmed

(* What the ensure() around a flash operation asks for.                    *)
Ensured(f, o) ==
  CASE o.op = "put" ->
         /\ o.pos \in DOMAIN f[o.sec].items
         /\ LET was == f[o.sec].items[o.pos] IN
            /\ o.item.key \in {was.key, NORCOW_KEY_DELETED}
            /\ \A j \in DOMAIN o.item.val : o.item.val[j] <= was.val[j]
    [] o.op = "append" ->
         find_free_offset(f[o.sec]) + ItemSize(Len(o.item.val)) <= SECTOR_SIZE
    [] o.op = "header" ->
         /\ f[o.sec].items = <<>>
         /\ f[o.sec].ver \in {NO_MAGIC, 0}
    [] OTHER -> TRUE

LEMMA SeqTail ==
  ASSUME NEW S, NEW q \in Seq(S), q # <<>>
  PROVE  /\ Head(q) = q[1] /\ Head(q) \in S /\ Tail(q) \in Seq(S)
         /\ Len(q) \in Nat \ {0} /\ Len(Tail(q)) = Len(q) - 1
         /\ \A n \in 1..(Len(q) - 1) : Tail(q)[n] = q[n + 1]
         /\ Tail(q) = <<>> <=> Len(q) = 1
<1>1. Len(q) \in Nat \ {0}
  BY EmptySeq
<1>2. Head(q) = q[1] /\ q[1] \in S
  BY <1>1, ElementOfSeq, HeadTailProperties
<1>3. Tail(q) \in Seq(S) /\ Len(Tail(q)) = Len(q) - 1
      /\ \A n \in 1..(Len(q) - 1) : Tail(q)[n] = q[n + 1]
  BY <1>1, HeadTailProperties
<1>4. Tail(q) = <<>> <=> Len(q) = 1
  BY <1>1, <1>3, EmptySeq
<1> QED BY <1>1, <1>2, <1>3, <1>4

(* A flash operation on one item.                                          *)
(* The first operation of q took the flash from f to g.                    *)
Stepped(f, g, q, s, i) ==
  /\ FlashOK(g) /\ Ensured(f, Head(q))
  /\ g[Other(s)] = f[Other(s)] /\ g[s].ver = f[s].ver
  /\ Tail(q) # <<>> => Writing(g, Tail(q), s, i) /\ Final(Tail(q)) = Final(q)
  /\ Tail(q) = <<>> => Final(q) = Head(q).item
  /\ End(g, Tail(q), s) = End(f, q, s)
  /\ DOMAIN g[s].items = DOMAIN f[s].items \cup {i}
  /\ g[s].items[i] = Head(q).item
  /\ \A j \in DOMAIN f[s].items : j # i => g[s].items[j] = f[s].items[j]

LEMMA WriteStep ==
  ASSUME build \in Builds, NEW f, FlashOK(f), NEW s \in Sectors, NEW i,
         NEW q \in Seq(FlashOps), Writing(f, q, s, i),
         NEW g, g = ApplyOp(f, Head(q))
  PROVE  Stepped(f, g, q, s, i)
<1> DEFINE o == Head(q)
<1>1. /\ o = q[1] /\ o \in FlashOps /\ Tail(q) \in Seq(FlashOps)
      /\ Len(q) \in Nat \ {0} /\ Len(Tail(q)) = Len(q) - 1
      /\ \A n \in 1..(Len(q) - 1) : Tail(q)[n] = q[n + 1]
      /\ Tail(q) = <<>> <=> Len(q) = 1
  BY SeqTail DEF Writing
<1>2. /\ SectorOK(f[s]) /\ f[s].items \in Seq(Items)
      /\ Len(f[s].items) \in Nat /\ DOMAIN f[s].items = 1..Len(f[s].items)
  BY SectorIs
<1>3. o.sec = s /\ o.op \in {"put", "append"}
  BY DEF Writing
<1>4. o.item \in Items
  BY <1>1, <1>3 DEF FlashOps
<1> HIDE DEF o
<1>5. /\ FlashOK(g) /\ Ensured(f, o)
      /\ g[Other(s)] = f[Other(s)] /\ g[s].ver = f[s].ver
      /\ find_free_offset(g[s]) = End(f, q, s)
      /\ DOMAIN g[s].items = DOMAIN f[s].items \cup {i}
      /\ g[s].items[i] = o.item
      /\ \A j \in DOMAIN f[s].items : j # i => g[s].items[j] = f[s].items[j]
  <2>1. CASE o.op = "put"
    <3>1. o.pos = i /\ i \in DOMAIN f[s].items /\ Lowers(o.item, f[s].items[i])
      BY <2>1 DEF Writing, o
    <3>2. PICK more \in Seq(Items) :
            /\ Replaced(f, g, s, [ver |-> f[s].ver, items |-> more])
            /\ Len(more) = Len(f[s].items)
            /\ \A j \in 1..Len(f[s].items) :
                 more[j] = IF j = i THEN o.item ELSE f[s].items[j]
      <4>1. g = ApplyOp(f, o) /\ o.sec \in Sectors /\ o.pos \in DOMAIN f[o.sec].items
        BY <1>3, <3>1 DEF o
      <4>2. Programmed(f, g, o.sec, o.pos, o.item)
        BY <1>4, <2>1, <4>1, AppliedPut
      <4> QED BY <1>3, <3>1, <4>2 DEF Programmed
    <3>3. PICK new : new = [ver |-> f[s].ver, items |-> more]
      OBVIOUS
    <3>4. SectorOK(new) /\ find_free_offset(new) = find_free_offset(f[s])
      <4>1. PICK sec : sec = f[s]
        OBVIOUS
      <4>2. SectorOK(sec) /\ i \in DOMAIN sec.items /\ Lowers(o.item, sec.items[i])
        BY <1>2, <3>1, <4>1
      <4>3. /\ Len(more) = Len(sec.items)
            /\ \A j \in 1..Len(sec.items) :
                 more[j] = IF j = i THEN o.item ELSE sec.items[j]
        BY <3>2, <4>1
      <4>4. new = [ver |-> sec.ver, items |-> more]
        BY <3>3, <4>1
      <4>5. SectorOK(new) /\ find_free_offset(new) = find_free_offset(sec)
        BY <1>4, <4>2, <4>3, <4>4, PutOK
      <4> QED BY <4>1, <4>5
    <3>5. FlashOK(g) /\ g[s] = new /\ g[Other(s)] = f[Other(s)]
      BY <3>2, <3>3, <3>4, ReplacedOK
    <3>9. new.ver = f[s].ver /\ new.items = more
      BY <3>3
    <3>6. End(f, q, s) = find_free_offset(f[s])
      <4>1. find_free_offset(f[s]) \in Nat
        BY <1>2, FreeOffsetType
      <4> QED BY <2>1, <4>1 DEF End, o
    <3>7. Ensured(f, o)
      BY <1>3, <2>1, <3>1 DEF Ensured, Lowers
    <3> QED BY <1>2, <3>1, <3>2, <3>4, <3>5, <3>6, <3>7, <3>9
  <2>2. CASE o.op = "append"
    <3>1. /\ i = Len(f[s].items) + 1 /\ Fresh(f[s].items, o.item.key)
          /\ HasValue(o.item)
          /\ find_free_offset(f[s]) + Size(o.item) <= SECTOR_SIZE
      BY <2>2 DEF Writing, o
    <3>2. PICK more : more = Append(f[s].items, o.item)
      OBVIOUS
    <3>3. PICK new : new = [ver |-> f[s].ver, items |-> more]
      OBVIOUS
    <3>4. SectorOK(new) /\ find_free_offset(new) = find_free_offset(f[s]) + Size(o.item)
      BY <1>2, <1>4, <3>1, <3>2, <3>3, AppendOK
    <3>9. Replaced(f, g, s, new)
      BY <1>3, <2>2, <3>2, <3>3, AppliedAppend DEF o
    <3>5. FlashOK(g) /\ g[s] = new /\ g[Other(s)] = f[Other(s)]
      BY <3>4, <3>9, ReplacedOK
    <3>6. End(f, q, s) = find_free_offset(f[s]) + Size(o.item)
      BY <2>2 DEF End, o, Writing
    <3>7. Ensured(f, o)
      BY <1>3, <2>2, <3>1 DEF Ensured, Size
    <3>8. /\ DOMAIN new.items = 1..(Len(f[s].items) + 1)
          /\ new.items[Len(f[s].items) + 1] = o.item
          /\ \A j \in 1..Len(f[s].items) : new.items[j] = f[s].items[j]
      BY <1>2, <1>4, <3>2, <3>3, AppendProperties, LenProperties
    <3> QED BY <1>2, <3>1, <3>3, <3>4, <3>5, <3>6, <3>7, <3>8
  <2> QED BY <1>3, <2>1, <2>2
<1>6. /\ Tail(q) # <<>> => Writing(g, Tail(q), s, i) /\ Final(Tail(q)) = Final(q)
      /\ End(g, Tail(q), s) = End(f, q, s)
  <2>1. \A n \in 2..Len(q) :
          /\ q[n].op = "put" /\ q[n].sec = s /\ q[n].pos = i
          /\ Lowers(q[n].item, q[n - 1].item)
    BY DEF Writing
  <2>2. find_free_offset(g[s]) \in Nat
    <3>1. g[s].items \in Seq(Items)
      BY <1>5, SectorIs
    <3> QED BY <3>1, FreeOffsetType
  <2>3. CASE Tail(q) = <<>>
    BY <1>5, <2>2, <2>3 DEF End
  <2>4. CASE Tail(q) # <<>>
    <3>1. Len(q) >= 2 /\ Head(Tail(q)) = q[2]
      BY <1>1, <2>4, SeqTail
    <3>2. /\ q[2].op = "put" /\ q[2].sec = s /\ q[2].pos = i
          /\ Lowers(q[2].item, g[s].items[i]) /\ i \in DOMAIN g[s].items
      BY <1>1, <1>5, <2>1, <3>1
    <3>3. \A n \in 2..Len(Tail(q)) :
            /\ Tail(q)[n].op = "put" /\ Tail(q)[n].sec = s /\ Tail(q)[n].pos = i
            /\ Lowers(Tail(q)[n].item, Tail(q)[n - 1].item)
      <4> TAKE n \in 2..Len(Tail(q))
      <4>1. Tail(q)[n] = q[n + 1] /\ Tail(q)[n - 1] = q[(n + 1) - 1]
            /\ n + 1 \in 2..Len(q)
        BY <1>1
      <4> QED BY <2>1, <4>1
    <3>4. Writing(g, Tail(q), s, i)
      BY <2>4, <3>1, <3>2, <3>3 DEF Writing
    <3>5. Final(Tail(q)) = Final(q)
      BY <1>1, <3>1 DEF Final
    <3>6. End(g, Tail(q), s) = End(f, q, s)
      BY <1>5, <2>2, <3>1, <3>2 DEF End
    <3> QED BY <3>4, <3>5, <3>6
  <2> QED BY <2>3, <2>4
<1>7. Tail(q) = <<>> => Final(q) = o.item
  BY <1>1 DEF Final
<1> QED BY <1>5, <1>6, <1>7 DEF o, Stepped


-----------------------------------------------------------------------------
(* Erasing and preparing a sector.                                         *)

LEMMA EmptySectorOK ==
  ASSUME build \in Builds, NEW v \in Versions
  PROVE  /\ SectorOK([ver |-> v, items |-> <<>>])
         /\ find_free_offset([ver |-> v, items |-> <<>>]) = 0
<1>1. <<>> \in Seq(Items) /\ Len(<<>>) = 0 /\ DOMAIN <<>> = {}
  BY EmptySeq
<1>2. Offsets(<<>>)[0] = 0
  BY <1>1, OffsetSteps
<1>3. PICK sec : sec = [ver |-> v, items |-> <<>>]
  OBVIOUS
<1>4. sec.items = <<>> /\ sec \in [ver : Versions, items : Seq(Items)]
  BY <1>1, <1>3
<1>5. find_free_offset(sec) = 0
  BY <1>1, <1>2, <1>4 DEF find_free_offset
<1>6. SectorOK(sec)
  BY <1>1, <1>4, <1>5, BuildType DEF SectorOK
<1> QED BY <1>3, <1>5, <1>6

LEMMA EraseStep ==
  ASSUME build \in Builds, NEW f, FlashOK(f), NEW s \in Sectors,
         NEW g, g = ApplyOp(f, Erase(s))
  PROVE  /\ FlashOK(g) /\ Ensured(f, Erase(s))
         /\ g[s] = Erased /\ g[Other(s)] = f[Other(s)]
<1>1. Erase(s).op = "erase" /\ Erase(s).sec = s
  BY DEF Erase
<1>2. Replaced(f, g, s, Erased)
  BY <1>1, AppliedErase
<1>3. SectorOK(Erased)
  BY EmptySectorOK DEF Erased, Versions
<1>4. Ensured(f, Erase(s))
  BY <1>1 DEF Ensured
<1> QED BY <1>2, <1>3, <1>4, ReplacedOK

LEMMA HeaderStep ==
  ASSUME build \in Builds, NEW f, FlashOK(f), NEW s \in Sectors,
         NEW v \in {0, NORCOW_VERSION},
         f[s].items = <<>>, f[s].ver \in {NO_MAGIC, 0},
         NEW g, g = ApplyOp(f, Header(s, v))
  PROVE  /\ FlashOK(g) /\ Ensured(f, Header(s, v))
         /\ g[s] = [ver |-> v, items |-> <<>>] /\ g[Other(s)] = f[Other(s)]
<1>1. Header(s, v).op = "header" /\ Header(s, v).sec = s /\ Header(s, v).ver = v
  BY DEF Header
<1>2. Replaced(f, g, s, [ver |-> v, items |-> <<>>])
  BY <1>1, AppliedHeader
<1>3. SectorOK([ver |-> v, items |-> <<>>])
  BY EmptySectorOK DEF Versions
<1>4. Ensured(f, Header(s, v))
  BY <1>1 DEF Ensured
<1> QED BY <1>2, <1>3, <1>4, ReplacedOK

LEMMA TwoOps ==
  ASSUME NEW e, NEW v
  PROVE  <<e>> \o <<v>> = <<e, v>>
<1>1. PICK a : a = <<e>> \o <<v>>
  OBVIOUS
<1>2. PICK b : b = <<e, v>>
  OBVIOUS
<1>3. a \in Seq({e, v}) /\ b \in Seq({e, v}) /\ Len(a) = 2 /\ Len(b) = 2
  BY <1>1, <1>2
<1>4. a[1] = b[1] /\ a[2] = b[2]
  BY <1>1, <1>2
<1>5. \A i \in 1..2 : a[i] = b[i]
  BY <1>4
<1> QED BY <1>1, <1>2, <1>3, <1>5, SeqEqual

LEMMA ThreeOps ==
  ASSUME NEW e, NEW h, NEW v
  PROVE  <<e, h>> \o <<v>> = <<e, h, v>>
<1>1. PICK a : a = <<e, h>> \o <<v>>
  OBVIOUS
<1>2. PICK b : b = <<e, h, v>>
  OBVIOUS
<1>3. a \in Seq({e, h, v}) /\ b \in Seq({e, h, v}) /\ Len(a) = 3 /\ Len(b) = 3
  BY <1>1, <1>2
<1>4. a[1] = b[1] /\ a[2] = b[2] /\ a[3] = b[3]
  BY <1>1, <1>2
<1>5. \A i \in 1..3 : a[i] = b[i]
  BY <1>4
<1> QED BY <1>1, <1>2, <1>3, <1>5, SeqEqual

LEMMA FourOps ==
  ASSUME NEW e, NEW h, NEW v, NEW x
  PROVE  <<e, h, v>> \o <<x>> = <<e, h, v, x>>
<1>1. PICK a : a = <<e, h, v>> \o <<x>>
  OBVIOUS
<1>2. PICK b : b = <<e, h, v, x>>
  OBVIOUS
<1>3. a \in Seq({e, h, v, x}) /\ b \in Seq({e, h, v, x}) /\ Len(a) = 4 /\ Len(b) = 4
  BY <1>1, <1>2
<1>4. a[1] = b[1] /\ a[2] = b[2] /\ a[3] = b[3] /\ a[4] = b[4]
  BY <1>1, <1>2
<1>5. \A i \in 1..4 : a[i] = b[i]
  BY <1>4
<1> QED BY <1>1, <1>2, <1>3, <1>5, SeqEqual

LEMMA EraseSectorIs ==
  ASSUME build \in Builds, NEW s \in Sectors
  PROVE  /\ erase_sector(s, FALSE) = <<Erase(s)>>
         /\ BIT_ACCESS => erase_sector(s, TRUE) =
              <<Erase(s), Header(s, 0), Header(s, NORCOW_VERSION)>>
         /\ ~BIT_ACCESS => erase_sector(s, TRUE) =
              <<Erase(s), Header(s, NORCOW_VERSION)>>
<1> DEFINE e == Erase(s)
           h == Header(s, 0)
           v == Header(s, NORCOW_VERSION)
<1>0. \A m : erase_sector(s, m) =
        <<e>> \o (IF m /\ BIT_ACCESS THEN <<h>> ELSE <<>>)
              \o (IF m THEN <<v>> ELSE <<>>)
  BY DEF erase_sector, Erase, Header
<1> HIDE DEF e, h, v
<1>1. (<<e>> \o <<>>) \o <<>> = <<e>> /\ (<<e>> \o <<>>) \o <<v>> = <<e, v>>
      /\ (<<e>> \o <<h>>) \o <<v>> = <<e, h, v>>
  <2>1. <<e>> \o <<>> = <<e>>
    OBVIOUS
  <2>2. <<e>> \o <<v>> = <<e, v>> /\ <<e>> \o <<h>> = <<e, h>>
    BY TwoOps
  <2>3. <<e, h>> \o <<v>> = <<e, h, v>>
    BY ThreeOps
  <2> QED BY <2>1, <2>2, <2>3, Zenon
<1>2. erase_sector(s, FALSE) = <<e>>
  BY <1>0, <1>1
<1>3. BIT_ACCESS => erase_sector(s, TRUE) = <<e, h, v>>
  BY <1>0, <1>1
<1>4. ~BIT_ACCESS => erase_sector(s, TRUE) = <<e, v>>
  BY <1>0, <1>1
<1> QED BY <1>2, <1>3, <1>4 DEF e, h, v

LEMMA PrepareOps ==
  ASSUME NEW s \in Sectors
  PROVE  /\ Erase(s) \in FlashOps
         /\ Header(s, 0) \in FlashOps /\ Header(s, NORCOW_VERSION) \in FlashOps
BY DEF FlashOps, Erase, Header

LEMMA PrepareStep ==
  ASSUME build \in Builds, NEW f, FlashOK(f), NEW s \in Sectors,
         NEW q, Preparing(f, q, s), NEW g, g = ApplyOp(f, Head(q))
  PROVE  /\ q \in Seq(FlashOps) /\ q # <<>>
         /\ FlashOK(g) /\ Ensured(f, Head(q))
         /\ g[Other(s)] = f[Other(s)]
         /\ Tail(q) # <<>> => Preparing(g, Tail(q), s)
         /\ Tail(q) = <<>> =>
              g[s] = [ver |-> NORCOW_VERSION, items |-> <<>>]
<1> DEFINE h0 == Header(s, 0)
           hV == Header(s, NORCOW_VERSION)
<1>0. Erase(s) \in FlashOps /\ h0 \in FlashOps /\ hV \in FlashOps
  BY PrepareOps
<1>1. CASE q = erase_sector(s, TRUE)
  <2>1. q \in {<<Erase(s), h0, hV>>, <<Erase(s), hV>>}
    BY <1>1, EraseSectorIs, BuildType
  <2> HIDE DEF h0, hV
  <2>2. /\ q \in Seq(FlashOps) /\ q # <<>> /\ Head(q) = Erase(s)
        /\ Tail(q) \in {<<h0, hV>>, <<hV>>}
    <3>1. CASE q = <<Erase(s), h0, hV>>
      BY <1>0, <3>1
    <3>2. CASE q = <<Erase(s), hV>>
      BY <1>0, <3>2
    <3> QED BY <2>1, <3>1, <3>2
  <2>3. /\ FlashOK(g) /\ Ensured(f, Head(q))
        /\ g[s] = Erased /\ g[Other(s)] = f[Other(s)]
    BY <2>2, EraseStep
  <2>4. Preparing(g, Tail(q), s)
    <3>1. g[s].items = <<>> /\ g[s].ver = NO_MAGIC
      BY <2>3 DEF Erased
    <3> DEFINE t == Tail(q)
    <3>2. t = <<h0, hV>> \/ t = <<hV>>
      BY <2>2
    <3> HIDE DEF t
    <3> QED BY <2>3, <3>1, <3>2 DEF Preparing, h0, hV, t
  <2>5. Tail(q) # <<>>
    BY <2>2
  <2> QED BY <2>2, <2>3, <2>4, <2>5
<1>2. CASE q = <<h0, hV>> /\ f[s] = Erased
  <2> HIDE DEF h0, hV
  <2>1. /\ q \in Seq(FlashOps) /\ q # <<>> /\ Head(q) = h0
        /\ Tail(q) = <<hV>> /\ Tail(q) # <<>>
    BY <1>0, <1>2
  <2>2. f[s].items = <<>> /\ f[s].ver \in {NO_MAGIC, 0}
    BY <1>2 DEF Erased
  <2>3. /\ FlashOK(g) /\ Ensured(f, Head(q))
        /\ g[s] = [ver |-> 0, items |-> <<>>] /\ g[Other(s)] = f[Other(s)]
    BY <2>1, <2>2, HeaderStep DEF h0
  <2>4. Preparing(g, Tail(q), s)
    <3>1. g[s].items = <<>> /\ g[s].ver = 0
      BY <2>3
    <3> DEFINE t == Tail(q)
    <3>2. t = <<hV>>
      BY <2>1
    <3> HIDE DEF t
    <3> QED BY <3>1, <3>2 DEF Preparing, hV, t
  <2> QED BY <2>1, <2>3, <2>4
<1>3. CASE /\ q = <<hV>>
           /\ f[s].ver \in {NO_MAGIC, 0} /\ f[s].items = <<>>
  <2> HIDE DEF h0, hV
  <2>1. q \in Seq(FlashOps) /\ q # <<>> /\ Head(q) = hV /\ Tail(q) = <<>>
    BY <1>0, <1>3
  <2>2. /\ FlashOK(g) /\ Ensured(f, Head(q)) /\ g[Other(s)] = f[Other(s)]
        /\ g[s] = [ver |-> NORCOW_VERSION, items |-> <<>>]
    BY <1>3, <2>1, HeaderStep DEF hV
  <2> QED BY <2>1, <2>2
<1> QED BY <1>1, <1>2, <1>3 DEF Preparing


-----------------------------------------------------------------------------
(* The operations that program one item.                                   *)

LEMMA OneOp ==
  ASSUME NEW S, NEW a \in S, NEW q, q = <<a>>
  PROVE  q \in Seq(S) /\ q # <<>> /\ q[1] = a /\ Len(q) = 1
OBVIOUS

(* The operations q program item i of sector s, which reads as was.        *)
PutChain(q, s, i, was) ==
  /\ q \in Seq(FlashOps) /\ q # <<>>
  /\ \A n \in 1..Len(q) :
       /\ q[n].op = "put" /\ q[n].sec = s /\ q[n].pos = i
       /\ Lowers(q[n].item, IF n = 1 THEN was ELSE q[n - 1].item)

LEMMA ChainWriting ==
  ASSUME build \in Builds, NEW f, FlashOK(f), NEW s \in Sectors,
         NEW i \in DOMAIN f[s].items,
         NEW q, PutChain(q, s, i, f[s].items[i])
  PROVE  /\ q \in Seq(FlashOps) /\ q # <<>> /\ Writing(f, q, s, i)
         /\ End(f, q, s) = find_free_offset(f[s])
         /\ Head(q).item.key \in {f[s].items[i].key, NORCOW_KEY_DELETED}
<1>1. /\ q \in Seq(FlashOps) /\ q # <<>> /\ Len(q) \in Nat \ {0}
      /\ Head(q) = q[1]
  BY SeqTail DEF PutChain
<1>2. \A n \in 1..Len(q) :
        /\ q[n].op = "put" /\ q[n].sec = s /\ q[n].pos = i
        /\ Lowers(q[n].item, IF n = 1 THEN f[s].items[i] ELSE q[n - 1].item)
  BY DEF PutChain
<1>3. /\ Head(q).op = "put" /\ Head(q).sec = s /\ Head(q).pos = i
      /\ Lowers(Head(q).item, f[s].items[i])
  BY <1>1, <1>2
<1>4. \A n \in 2..Len(q) :
        /\ q[n].op = "put" /\ q[n].sec = s /\ q[n].pos = i
        /\ Lowers(q[n].item, q[n - 1].item)
  BY <1>1, <1>2
<1>5. Writing(f, q, s, i)
  BY <1>1, <1>3, <1>4 DEF Writing
<1>6. End(f, q, s) = find_free_offset(f[s])
  <2>1. find_free_offset(f[s]) \in Nat
    BY SectorIs, FreeOffsetType
  <2> QED BY <1>3, <2>1 DEF End
<1> QED BY <1>1, <1>3, <1>5, <1>6 DEF Lowers

LEMMA ChainConcat ==
  ASSUME NEW s, NEW i, NEW was, NEW p, PutChain(p, s, i, was),
         NEW q, PutChain(q, s, i, Final(p))
  PROVE  PutChain(p \o q, s, i, was) /\ Final(p \o q) = Final(q)
<1>1. /\ p \in Seq(FlashOps) /\ Len(p) \in Nat \ {0}
      /\ q \in Seq(FlashOps) /\ Len(q) \in Nat \ {0}
  BY SeqTail DEF PutChain
<1>2. PICK r : r = p \o q
  OBVIOUS
<1>3. /\ r \in Seq(FlashOps) /\ Len(r) = Len(p) + Len(q)
      /\ \A n \in 1..Len(p) : r[n] = p[n]
      /\ \A n \in 1..Len(q) : r[Len(p) + n] = q[n]
  BY <1>1, <1>2, ConcatProperties
<1>4. Final(r) = Final(q)
  BY <1>1, <1>3 DEF Final
<1>5. r # <<>>
  BY <1>1, <1>3
<1>6. \A n \in 1..Len(p) :
        /\ p[n].op = "put" /\ p[n].sec = s /\ p[n].pos = i
        /\ Lowers(p[n].item, IF n = 1 THEN was ELSE p[n - 1].item)
  BY DEF PutChain
<1>7. \A n \in 1..Len(q) :
        /\ q[n].op = "put" /\ q[n].sec = s /\ q[n].pos = i
        /\ Lowers(q[n].item, IF n = 1 THEN Final(p) ELSE q[n - 1].item)
  BY DEF PutChain
<1>8. ASSUME NEW n \in 1..Len(r)
      PROVE  /\ r[n].op = "put" /\ r[n].sec = s /\ r[n].pos = i
             /\ Lowers(r[n].item, IF n = 1 THEN was ELSE r[n - 1].item)
  <2>1. CASE n <= Len(p)
    <3>1. n \in 1..Len(p) /\ r[n] = p[n] /\ (n # 1 => r[n - 1] = p[n - 1])
      <4>1. n \in 1..Len(p) /\ (n # 1 => n - 1 \in 1..Len(p))
        BY <1>1, <1>3, <2>1
      <4> QED BY <1>3, <4>1
    <3> QED BY <1>6, <3>1
  <2>2. CASE n > Len(p)
    <3>1. n - Len(p) \in 1..Len(q) /\ r[n] = q[n - Len(p)] /\ n # 1
      BY <1>1, <1>3, <2>2
    <3>2. r[n - 1].item = IF n - Len(p) = 1 THEN Final(p)
                          ELSE q[(n - Len(p)) - 1].item
      <4>1. CASE n - Len(p) = 1
        <5>1. n - 1 = Len(p) /\ n - 1 \in 1..Len(p)
          BY <1>1, <4>1
        <5> QED BY <1>3, <4>1, <5>1 DEF Final
      <4>2. CASE n - Len(p) # 1
        <5>1. PICK m : m = (n - Len(p)) - 1
          OBVIOUS
        <5>2. m \in 1..Len(q) /\ n - 1 = Len(p) + m
          BY <1>1, <3>1, <4>2, <5>1
        <5> QED BY <1>3, <4>2, <5>1, <5>2
      <4> QED BY <4>1, <4>2
    <3> QED BY <1>7, <3>1, <3>2
  <2> QED BY <1>1, <1>3, <2>1, <2>2
<1> QED BY <1>2, <1>3, <1>4, <1>5, <1>8 DEF PutChain

(* A sequence of states of an item, each programmed over the one before.   *)
Lowering(states, was) ==
  /\ states \in Seq(Items) /\ states # <<>>
  /\ \A n \in 1..Len(states) :
       Lowers(states[n], IF n = 1 THEN was ELSE states[n - 1])

LEMMA PutsAre ==
  ASSUME NEW s \in Sectors, NEW i \in Nat, NEW states \in Seq(Items)
  PROVE  /\ Puts(s, i, states) \in Seq(FlashOps)
         /\ Len(Puts(s, i, states)) = Len(states)
         /\ \A n \in 1..Len(states) :
              Puts(s, i, states)[n]
                = [op |-> "put", sec |-> s, pos |-> i, item |-> states[n]]
<1>1. Len(states) \in Nat /\ \A n \in 1..Len(states) : states[n] \in Items
  BY ElementOfSeq
<1>2. \A it \in Items :
        [op |-> "put", sec |-> s, pos |-> i, item |-> it] \in FlashOps
  BY DEF FlashOps
<1>3. PICK q : q = Puts(s, i, states)
  OBVIOUS
<1>4. q = [n \in 1..Len(states) |->
             [op |-> "put", sec |-> s, pos |-> i, item |-> states[n]]]
  BY <1>3 DEF Puts
<1>5. q \in [1..Len(states) -> FlashOps]
  BY <1>1, <1>2, <1>4
<1>6. q \in Seq(FlashOps) /\ DOMAIN q = 1..Len(states)
  BY <1>1, <1>5
<1>7. Len(q) = Len(states)
  BY <1>1, <1>6, LenProperties
<1> QED BY <1>3, <1>4, <1>6, <1>7

LEMMA PutsChain ==
  ASSUME NEW s \in Sectors, NEW i \in Nat, NEW was, NEW states,
         Lowering(states, was)
  PROVE  /\ PutChain(Puts(s, i, states), s, i, was)
         /\ Final(Puts(s, i, states)) = states[Len(states)]
<1>1. states \in Seq(Items) /\ Len(states) \in Nat \ {0}
  BY SeqTail DEF Lowering
<1>2. PICK q : q = Puts(s, i, states)
  OBVIOUS
<1>3. /\ q \in Seq(FlashOps) /\ Len(q) = Len(states)
      /\ \A n \in 1..Len(states) :
           q[n] = [op |-> "put", sec |-> s, pos |-> i, item |-> states[n]]
  BY <1>1, <1>2, PutsAre
<1>4. \A n \in 1..Len(states) : q[n].op = "put" /\ q[n].sec = s
        /\ q[n].pos = i /\ q[n].item = states[n]
  <2> TAKE n \in 1..Len(states)
  <2>1. q[n] = [op |-> "put", sec |-> s, pos |-> i, item |-> states[n]]
    BY <1>3
  <2> QED BY <2>1
<1>5. q # <<>>
  BY <1>1, <1>3
<1>6. \A n \in 1..Len(states) :
        Lowers(states[n], IF n = 1 THEN was ELSE states[n - 1])
  BY DEF Lowering
<1>7. ASSUME NEW n \in 1..Len(q)
      PROVE  Lowers(q[n].item, IF n = 1 THEN was ELSE q[n - 1].item)
  <2>1. n # 1 => n - 1 \in 1..Len(states)
    BY <1>1, <1>3
  <2> QED BY <1>3, <1>4, <1>6, <2>1
<1>8. PutChain(q, s, i, was)
  BY <1>3, <1>4, <1>5, <1>7 DEF PutChain
<1>9. Final(q) = states[Len(states)]
  BY <1>1, <1>3, <1>4 DEF Final
<1> QED BY <1>2, <1>8, <1>9


LEMMA LowersItem ==
  ASSUME build \in Builds, NEW k \in Keys \cup {NORCOW_KEY_DELETED},
         NEW v \in Value, NEW was \in Items,
         was.val \in Value, Len(was.val) = Len(v),
         k \in {was.key, NORCOW_KEY_DELETED},
         \A j \in 1..Len(v) : v[j] <= was.val[j],
         NEW it, it = [key |-> k, val |-> v]
  PROVE  it \in Items /\ Lowers(it, was)
<1>1. it.key = k /\ it.val = v /\ it \in Items
  BY DEF Items
<1>2. DOMAIN it.val = 1..Len(v)
  BY <1>1, ValueType
<1>3. Size(it) = Size(was)
  BY <1>1 DEF Size
<1> QED BY <1>1, <1>2, <1>3 DEF Lowers, HasValue

LEMMA KeyTypes ==
  /\ NORCOW_KEY_DELETED = 0 /\ NORCOW_KEY_DELETED \notin Keys
  /\ \A k \in Keys : k # NORCOW_KEY_DELETED /\ k # NONE
  /\ NONE \notin Value
<1>1. NORCOW_KEY_DELETED \notin Keys
  BY NorcowAssumption
<1>2. NONE \notin Value \cup Keys
  BY NoneAssumption
<1> QED BY <1>1, <1>2 DEF NORCOW_KEY_DELETED

LEMMA LiveItem ==
  ASSUME NEW it \in Items, it.key # NORCOW_KEY_DELETED, HasValue(it)
  PROVE  it.key \in Keys /\ it.val \in Value
BY DEF Items, HasValue

(* norcow_delete_item programs the item down to a deleted one.             *)
LEMMA DeleteBitwiseOK ==
  ASSUME build \in Builds, NEW it \in Items, it.key \in Keys, it.val \in Value
  PROVE  /\ Lowering(DeleteBitwise(it), it)
         /\ DeleteBitwise(it)[Len(DeleteBitwise(it))].key = NORCOW_KEY_DELETED
<1> DEFINE n == Len(it.val)
           D == NORCOW_KEY_DELETED
           State(m) == [key |-> D, val |-> Splice(Zeros(n), it.val, m - 1)]
<1>1. /\ n \in Lens /\ n \in Nat \ {0}
      /\ \A j \in 1..n : it.val[j] \in 0..1
      /\ Zeros(n) \in Value /\ Len(Zeros(n)) = n /\ \A j \in 1..n : Zeros(n)[j] = 0
  BY ValueType, ConstantType
<1> HIDE DEF n
<1>2. \A m \in 1..(n + 1) :
        LET z == Splice(Zeros(n), it.val, m - 1)
        IN z \in Value /\ Len(z) = n
           /\ \A j \in 1..n : z[j] = IF j <= m - 1 THEN 0 ELSE it.val[j]
  <2> TAKE m \in 1..(n + 1)
  <2>1. m - 1 \in Int /\ Len(it.val) = n
    BY <1>1 DEF n
  <2> QED BY <1>1, <2>1, SpliceType
<1>3. PICK q : q = DeleteBitwise(it)
  OBVIOUS
<1>4. q = [m \in 1..(n + 1) |-> State(m)]
  BY <1>3 DEF DeleteBitwise, n
<1>5. \A m \in 1..(n + 1) : State(m) \in Items /\ State(m).val \in Value
        /\ State(m).key = D /\ Len(State(m).val) = n
        /\ \A j \in 1..n : State(m).val[j] = IF j <= m - 1 THEN 0 ELSE it.val[j]
  <2> TAKE m \in 1..(n + 1)
  <2>1. PICK z : z = Splice(Zeros(n), it.val, m - 1)
    OBVIOUS
  <2>2. z \in Value /\ Len(z) = n
        /\ \A j \in 1..n : z[j] = IF j <= m - 1 THEN 0 ELSE it.val[j]
    BY <1>2, <2>1
  <2>3. State(m) = [key |-> D, val |-> z]
    BY <2>1
  <2> HIDE DEF State
  <2> QED BY <2>2, <2>3 DEF Items
<1> HIDE DEF State
<1>6. q \in Seq(Items) /\ Len(q) = n + 1 /\ \A m \in 1..(n + 1) : q[m] = State(m)
  <2>1. q \in [1..(n + 1) -> Items]
    BY <1>4, <1>5
  <2>2. q \in Seq(Items) /\ DOMAIN q = 1..(n + 1)
    BY <1>1, <2>1
  <2>3. Len(q) = n + 1
    BY <1>1, <2>2, LenProperties
  <2> QED BY <1>4, <2>2, <2>3
<1>7. ASSUME NEW m \in 1..Len(q)
      PROVE  Lowers(q[m], IF m = 1 THEN it ELSE q[m - 1])
  <2>1. m \in 1..(n + 1) /\ q[m] = State(m)
    BY <1>6
  <2>2. PICK was : was = IF m = 1 THEN it ELSE q[m - 1]
    OBVIOUS
  <2>3. /\ was \in Items /\ was.val \in Value /\ Len(was.val) = n
        /\ \A j \in 1..n : State(m).val[j] <= was.val[j]
    <3>1. CASE m = 1
      BY <1>1, <1>5, <2>1, <2>2, <3>1 DEF n
    <3>2. CASE m # 1
      <4>1. m - 1 \in 1..(n + 1) /\ was = State(m - 1)
        BY <1>1, <1>6, <2>1, <2>2, <3>2
      <4>2. \A j \in 1..n : State(m).val[j] = (IF j <= m - 1 THEN 0 ELSE it.val[j])
              /\ was.val[j] = IF j <= (m - 1) - 1 THEN 0 ELSE it.val[j]
        BY <1>5, <2>1, <4>1
      <4>3. \A j \in 1..n : State(m).val[j] <= was.val[j]
        BY <1>1, <4>2
      <4> QED BY <1>5, <4>1, <4>3
    <3> QED BY <3>1, <3>2
  <2>4. State(m) \in Items /\ State(m).val \in Value /\ State(m).key = D
        /\ Len(State(m).val) = n
    BY <1>5, <2>1
  <2>5. State(m) = [key |-> D, val |-> State(m).val]
    BY <2>4, ItemType
  <2>6. Lowers(State(m), was)
    BY <2>3, <2>4, <2>5, LowersItem
  <2> QED BY <2>1, <2>2, <2>6
<1>8. q # <<>>
  BY <1>1, <1>6
<1>9. q[Len(q)].key = D
  BY <1>1, <1>5, <1>6
<1> QED BY <1>3, <1>6, <1>7, <1>8, <1>9 DEF Lowering


LEMMA StatesLower ==
  ASSUME NEW N \in Nat \ {0}, NEW was, NEW q, q = [m \in 1..N |-> q[m]],
         \A m \in 1..N : q[m] \in Items,
         \A m \in 1..N : Lowers(q[m], IF m = 1 THEN was ELSE q[m - 1])
  PROVE  Lowering(q, was) /\ Len(q) = N
<1>1. q \in [1..N -> Items]
  OBVIOUS
<1>2. q \in Seq(Items) /\ DOMAIN q = 1..N
  BY <1>1
<1>3. Len(q) = N
  BY <1>2, LenProperties
<1>4. q # <<>>
  BY <1>2, <1>3
<1> QED BY <1>2, <1>3, <1>4 DEF Lowering

LEMMA DeleteSmallOK ==
  ASSUME build \in Builds, NEW it \in Items, it.key \in Keys, it.val \in Value,
         IsSmall(Len(it.val))
  PROVE  Lowering(<<[key |-> NORCOW_KEY_DELETED, val |-> <<>>]>>, it)
<1>1. PICK new : new = [key |-> NORCOW_KEY_DELETED, val |-> <<>>]
  OBVIOUS
<1>2. new \in Items /\ new.key = NORCOW_KEY_DELETED /\ new.val = <<>>
  BY <1>1 DEF Items
<1>3. IsSmall(0)
  <2>1. Len(it.val) \in Nat /\ SMALL_ITEM_SIZE \in Nat
    BY ValueType, BuildType
  <2> QED BY <2>1 DEF IsSmall
<1>4. Size(new) = 1 /\ Size(it) = 1
  <2>1. Len(new.val) = 0
    BY <1>2
  <2> QED BY <1>3, <2>1 DEF Size, ItemSize
<1>5. Lowers(new, it)
  <2>1. DOMAIN new.val = {}
    BY <1>2
  <2> QED BY <1>2, <1>4, <2>1 DEF Lowers, HasValue
<1>6. <<new>> \in Seq(Items) /\ <<new>> # <<>> /\ Len(<<new>>) = 1 /\ <<new>>[1] = new
  BY <1>2
<1>7. Lowering(<<new>>, it)
  BY <1>5, <1>6 DEF Lowering
<1> QED BY <1>1, <1>7

LEMMA DeleteBlockwiseOK ==
  ASSUME build \in Builds, NEW it \in Items, it.key \in Keys, it.val \in Value
  PROVE  /\ Lowering(DeleteBlockwise(it), it)
         /\ DeleteBlockwise(it)[Len(DeleteBlockwise(it))].key = NORCOW_KEY_DELETED
<1>1. CASE IsSmall(Len(it.val))
  <2>1. PICK new : new = [key |-> NORCOW_KEY_DELETED, val |-> <<>>]
    OBVIOUS
  <2>2. DeleteBlockwise(it) = <<new>>
    BY <1>1, <2>1 DEF DeleteBlockwise
  <2>3. Lowering(<<new>>, it)
    BY <1>1, <2>1, DeleteSmallOK
  <2>4. new.key = NORCOW_KEY_DELETED /\ <<new>>[Len(<<new>>)] = new
    BY <2>1
  <2> QED BY <2>2, <2>3, <2>4
<1>2. CASE ~IsSmall(Len(it.val))
  <2> DEFINE n == Len(it.val)
             D == NORCOW_KEY_DELETED
             State(m) == IF m < n THEN [it EXCEPT !.val = Splice(Zeros(n), it.val, m)]
                         ELSE [key |-> D, val |-> Zeros(n)]
  <2>1. /\ n \in Lens /\ n \in Nat \ {0}
        /\ \A j \in 1..n : it.val[j] \in 0..1
        /\ Zeros(n) \in Value /\ Len(Zeros(n)) = n /\ \A j \in 1..n : Zeros(n)[j] = 0
    BY ValueType, ConstantType
  <2>2. PICK q : q = DeleteBlockwise(it)
    OBVIOUS
  <2>3. q = [m \in 1..n |-> State(m)]
    BY <1>2, <2>2 DEF DeleteBlockwise
  <2>h. Len(it.val) = n
    OBVIOUS
  <2> HIDE DEF n
  <2>4. \A m \in 1..n : State(m) \in Items /\ State(m).val \in Value
          /\ State(m).key = (IF m < n THEN it.key ELSE D) /\ Len(State(m).val) = n
          /\ \A j \in 1..n : State(m).val[j] = IF j <= m THEN 0 ELSE it.val[j]
    <3> TAKE m \in 1..n
    <3>1. CASE m < n
      <4>1. PICK z : z = Splice(Zeros(n), it.val, m)
        OBVIOUS
      <4>2. z \in Value /\ Len(z) = n
            /\ \A j \in 1..n : z[j] = IF j <= m THEN 0 ELSE it.val[j]
        <5>1. m \in Int
          BY <2>1
        <5> QED BY <2>1, <2>h, <4>1, <5>1, SpliceType
      <4>3. State(m) = [key |-> it.key, val |-> z]
        <5>1. it = [key |-> it.key, val |-> it.val]
          BY ItemType
        <5> QED BY <3>1, <4>1, <5>1
      <4> HIDE DEF State
      <4> QED BY <3>1, <4>2, <4>3 DEF Items
    <3>2. CASE ~(m < n)
      <4>1. State(m) = [key |-> D, val |-> Zeros(n)]
        BY <3>2
      <4>2. \A j \in 1..n : j <= m
        BY <2>1, <3>2
      <4> HIDE DEF State
      <4> QED BY <2>1, <3>2, <4>1, <4>2 DEF Items
    <3> QED BY <3>1, <3>2
  <2> HIDE DEF State
  <2>5. \A m \in 1..n : q[m] = State(m)
    BY <2>3
  <2>6. ASSUME NEW m \in 1..n
        PROVE  Lowers(q[m], IF m = 1 THEN it ELSE q[m - 1])
    <3>1. q[m] = State(m)
      BY <2>5
    <3>2. PICK was : was = IF m = 1 THEN it ELSE q[m - 1]
      OBVIOUS
    <3>3. /\ was \in Items /\ was.val \in Value /\ Len(was.val) = n
          /\ was.key = it.key
          /\ \A j \in 1..n : State(m).val[j] <= was.val[j]
      <4>1. CASE m = 1
        <5>1. was = it
          BY <3>2, <4>1
        <5>2. \A j \in 1..n : State(m).val[j] = IF j <= m THEN 0 ELSE it.val[j]
          BY <2>4
        <5>3. \A j \in 1..n : State(m).val[j] <= it.val[j]
          BY <2>1, <5>2
        <5> QED BY <2>h, <5>1, <5>3
      <4>2. CASE m # 1
        <5>1. m - 1 \in 1..n /\ was = State(m - 1) /\ m - 1 < n
          BY <2>1, <2>5, <3>2, <4>2
        <5>2. \A j \in 1..n : State(m).val[j] = (IF j <= m THEN 0 ELSE it.val[j])
                /\ was.val[j] = IF j <= m - 1 THEN 0 ELSE it.val[j]
          BY <2>4, <5>1
        <5>3. \A j \in 1..n : State(m).val[j] <= was.val[j]
          BY <2>1, <5>2
        <5> QED BY <2>4, <5>1, <5>3
      <4> QED BY <4>1, <4>2
    <3>4. State(m) \in Items /\ State(m).val \in Value
          /\ State(m).key \in {it.key, D} /\ Len(State(m).val) = n
      BY <2>4
    <3>5. State(m) = [key |-> State(m).key, val |-> State(m).val]
          /\ State(m).key \in Keys \cup {NORCOW_KEY_DELETED}
      BY <3>4, ItemType
    <3>6. Lowers(State(m), was)
      BY <3>3, <3>4, <3>5, LowersItem
    <3> QED BY <3>1, <3>2, <3>6
  <2>7. \A m \in 1..n : q[m] \in Items
    BY <2>4, <2>5
  <2>8. q = [m \in 1..n |-> q[m]]
    BY <2>3
  <2>9. Lowering(q, it) /\ Len(q) = n
    BY <2>1, <2>6, <2>7, <2>8, StatesLower
  <2>10. q[n].key = D
    BY <2>1, <2>4, <2>5
  <2> QED BY <2>2, <2>9, <2>10
<1> QED BY <1>1, <1>2

LEMMA DeleteItemOK ==
  ASSUME build \in Builds, NEW s \in Sectors, NEW i \in Nat,
         NEW it \in Items, it.key \in Keys, it.val \in Value
  PROVE  /\ PutChain(norcow_delete_item(s, i, it), s, i, it)
         /\ Final(norcow_delete_item(s, i, it)).key = NORCOW_KEY_DELETED
<1>1. PICK q : q = IF BIT_ACCESS THEN DeleteBitwise(it) ELSE DeleteBlockwise(it)
  OBVIOUS
<1>2. Lowering(q, it) /\ q[Len(q)].key = NORCOW_KEY_DELETED
  BY <1>1, DeleteBitwiseOK, DeleteBlockwiseOK
<1>3. norcow_delete_item(s, i, it) = Puts(s, i, q)
  BY <1>1 DEF norcow_delete_item
<1> QED BY <1>2, <1>3, PutsChain


LEMMA SpliceEnds ==
  ASSUME NEW v \in Value, NEW w \in Value, Len(v) = Len(w)
  PROVE  Splice(v, w, Len(v)) = v /\ Splice(v, w, 0) = w
<1>1. /\ Len(v) \in Nat /\ v = [j \in 1..Len(v) |-> v[j]]
      /\ w = [j \in 1..Len(v) |-> w[j]]
  BY ValueType
<1>2. Splice(v, w, Len(v)) = [j \in 1..Len(v) |-> v[j]]
  <2>1. \A j \in 1..Len(v) : j <= Len(v)
    BY <1>1
  <2> QED BY <2>1 DEF Splice
<1>3. Splice(v, w, 0) = [j \in 1..Len(v) |-> w[j]]
  BY <1>1 DEF Splice
<1> QED BY <1>1, <1>2, <1>3

LEMMA WritableIs ==
  ASSUME build \in Builds, NEW old \in Value, NEW v \in Value,
         NEW m, m = Writable(old, v)
  PROVE  /\ m \in 0..Len(v) /\ (m > 0 => Len(old) = Len(v))
         /\ \A j \in 1..m : v[j] <= old[j]
         /\ ~BIT_ACCESS /\ m > 0 => old = v /\ m = Len(v)
<1>1. /\ Len(v) \in Nat \ {0} /\ \A j \in 1..Len(v) : v[j] \in 0..1
      /\ Len(old) \in Nat /\ \A j \in 1..Len(old) : old[j] \in 0..1
  BY ValueType
<1>2. CASE Len(old) # Len(v)
  BY <1>1, <1>2 DEF Writable
<1>3. CASE Len(old) = Len(v) /\ ~BIT_ACCESS
  BY <1>1, <1>3 DEF Writable
<1>4. CASE Len(old) = Len(v) /\ BIT_ACCESS
  <2> DEFINE bad == {j \in 1..Len(v) : v[j] > old[j]}
  <2>1. CASE bad = {}
    <3>1. m = Len(v)
      BY <1>4, <2>1 DEF Writable
    <3>2. \A j \in 1..Len(v) : v[j] <= old[j]
      <4> TAKE j \in 1..Len(v)
      <4>1. ~(v[j] > old[j])
        BY <2>1
      <4> QED BY <1>1, <1>4, <4>1
    <3> QED BY <1>1, <1>4, <3>1, <3>2
  <2>2. CASE bad # {}
    <3>1. PICK b : b = CHOOSE j \in bad : \A i \in bad : j <= i
      OBVIOUS
    <3>2. m = b - 1
      BY <1>4, <2>2, <3>1 DEF Writable
    <3>3. bad \subseteq Nat
      BY <1>1
    <3>4. \E j \in bad : \A i \in bad : j <= i
      BY <2>2, <3>3, Least
    <3>5. b \in bad /\ \A i \in bad : b <= i
      BY <3>1, <3>4
    <3>6. b \in 1..Len(v)
      BY <3>5
    <3>7. ASSUME NEW j \in 1..m
          PROVE  v[j] <= old[j]
      <4>1. j \in 1..Len(v) /\ j < b
        BY <1>1, <3>2, <3>6
      <4>2. j \notin bad
        BY <3>5, <3>6, <4>1
      <4> QED BY <1>1, <1>4, <4>1, <4>2
    <3> QED BY <1>1, <1>4, <3>2, <3>6, <3>7
  <2> QED BY <2>1, <2>2
<1> QED BY <1>2, <1>3, <1>4

(* The update in place of norcow_set_ex, cell by cell.                     *)
Updating(old, v, m) ==
  [j \in 1..m |-> [key |-> old.key, val |-> Splice(v, old.val, j)]]

LEMMA UpdateOK ==
  ASSUME build \in Builds, NEW s \in Sectors, NEW i \in Nat,
         NEW old \in Items, old.key \in Keys, old.val \in Value,
         NEW v \in Value, Len(old.val) = Len(v),
         NEW m \in 1..Len(v), \A j \in 1..m : v[j] <= old.val[j],
         NEW st, st = Updating(old, v, m),
         NEW q, q = Puts(s, i, st)
  PROVE  /\ PutChain(q, s, i, old)
         /\ Final(q) = [key |-> old.key, val |-> Splice(v, old.val, m)]
<1> DEFINE n == Len(v)
           State(j) == [key |-> old.key, val |-> Splice(v, old.val, j)]
<1>1. /\ n \in Nat \ {0} /\ m \in Nat \ {0}
      /\ \A j \in 1..n : v[j] \in 0..1 /\ old.val[j] \in 0..1
  BY ValueType
<1>2. st = [j \in 1..m |-> State(j)]
  BY DEF Updating
<1>3. q = Puts(s, i, st)
  OBVIOUS
<1>4. \A l \in 1..m : State(l) = [key |-> old.key, val |-> Splice(v, old.val, l)]
  OBVIOUS
<1>h. Len(v) = n
  OBVIOUS
<1> HIDE DEF State, n
<1>5. \A l \in 1..m : State(l) \in Items /\ State(l).val \in Value
        /\ State(l).key = old.key /\ Len(State(l).val) = n
        /\ \A j \in 1..n : State(l).val[j] = IF j <= l THEN v[j] ELSE old.val[j]
  <2> TAKE l \in 1..m
  <2>1. PICK z : z = Splice(v, old.val, l)
    OBVIOUS
  <2>2. z \in Value /\ Len(z) = n
        /\ \A j \in 1..n : z[j] = IF j <= l THEN v[j] ELSE old.val[j]
    <3>1. l \in Int /\ Len(v) = Len(old.val)
      OBVIOUS
    <3>2. z \in Value /\ Len(z) = Len(v)
          /\ \A j \in 1..Len(v) : z[j] = IF j <= l THEN v[j] ELSE old.val[j]
      BY <2>1, <3>1, SpliceType
    <3> QED BY <1>h, <3>2
  <2>3. State(l) = [key |-> old.key, val |-> z]
    BY <1>4, <2>1
  <2> QED BY <2>2, <2>3 DEF Items
<1>6. \A l \in 1..m : st[l] = State(l)
  BY <1>2
<1>7. ASSUME NEW l \in 1..m
      PROVE  Lowers(st[l], IF l = 1 THEN old ELSE st[l - 1])
  <2>1. PICK was : was = IF l = 1 THEN old ELSE st[l - 1]
    OBVIOUS
  <2>2. /\ was \in Items /\ was.val \in Value /\ Len(was.val) = n /\ was.key = old.key
        /\ \A j \in 1..n : was.val[j] = IF j <= l - 1 THEN v[j] ELSE old.val[j]
    <3>1. CASE l = 1
      BY <1>1, <1>h, <2>1, <3>1
    <3>2. CASE l # 1
      <4>1. l - 1 \in 1..m /\ was = State(l - 1)
        BY <1>6, <2>1, <3>2
      <4> QED BY <1>5, <4>1
    <3> QED BY <3>1, <3>2
  <2>3. \A j \in 1..n : State(l).val[j] <= was.val[j]
    <3> TAKE j \in 1..n
    <3>1. State(l).val[j] = (IF j <= l THEN v[j] ELSE old.val[j])
          /\ was.val[j] = IF j <= l - 1 THEN v[j] ELSE old.val[j]
      BY <1>5, <2>2
    <3>2. j = l => v[j] <= old.val[j]
      OBVIOUS
    <3>3. l \in Nat /\ j \in Nat /\ v[j] \in 0..1 /\ old.val[j] \in 0..1
      BY <1>1
    <3> QED BY <3>1, <3>2, <3>3
  <2>4. State(l) \in Items /\ State(l).val \in Value
        /\ State(l).key = old.key /\ Len(State(l).val) = n
    BY <1>5
  <2>5. State(l) = [key |-> State(l).key, val |-> State(l).val]
    BY <2>4, ItemType
  <2>6. Lowers(State(l), was)
    BY <2>2, <2>3, <2>4, <2>5, LowersItem
  <2> QED BY <1>6, <2>1, <2>6
<1>8. Lowering(st, old) /\ Len(st) = m
  <2>1. st = [l \in 1..m |-> st[l]]
    BY <1>2
  <2>2. \A l \in 1..m : st[l] \in Items
    BY <1>5, <1>6
  <2>3. m \in Nat \ {0}
    BY <1>1
  <2> QED BY <1>7, <2>1, <2>2, <2>3, StatesLower
<1>9. st[m] = [key |-> old.key, val |-> Splice(v, old.val, m)]
  BY <1>1, <1>4, <1>6
<1> QED BY <1>3, <1>8, <1>9, PutsChain


Then(a, p) == <<a>> \o p

(* The operations q are a, then those of p on the same item.               *)
AndPuts(q, a, p, s, i) ==
  /\ q \in Seq(FlashOps) /\ q # <<>> /\ q[1] = a /\ Final(q) = Final(p)
  /\ \A l \in 2..Len(q) :
       /\ q[l].op = "put" /\ q[l].sec = s /\ q[l].pos = i
       /\ Lowers(q[l].item, q[l - 1].item)

LEMMA AppendThenPuts ==
  ASSUME NEW a \in FlashOps, NEW s, NEW i, NEW p, PutChain(p, s, i, a.item),
         NEW q, q = Then(a, p)
  PROVE  AndPuts(q, a, p, s, i)
<1>1. /\ p \in Seq(FlashOps) /\ Len(p) \in Nat \ {0}
      /\ \A l \in 1..Len(p) :
           /\ p[l].op = "put" /\ p[l].sec = s /\ p[l].pos = i
           /\ Lowers(p[l].item, IF l = 1 THEN a.item ELSE p[l - 1].item)
  BY SeqTail DEF PutChain
<1>2. PICK b : b = <<a>>
  OBVIOUS
<1>3. b \in Seq(FlashOps) /\ Len(b) = 1 /\ b[1] = a
  BY <1>2, OneOp
<1>4. b \in Seq(FlashOps) /\ p \in Seq(FlashOps)
  BY <1>1, <1>3
<1>5. /\ b \o p \in Seq(FlashOps) /\ Len(b \o p) = Len(b) + Len(p)
      /\ \A l \in 1..(Len(b) + Len(p)) :
           (b \o p)[l] = IF l <= Len(b) THEN b[l] ELSE p[l - Len(b)]
  BY <1>4, ConcatProperties, Zenon
<1>c. q = b \o p
  BY <1>2 DEF Then
<1>d. /\ q \in Seq(FlashOps) /\ Len(q) = Len(b) + Len(p)
      /\ \A l \in 1..(Len(b) + Len(p)) :
           q[l] = IF l <= Len(b) THEN b[l] ELSE p[l - Len(b)]
  BY <1>5, <1>c, Zenon
<1>6. /\ q \in Seq(FlashOps) /\ Len(q) = Len(p) + 1 /\ q[1] = a
      /\ \A l \in 1..Len(p) : q[1 + l] = p[l]
  BY <1>1, <1>3, <1>d
<1>7. ASSUME NEW l \in 2..Len(q)
      PROVE  /\ q[l].op = "put" /\ q[l].sec = s /\ q[l].pos = i
             /\ Lowers(q[l].item, q[l - 1].item)
  <2>1. PICK m : m = l - 1
    OBVIOUS
  <2>2. m \in 1..Len(p) /\ l = 1 + m
    BY <1>1, <1>6, <2>1
  <2>3. q[l] = p[m]
    BY <1>6, <2>2
  <2>4. q[m].item = IF m = 1 THEN a.item ELSE p[m - 1].item
    <3>1. CASE m = 1
      BY <1>6, <3>1
    <3>2. CASE m # 1
      <4>1. m - 1 \in 1..Len(p) /\ 1 + (m - 1) = m
        BY <1>1, <2>2, <3>2
      <4>2. q[1 + (m - 1)] = p[m - 1]
        BY <1>6, <4>1
      <4> QED BY <3>2, <4>1, <4>2
    <3> QED BY <3>1, <3>2
  <2> QED BY <1>1, <2>1, <2>2, <2>3, <2>4
<1>8. Final(q) = Final(p)
  <2>1. Len(q) = 1 + Len(p) /\ Len(p) \in 1..Len(p)
    BY <1>1, <1>6
  <2> QED BY <1>6, <2>1 DEF Final
<1>9. q # <<>>
  BY <1>1, <1>6
<1> QED BY <1>6, <1>7, <1>8, <1>9 DEF AndPuts

(* write_item appends the item and then programs its cells.                *)
Written(f, q, s, i, k, v) ==
  /\ q \in Seq(FlashOps) /\ q # <<>> /\ Writing(f, q, s, i)
  /\ Head(q).op = "append" /\ Head(q).item.key = k
  /\ Final(q) = [key |-> k, val |-> v]
  /\ End(f, q, s) = find_free_offset(f[s]) + ItemSize(Len(v))

LEMMA WriteItemOK ==
  ASSUME build \in Builds, NEW f, FlashOK(f), NEW s \in Sectors,
         NEW k \in Keys, NEW v \in Value, NEW fill \in BOOLEAN,
         fill \/ v = Ones(Len(v)), Fresh(f[s].items, k),
         find_free_offset(f[s]) + ItemSize(Len(v)) <= SECTOR_SIZE,
         NEW i, i = Len(f[s].items) + 1,
         NEW q, q = write_item(s, i, k, v, fill)
  PROVE  Written(f, q, s, i, k, v)
<1> DEFINE n == Len(v)
           Item(m) == [key |-> k, val |-> Splice(v, Ones(n), m)]
           A(it) == [op |-> "append", sec |-> s, item |-> it]
           states == [m \in 1..n |-> Item(m)]
<1>1. /\ n \in Lens /\ n \in Nat \ {0}
      /\ \A j \in 1..n : v[j] \in 0..1 /\ Ones(n)[j] = 1
      /\ Ones(n) \in Value /\ Len(Ones(n)) = n
  BY ValueType, ConstantType
<1>2. q = IF IsSmall(n) THEN <<A(Item(n))>>
          ELSE <<A(Item(0))>> \o (IF fill THEN Puts(s, i, states) ELSE <<>>)
  BY DEF write_item
<1>h. Len(v) = n
  OBVIOUS
<1>3. \A m \in 0..n : /\ Item(m) \in Items /\ Item(m).val \in Value
                      /\ Item(m).key = k /\ Len(Item(m).val) = n
                      /\ Size(Item(m)) = ItemSize(n) /\ HasValue(Item(m))
                      /\ \A j \in 1..n : Item(m).val[j] = IF j <= m THEN v[j] ELSE 1
  <2> HIDE DEF n
  <2> TAKE m \in 0..n
  <2>1. PICK z : z = Splice(v, Ones(n), m)
    OBVIOUS
  <2>2. z \in Value /\ Len(z) = n
        /\ \A j \in 1..n : z[j] = IF j <= m THEN v[j] ELSE 1
    <3>1. m \in Int /\ Len(v) = Len(Ones(n))
      BY <1>1, <1>h
    <3>2. z \in Value /\ Len(z) = Len(v)
          /\ \A j \in 1..Len(v) : z[j] = IF j <= m THEN v[j] ELSE Ones(n)[j]
      BY <1>1, <2>1, <3>1, SpliceType
    <3> QED BY <1>1, <1>h, <3>2
  <2>3. Item(m) = [key |-> k, val |-> z]
    BY <2>1
  <2> HIDE DEF Item
  <2>4. Item(m).key = k /\ Item(m).val = z
    BY <2>3
  <2> QED BY <2>2, <2>3, <2>4 DEF Items, HasValue, Size
<1>4. Item(n) = [key |-> k, val |-> v] /\ (~fill => Item(0) = [key |-> k, val |-> v])
  BY <1>1, SpliceEnds
<1> HIDE DEF n, Item
<1>5. \A m \in 0..n : A(Item(m)) \in FlashOps
  BY <1>3 DEF FlashOps
<1>6. \A m \in 0..n : A(Item(m)).op = "append" /\ A(Item(m)).sec = s
        /\ A(Item(m)).item = Item(m)
  OBVIOUS
<1> HIDE DEF A
<1>7. ASSUME NEW m \in 0..n, q # <<>>, q \in Seq(FlashOps), q[1] = A(Item(m)),
             \A l \in 2..Len(q) :
               /\ q[l].op = "put" /\ q[l].sec = s /\ q[l].pos = i
               /\ Lowers(q[l].item, q[l - 1].item)
      PROVE  /\ Writing(f, q, s, i)
             /\ Head(q).op = "append" /\ Head(q).item.key = k
             /\ End(f, q, s) = find_free_offset(f[s]) + ItemSize(n)
  <2>1. Head(q) = A(Item(m))
    BY <1>7, SeqTail
  <2>2. Head(q).op = "append" /\ Head(q).sec = s /\ Head(q).item = Item(m)
    BY <1>6, <2>1
  <2>3. Head(q).item.key = k /\ HasValue(Head(q).item)
        /\ Size(Head(q).item) = ItemSize(n)
    BY <1>3, <2>2
  <2>4. Writing(f, q, s, i)
    BY <1>7, <1>h, <2>2, <2>3 DEF Writing
  <2>5. End(f, q, s) = find_free_offset(f[s]) + ItemSize(n)
    BY <1>7, <2>2, <2>3 DEF End
  <2> QED BY <2>2, <2>3, <2>4, <2>5
<1>8. ASSUME NEW m \in 0..n, q = <<A(Item(m))>>, Item(m) = [key |-> k, val |-> v]
      PROVE  /\ q \in Seq(FlashOps) /\ q # <<>> /\ Writing(f, q, s, i)
             /\ Head(q).op = "append" /\ Head(q).item.key = k
             /\ Final(q) = [key |-> k, val |-> v]
             /\ End(f, q, s) = find_free_offset(f[s]) + ItemSize(n)
  <2>1. A(Item(m)) \in FlashOps
    BY <1>5
  <2>2. q \in Seq(FlashOps) /\ q # <<>> /\ q[1] = A(Item(m)) /\ Len(q) = 1
    BY <1>8, <2>1, OneOp, Zenon
  <2>3. Final(q) = [key |-> k, val |-> v]
    BY <1>6, <1>8, <2>2 DEF Final
  <2>4. \A l \in 2..Len(q) : FALSE
    <3>1. PICK N : N = Len(q)
      OBVIOUS
    <3>2. \A l \in 2..N : FALSE
      BY <2>2, <3>1
    <3> QED BY <3>1, <3>2
  <2> QED BY <1>7, <2>2, <2>3, <2>4
<1>9. CASE IsSmall(n)
  <2>1. q = <<A(Item(n))>> /\ n \in 0..n
    BY <1>1, <1>2, <1>9
  <2> QED BY <1>4, <1>8, <1>h, <2>1 DEF Written
<1>10. CASE ~IsSmall(n) /\ ~fill
  <2>1. q = <<A(Item(0))>> /\ 0 \in 0..n
    <3>1. q = <<A(Item(0))>> \o <<>>
      BY <1>2, <1>10
    <3>2. <<A(Item(0))>> \o <<>> = <<A(Item(0))>>
      OBVIOUS
    <3> QED BY <1>1, <3>1, <3>2
  <2> QED BY <1>4, <1>8, <1>10, <1>h, <2>1 DEF Written
<1>11. CASE ~IsSmall(n) /\ fill
  <2>0. PICK st : st = states
    OBVIOUS
  <2>1. \A l \in 1..n : st[l] = Item(l)
    BY <2>0
  <2>2. ASSUME NEW l \in 1..n
        PROVE  Lowers(st[l], IF l = 1 THEN Item(0) ELSE st[l - 1])
    <3>1. st[l] = Item(l) /\ l \in 0..n
      BY <1>1, <2>1
    <3>2. l - 1 \in 0..n /\ (IF l = 1 THEN Item(0) ELSE st[l - 1]) = Item(l - 1)
      BY <1>1, <2>1
    <3>3. \A j \in 1..n : Item(l).val[j] <= Item(l - 1).val[j]
      <4> TAKE j \in 1..n
      <4>1. Item(l).val[j] = (IF j <= l THEN v[j] ELSE 1)
            /\ Item(l - 1).val[j] = IF j <= l - 1 THEN v[j] ELSE 1
        BY <1>3, <3>1, <3>2
      <4>2. v[j] \in 0..1
        BY <1>1
      <4> QED BY <4>1, <4>2
    <3>4. Item(l) = [key |-> k, val |-> Item(l).val]
      BY <1>3, <3>1, ItemType
    <3>5. Lowers(Item(l), Item(l - 1))
      BY <1>3, <3>1, <3>2, <3>3, <3>4, LowersItem
    <3> QED BY <3>1, <3>2, <3>5
  <2>3. Lowering(st, Item(0)) /\ Len(st) = n
    <3>1. st = [l \in 1..n |-> st[l]]
      BY <2>0
    <3>2. \A l \in 1..n : st[l] \in Items
      BY <1>1, <1>3, <2>1
    <3> QED BY <1>1, <2>2, <3>1, <3>2, StatesLower
  <2>4. PICK p : p = Puts(s, i, st)
    OBVIOUS
  <2>5. PutChain(p, s, i, Item(0)) /\ Final(p) = Item(n)
    <3>1. i \in Nat
      BY SectorIs
    <3> QED BY <1>1, <2>1, <2>3, <2>4, <3>1, PutsChain
  <2>6. PICK a : a = A(Item(0))
    OBVIOUS
  <2>7. q = Then(a, p)
    BY <1>2, <1>11, <2>0, <2>4, <2>6 DEF Then
  <2>8. a \in FlashOps /\ a.item = Item(0) /\ 0 \in 0..n
    BY <1>1, <1>5, <1>6, <2>6
  <2>9. PutChain(p, s, i, a.item)
    BY <2>5, <2>8
  <2>10. /\ q \in Seq(FlashOps) /\ q # <<>> /\ q[1] = a /\ Final(q) = Final(p)
         /\ \A l \in 2..Len(q) :
              /\ q[l].op = "put" /\ q[l].sec = s /\ q[l].pos = i
              /\ Lowers(q[l].item, q[l - 1].item)
    <3>1. AndPuts(q, a, p, s, i)
      BY <2>7, <2>8, <2>9, AppendThenPuts
    <3> QED BY <3>1 DEF AndPuts
  <2> QED BY <1>4, <1>7, <1>h, <2>5, <2>6, <2>8, <2>10 DEF Written
<1> QED BY <1>9, <1>10, <1>11

LEMMA WriteFilled ==
  ASSUME build \in Builds, NEW f, FlashOK(f), NEW s \in Sectors,
         NEW k \in Keys, NEW v \in Value, Fresh(f[s].items, k),
         find_free_offset(f[s]) + ItemSize(Len(v)) <= SECTOR_SIZE,
         NEW i, i = Len(f[s].items) + 1,
         NEW q, q = write_item(s, i, k, v, TRUE)
  PROVE  Written(f, q, s, i, k, v)
<1>1. TRUE \in BOOLEAN /\ (TRUE \/ v = Ones(Len(v)))
  OBVIOUS
<1> QED BY <1>1, WriteItemOK, Zenon


-----------------------------------------------------------------------------
(* The code between two flash operations.                                  *)

Same(c, d) == d.kind = c.kind /\ d.key = c.key /\ d.val = c.val /\ d.fill = c.fill

(* The call c has gone on to d.                                            *)
Ran(f, c, d, st) == CallOK(f, d, st) /\ Same(c, d)

(* The call d is c with other flash operations and what follows them.      *)
Become(c, d, plan, next, pos, act, wr, fr) ==
  /\ d \in Calls /\ Same(c, d)
  /\ d.plan = plan /\ d.next = next /\ d.pos = pos
  /\ d.act = act /\ d.wr = wr /\ d.fr = fr

LEMMA CallType ==
  ASSUME NEW c \in Calls
  PROVE  /\ c.kind \in {"set", "delete", "wipe", "init"}
         /\ c.plan \in Seq(FlashOps)
         /\ c.next \in {"compact", "copy", "write", "return"} /\ c.pos \in Nat
         /\ c.act \in Sectors /\ c.wr \in Sectors /\ c.fr \in Nat
         /\ c.fill \in BOOLEAN
         /\ c = [kind |-> c.kind, key |-> c.key, val |-> c.val, fill |-> c.fill,
                 plan |-> c.plan, next |-> c.next, pos |-> c.pos,
                 moves |-> c.moves, act |-> c.act, wr |-> c.wr, fr |-> c.fr]
BY DEF Calls

LEMMA Becomes ==
  ASSUME NEW c \in Calls, NEW plan \in Seq(FlashOps),
         NEW next \in {"compact", "copy", "write", "return"}, NEW pos \in Nat,
         NEW act \in Sectors, NEW wr \in Sectors, NEW fr \in Nat,
         NEW d,
         d = [kind |-> c.kind, key |-> c.key, val |-> c.val, fill |-> c.fill,
              plan |-> plan, next |-> next, pos |-> pos,
              moves |-> c.moves, act |-> act, wr |-> wr, fr |-> fr]
  PROVE  Become(c, d, plan, next, pos, act, wr, fr)
<1>1. d \in Calls
  BY DEF Calls
<1> QED BY <1>1 DEF Become, Same

LEMMA AsksSame ==
  ASSUME NEW c, NEW d, Same(c, d), Asks(c)
  PROVE  Asks(d)
BY DEF Same, Asks

LEMMA KeepsSame ==
  ASSUME NEW c, NEW d, Same(c, d), NEW items, NEW st, Keeps(items, c, st)
  PROVE  Keeps(items, d, st)
BY DEF Same, Keeps

(* The first flash operation of the call is done.                          *)
Advance(c) == [c EXCEPT !.plan = Tail(@)]

LEMMA TailCall ==
  ASSUME NEW c \in Calls, c.plan # <<>>, NEW d, d = Advance(c)
  PROVE  Become(c, d, Tail(c.plan), c.next, c.pos, c.act, c.wr, c.fr)
<1>1. PICK p : p = Tail(c.plan)
  OBVIOUS
<1>2. p \in Seq(FlashOps)
  BY <1>1, CallType, SeqTail
<1>3. d = [kind |-> c.kind, key |-> c.key, val |-> c.val, fill |-> c.fill,
           plan |-> p, next |-> c.next, pos |-> c.pos,
           moves |-> c.moves, act |-> c.act, wr |-> c.wr, fr |-> c.fr]
  <2>1. d = [c EXCEPT !.plan = p]
    BY <1>1 DEF Advance
  <2> QED BY <2>1, CallType
<1>4. Become(c, d, p, c.next, c.pos, c.act, c.wr, c.fr)
  BY <1>2, <1>3, CallType, Becomes
<1> QED BY <1>1, <1>4, Zenon

(* The new item is written, if it fits.                                    *)
LEMMA WriteNewOK ==
  ASSUME build \in Builds, NEW f, FlashOK(f), NEW st,
         NEW c \in Calls, Asks(c), c.kind = "set",
         c.act = c.wr, Settled(f, c.wr), c.fr = find_free_offset(f[c.wr]),
         Fresh(f[c.wr].items, c.key), Keeps(f[c.wr].items, c, st),
         NEW d, d = WriteNew(f, c)
  PROVE  Ran(f, c, d, st)
<1> DEFINE s == c.wr
           items == f[s].items
           room == ItemSize(Len(c.val))
           i == Len(items) + 1
<1>1. /\ s \in Sectors /\ c.key \in Keys /\ c.val \in Value /\ c.fill \in BOOLEAN
      /\ c.fill \/ c.val = Ones(Len(c.val))
  BY CallType DEF Asks
<1>2. /\ items \in Seq(Items) /\ Len(items) \in Nat /\ DOMAIN items = 1..Len(items)
      /\ SectorOK(f[s])
  BY <1>1, SectorIs
<1>3. c.fr \in Nat /\ room \in Nat /\ SECTOR_SIZE \in Nat
  BY <1>1, <1>2, ValueType, SizeType, BuildType, CallType
<1>4. d = [c EXCEPT !.plan = IF c.fr + room <= SECTOR_SIZE
                             THEN write_item(s, i, c.key, c.val, c.fill) ELSE <<>>,
                    !.fr = IF c.fr + room <= SECTOR_SIZE THEN c.fr + room ELSE c.fr,
                    !.next = "return"]
  BY DEF WriteNew
<1>5. CASE c.fr + room <= SECTOR_SIZE
  <2>1. PICK q : q = write_item(s, i, c.key, c.val, c.fill)
    OBVIOUS
  <2>2. /\ q \in Seq(FlashOps) /\ q # <<>> /\ Writing(f, q, s, i)
        /\ Head(q).op = "append" /\ Head(q).item.key = c.key
        /\ Final(q) = [key |-> c.key, val |-> c.val]
        /\ End(f, q, s) = find_free_offset(f[s]) + room
    <3>1. Written(f, q, s, i, c.key, c.val)
      BY <1>1, <1>5, <2>1, WriteItemOK
    <3> QED BY <3>1 DEF Written
  <2>3. PICK r : r = c.fr + room
    OBVIOUS
  <2>4. d = [kind |-> c.kind, key |-> c.key, val |-> c.val, fill |-> c.fill,
             plan |-> q, next |-> "return", pos |-> c.pos,
             moves |-> c.moves, act |-> c.act, wr |-> c.wr, fr |-> r]
    <3>1. d = [c EXCEPT !.plan = q, !.fr = r, !.next = "return"]
      BY <1>4, <1>5, <2>1, <2>3
    <3> QED BY <3>1, CallType
  <2>5. Become(c, d, q, "return", c.pos, c.act, c.wr, r)
    <3>1. r \in Nat
      BY <1>3, <2>3
    <3> QED BY <2>2, <2>4, <3>1, CallType, Becomes
  <2>6. /\ d \in Calls /\ Same(c, d) /\ d.plan = q /\ d.next = "return"
        /\ d.act = d.wr /\ d.wr = s /\ d.fr = r /\ d.key = c.key /\ d.val = c.val
        /\ d.kind = "set"
    BY <2>5 DEF Become, Same
  <2>7. i \in 1..(Len(items) + 1) /\ \A j \in DOMAIN items : j # i /\ items[j].key # c.key
    BY <1>2 DEF Fresh
  <2> HIDE DEF items, i, room
  <2>8. OwnItem(f, d)
    <3>1. /\ Writing(f, d.plan, d.wr, i)
          /\ \A j \in DOMAIN items :
               /\ items[j].key = d.key => j = i
               /\ j = i => items[j].key \in {d.key, NORCOW_KEY_DELETED}
          /\ Head(d.plan).item.key \in {d.key, NORCOW_KEY_DELETED}
          /\ d.kind = "set" /\ d.next = "return"
          /\ Final(d.plan) = [key |-> d.key, val |-> d.val]
      BY <2>2, <2>6, <2>7
    <3>2. d.plan # <<>> /\ f[d.wr].items = items
      BY <2>2, <2>6 DEF items
    <3> QED BY <2>7, <3>1, <3>2 DEF OwnItem
  <2>9. d.fr = End(f, d.plan, d.wr)
    BY <2>2, <2>3, <2>6
  <2>10. Keeps(f[d.wr].items, d, st) /\ Asks(d)
    BY <2>6, KeepsSame, AsksSame
  <2>11. Local(f, d, st)
    BY <2>6, <2>8, <2>9, <2>10 DEF Local
  <2> QED BY <2>6, <2>10, <2>11 DEF Ran, CallOK
<1>6. CASE ~(c.fr + room <= SECTOR_SIZE)
  <2>1. d = [kind |-> c.kind, key |-> c.key, val |-> c.val, fill |-> c.fill,
             plan |-> <<>>, next |-> "return", pos |-> c.pos,
             moves |-> c.moves, act |-> c.act, wr |-> c.wr, fr |-> c.fr]
    <3>1. d = [c EXCEPT !.plan = <<>>, !.fr = c.fr, !.next = "return"]
      BY <1>4, <1>6
    <3> QED BY <3>1, CallType
  <2>2. Become(c, d, <<>>, "return", c.pos, c.act, c.wr, c.fr)
    <3>1. <<>> \in Seq(FlashOps)
      OBVIOUS
    <3> QED BY <2>1, <3>1, CallType, Becomes
  <2>3. /\ d \in Calls /\ Same(c, d) /\ d.plan = <<>> /\ d.next = "return"
        /\ d.act = d.wr /\ d.wr = s /\ d.fr = c.fr /\ d.key = c.key
        /\ d.kind = "set"
    BY <2>2 DEF Become, Same
  <2>4. OwnItem(f, d)
    <3>1. Holds(f[d.wr].items, d.key, NONE)
      BY <2>3 DEF Holds
    <3> QED BY <2>3, <3>1 DEF OwnItem
  <2>5. d.fr = End(f, d.plan, d.wr)
    BY <1>3, <2>3 DEF End
  <2>6. Keeps(f[d.wr].items, d, st) /\ Asks(d)
    BY <2>3, KeepsSame, AsksSame
  <2>7. Local(f, d, st)
    BY <2>3, <2>4, <2>5, <2>6 DEF Local
  <2> QED BY <2>3, <2>6, <2>7 DEF Ran, CallOK
<1> QED BY <1>5, <1>6


(* The items of one sector before position c.pos are in the other one.     *)
CopyReady(f, c, st) ==
  LET from == f[1 - c.wr].items
      to == f[c.wr].items
  IN /\ Source(f, c, st) /\ f[c.wr].ver = NORCOW_VERSION
     /\ c.pos \in 1..(Len(from) + 1)
     /\ \A j \in DOMAIN to : \E p \in 1..(c.pos - 1) : to[j] = from[p]
     /\ \A p \in 1..(c.pos - 1) : from[p].key # NORCOW_KEY_DELETED =>
          \E j \in DOMAIN to : to[j] = from[p]
     /\ find_free_offset(f[c.wr]) <= Offsets(from)[c.pos - 1]

(* The items after position n that are not deleted.                        *)
Alive(items, n) ==
  {i \in DOMAIN items : i >= n /\ items[i].key # NORCOW_KEY_DELETED}

(* One more item is copied.                                                *)
LEMMA CopyOK ==
  ASSUME build \in Builds, NEW f, FlashOK(f), NEW st,
         NEW c \in Calls, Asks(c), CopyReady(f, c, st),
         Alive(f[1 - c.wr].items, c.pos) # {},
         NEW d, d = compact(f, c)
  PROVE  Ran(f, c, d, st)
<1> DEFINE s == c.wr
           a == Other(s)
           from == f[a].items
           to == f[s].items
           i == Min(Alive(from, c.pos))
           it == from[i]
           n == Len(to) + 1
<1>1. /\ s \in Sectors /\ a \in Sectors /\ 1 - c.wr = a /\ c.pos \in Nat
  BY CallType, Opposite
<1>2. /\ from \in Seq(Items) /\ Len(from) \in Nat /\ DOMAIN from = 1..Len(from)
      /\ \A j \in 1..Len(from) : from[j] \in Items
      /\ SectorOK(f[a])
  BY <1>1, SectorIs
<1>3. to \in Seq(Items) /\ Len(to) \in Nat /\ DOMAIN to = 1..Len(to)
  BY <1>1, SectorIs
<1>4. /\ Source(f, c, st) /\ f[s].ver = NORCOW_VERSION
      /\ c.pos \in 1..(Len(from) + 1)
      /\ \A j \in DOMAIN to : \E p \in 1..(c.pos - 1) : to[j] = from[p]
      /\ \A p \in 1..(c.pos - 1) : from[p].key # NORCOW_KEY_DELETED =>
           \E j \in DOMAIN to : to[j] = from[p]
      /\ find_free_offset(f[s]) <= Offsets(from)[c.pos - 1]
  BY <1>1 DEF CopyReady
<1>5. d = [c EXCEPT !.plan = write_item(s, n, it.key, it.val, TRUE), !.pos = i + 1]
  BY <1>1 DEF compact, Alive
<1>6. i \in Alive(from, c.pos) /\ \A m \in Alive(from, c.pos) : i <= m
  <2>1. Alive(from, c.pos) \subseteq Nat
    BY <1>2 DEF Alive
  <2> QED BY <1>1, <2>1, MinIs
<1> HIDE DEF i
<1>7. i \in 1..Len(from) /\ i >= c.pos /\ it.key # NORCOW_KEY_DELETED
  BY <1>2, <1>6 DEF Alive
<1>8. \A p \in c.pos..(i - 1) : from[p].key = NORCOW_KEY_DELETED
  <2> TAKE p \in c.pos..(i - 1)
  <2>1. p \in DOMAIN from /\ p >= c.pos /\ p < i
    BY <1>1, <1>2, <1>4, <1>7
  <2>2. p \notin Alive(from, c.pos)
    BY <1>6, <1>7, <2>1
  <2> QED BY <2>1, <2>2 DEF Alive
<1>9. it \in Items /\ it.key \in Keys /\ it.val \in Value
      /\ it = [key |-> it.key, val |-> it.val]
  <2>1. it \in Items /\ HasValue(it)
    BY <1>2, <1>7 DEF SectorOK
  <2> QED BY <1>7, <2>1, LiveItem, ItemType
<1> DEFINE room == ItemSize(Len(it.val))
<1>10. Fresh(to, it.key)
  <2> SUFFICES ASSUME NEW j \in DOMAIN to, to[j].key = it.key
               PROVE  FALSE
    BY DEF Fresh
  <2>1. PICK p \in 1..(c.pos - 1) : to[j] = from[p]
    BY <1>4
  <2>2. p \in DOMAIN from /\ i \in DOMAIN from /\ p # i
    BY <1>1, <1>2, <1>4, <1>7
  <2>3. from[p].key = from[i].key
    BY <2>1
  <2>4. from[p].key = NORCOW_KEY_DELETED
    BY <1>2, <2>2, <2>3 DEF SectorOK
  <2> QED BY <1>7, <2>3, <2>4
<1>11. /\ find_free_offset(f[s]) + room <= Offsets(from)[i]
       /\ Offsets(from)[i] <= SECTOR_SIZE
  <2>1. c.pos - 1 \in 0..Len(from) /\ i - 1 \in 0..Len(from) /\ c.pos - 1 <= i - 1
        /\ i \in 0..Len(from) /\ Len(from) \in 0..Len(from)
    BY <1>1, <1>2, <1>4, <1>7
  <2>2. Offsets(from)[c.pos - 1] <= Offsets(from)[i - 1]
    BY <1>2, <2>1, OffsetsGrow
  <2>3. Offsets(from)[i] = Offsets(from)[i - 1] + room
    BY <1>2, <1>7, OffsetSteps DEF Size
  <2>4. Offsets(from)[i] <= Offsets(from)[Len(from)]
    BY <1>2, <1>7, <2>1, OffsetsGrow
  <2>5. Offsets(from)[Len(from)] <= SECTOR_SIZE
    BY <1>2 DEF SectorOK, find_free_offset
  <2>6. /\ Offsets(from)[c.pos - 1] \in Nat /\ Offsets(from)[i - 1] \in Nat
        /\ Offsets(from)[i] \in Nat /\ Offsets(from)[Len(from)] \in Nat
    BY <1>2, <2>1, OffsetType
  <2>7. find_free_offset(f[s]) \in Nat /\ room \in Nat /\ SECTOR_SIZE \in Nat
    BY <1>3, <1>9, FreeOffsetType, ValueType, SizeType, BuildType
  <2> HIDE DEF room, from
  <2> QED BY <1>4, <2>2, <2>3, <2>4, <2>5, <2>6, <2>7
<1>12. PICK q : q = write_item(s, n, it.key, it.val, TRUE)
  OBVIOUS
<1>13. /\ q \in Seq(FlashOps) /\ q # <<>> /\ Writing(f, q, s, n)
       /\ Head(q).op = "append" /\ Head(q).item.key = it.key
       /\ Final(q) = [key |-> it.key, val |-> it.val]
       /\ End(f, q, s) = find_free_offset(f[s]) + room
  <2>1. find_free_offset(f[s]) + room <= SECTOR_SIZE
    <3>1. Offsets(from)[i] \in Nat /\ SECTOR_SIZE \in Nat
          /\ find_free_offset(f[s]) \in Nat /\ room \in Nat
      <4>1. i \in 0..Len(from)
        BY <1>2, <1>7
      <4> QED BY <1>2, <1>3, <1>9, <4>1, OffsetType, FreeOffsetType, ValueType,
                 SizeType, BuildType
    <3> HIDE DEF room, from
    <3> QED BY <1>11, <3>1
  <2>2. PICK m : m = n
    OBVIOUS
  <2>3. PICK k : k = it.key
    OBVIOUS
  <2>4. PICK v : v = it.val
    OBVIOUS
  <2>5. /\ k \in Keys /\ v \in Value /\ Fresh(f[s].items, k)
        /\ find_free_offset(f[s]) + ItemSize(Len(v)) <= SECTOR_SIZE
        /\ m = Len(f[s].items) + 1 /\ q = write_item(s, m, k, v, TRUE)
    BY <1>9, <1>10, <1>12, <2>1, <2>2, <2>3, <2>4
  <2>6. Written(f, q, s, m, k, v)
    BY <1>1, <2>5, WriteFilled
  <2> QED BY <2>2, <2>3, <2>4, <2>6 DEF Written
<1>14. Become(c, d, q, c.next, i + 1, c.act, c.wr, c.fr)
  <2>1. PICK m : m = i + 1
    OBVIOUS
  <2>2. m \in Nat
    BY <1>2, <1>7, <2>1
  <2>3. d = [c EXCEPT !.plan = q, !.pos = m]
    BY <1>5, <1>12, <2>1
  <2>4. d = [kind |-> c.kind, key |-> c.key, val |-> c.val, fill |-> c.fill,
             plan |-> q, next |-> c.next, pos |-> m,
             moves |-> c.moves, act |-> c.act, wr |-> c.wr, fr |-> c.fr]
    BY <2>3, CallType
  <2>5. Become(c, d, q, c.next, m, c.act, c.wr, c.fr)
    BY <1>13, <2>2, <2>4, CallType, Becomes
  <2> QED BY <2>1, <2>5
<1>15. /\ d \in Calls /\ Same(c, d) /\ d.plan = q /\ d.next = c.next
       /\ d.wr = s /\ d.pos - 1 = i /\ d.key = c.key /\ d.kind = c.kind
  <2>1. d.pos = i + 1 /\ i \in Nat
    BY <1>2, <1>7, <1>14 DEF Become
  <2> QED BY <1>14, <2>1 DEF Become, Same
<1> HIDE DEF from, to, a, room, n, it
<1>16. Source(f, d, st) /\ Asks(d)
  <2>1. f[1 - d.wr].items = f[1 - c.wr].items
    BY <1>15 DEF s
  <2>2. Asks(d)
    BY <1>15, AsksSame
  <2>3. \A k, v : Keeps(k, c, v) => Keeps(k, d, v)
    BY <1>15, KeepsSame
  <2> QED BY <1>4, <1>15, <2>1, <2>2, <2>3 DEF Source
<1>17. CopiedTo(from, to, i, n)
  <2>1. \A j \in DOMAIN to : j # n => \E p \in 1..(i - 1) : to[j] = from[p]
    <3> TAKE j \in DOMAIN to
    <3>1. PICK p \in 1..(c.pos - 1) : to[j] = from[p]
      BY <1>4
    <3>2. p \in 1..(i - 1)
      BY <1>1, <1>2, <1>7
    <3> QED BY <3>1, <3>2
  <2>2. ASSUME NEW p \in 1..(i - 1), from[p].key # NORCOW_KEY_DELETED
        PROVE  \E j \in DOMAIN to : j # n /\ to[j] = from[p]
    <3>1. p \in 1..(c.pos - 1)
      BY <1>1, <1>2, <1>7, <1>8, <2>2
    <3>2. PICK j \in DOMAIN to : to[j] = from[p]
      BY <1>4, <2>2, <3>1
    <3>3. j # n
      BY <1>3 DEF n
    <3> QED BY <3>2, <3>3
  <2> QED BY <2>1, <2>2 DEF CopiedTo
<1>18. Copying(f, d, st)
  <2>1. f[1 - d.wr].items = from /\ f[d.wr].items = to /\ d.pos - 1 = i
        /\ from[i] = it /\ d.plan = q /\ d.wr = s
    BY <1>1, <1>15 DEF from, to, it
  <2>2. i \in DOMAIN from /\ n \in 1..(Len(to) + 1) /\ n \notin DOMAIN to
    BY <1>2, <1>3, <1>7 DEF n
  <2>3. End(f, q, s) <= Offsets(from)[i]
    BY <1>11, <1>13
  <2>4. Final(q) = it /\ Head(q).item.key = it.key
    BY <1>9, <1>13
  <2>5. f[d.wr].ver = NORCOW_VERSION
    BY <1>4, <1>15
  <2> QED BY <1>7, <1>13, <1>16, <1>17, <2>1, <2>2, <2>3, <2>4, <2>5 DEF Copying
<1> QED BY <1>15, <1>16, <1>18 DEF Ran, CallOK


(* All items are copied: the old sector is erased.                         *)
LEMMA CopyDone ==
  ASSUME build \in Builds, NEW f, FlashOK(f), NEW st,
         NEW c \in Calls, Asks(c), CopyReady(f, c, st),
         Alive(f[1 - c.wr].items, c.pos) = {},
         NEW d, d = compact(f, c)
  PROVE  Ran(f, c, d, st)
<1> DEFINE s == c.wr
           a == Other(s)
           from == f[a].items
           to == f[s].items
<1>1. s \in Sectors /\ a \in Sectors /\ 1 - c.wr = a /\ c.pos \in Nat
  BY CallType, Opposite
<1>2. /\ from \in Seq(Items) /\ Len(from) \in Nat /\ DOMAIN from = 1..Len(from)
  BY <1>1, SectorIs
<1>3. to \in Seq(Items) /\ Len(to) \in Nat /\ DOMAIN to = 1..Len(to)
  BY <1>1, SectorIs
<1>4. /\ Source(f, c, st) /\ f[s].ver = NORCOW_VERSION
      /\ c.pos \in 1..(Len(from) + 1)
      /\ \A j \in DOMAIN to : \E p \in 1..(c.pos - 1) : to[j] = from[p]
      /\ \A p \in 1..(c.pos - 1) : from[p].key # NORCOW_KEY_DELETED =>
           \E j \in DOMAIN to : to[j] = from[p]
  BY <1>1 DEF CopyReady
<1>5. PICK q : q = erase_sector(a, FALSE)
  OBVIOUS
<1>6. PICK r : r = find_free_offset(f[s])
  OBVIOUS
<1>7. PICK x : x = IF c.kind = "set" THEN "write" ELSE "return"
  OBVIOUS
<1>8. d = [c EXCEPT !.plan = q, !.act = c.wr, !.fr = r, !.next = x]
  BY <1>1, <1>5, <1>6, <1>7 DEF compact, Alive
<1>9. q = <<Erase(a)>> /\ q \in Seq(FlashOps)
  <2>1. q = <<Erase(a)>>
    BY <1>1, <1>5, EraseSectorIs
  <2>2. Erase(a) \in FlashOps
    BY <1>1, PrepareOps
  <2> QED BY <2>1, <2>2, OneOp
<1>10. r \in Nat
  BY <1>3, <1>6, FreeOffsetType
<1>11. Become(c, d, q, x, c.pos, c.wr, c.wr, r)
  <2>1. d = [kind |-> c.kind, key |-> c.key, val |-> c.val, fill |-> c.fill,
             plan |-> q, next |-> x, pos |-> c.pos,
             moves |-> c.moves, act |-> c.wr, wr |-> c.wr, fr |-> r]
    BY <1>8, CallType
  <2>2. x \in {"compact", "copy", "write", "return"}
    BY <1>7
  <2>3. c.pos \in Nat /\ c.wr \in Sectors
    BY CallType
  <2> QED BY <1>9, <1>10, <2>1, <2>2, <2>3, Becomes
<1>12. /\ d \in Calls /\ Same(c, d) /\ d.plan = q /\ d.next = x
       /\ d.act = d.wr /\ d.wr = s /\ d.fr = r /\ d.key = c.key /\ d.kind = c.kind
  BY <1>11 DEF Become, Same
<1> HIDE DEF from, to, a
<1>13. Asks(d)
  BY <1>12, AsksSame
<1>14. ASSUME NEW p \in DOMAIN from, from[p].key # NORCOW_KEY_DELETED
       PROVE  \E j \in DOMAIN to : to[j] = from[p]
  <2>1. p \notin Alive(from, c.pos)
    BY <1>1 DEF from
  <2>2. p \in 1..(c.pos - 1)
    BY <1>1, <1>2, <1>14, <2>1 DEF Alive
  <2> QED BY <1>4, <1>14, <2>2
<1>15. \A j \in DOMAIN to : \E p \in DOMAIN from : to[j] = from[p]
  <2> TAKE j \in DOMAIN to
  <2>1. PICK p \in 1..(c.pos - 1) : to[j] = from[p]
    BY <1>4
  <2>2. p \in DOMAIN from
    BY <1>1, <1>2, <1>4
  <2> QED BY <2>1, <2>2
<1>16. \A k : Fresh(from, k) => Fresh(to, k)
  BY <1>15 DEF Fresh
<1>17. ASSUME NEW k \in Keys, NEW v, Holds(from, k, v)
       PROVE  Holds(to, k, v)
  <2>1. CASE v = NONE
    BY <1>16, <1>17, <2>1 DEF Holds
  <2>2. CASE v # NONE
    <3>1. PICK p \in DOMAIN from : from[p] = [key |-> k, val |-> v]
      BY <1>17, <2>2 DEF Holds
    <3>2. from[p].key = k
      BY <3>1
    <3>3. from[p].key # NORCOW_KEY_DELETED
      BY <3>2, KeyTypes
    <3>4. PICK j \in DOMAIN to : to[j] = from[p]
      BY <1>14, <3>3
    <3> QED BY <2>2, <3>1, <3>4 DEF Holds
  <2> QED BY <2>1, <2>2
<1>18. c.kind = "set" => Fresh(to, c.key) /\ Keeps(to, c, st)
  <2>1. c.kind = "set" => Fresh(from, c.key) /\ Keeps(from, c, st)
    BY <1>1, <1>4 DEF Source, from
  <2> QED BY <1>16, <1>17, <2>1 DEF Keeps
<1>19. Moved(f, d, st)
  <2>1. d.plan = <<Erase(1 - d.wr)>>
    BY <1>1, <1>9, <1>12
  <2>2. f[d.wr].ver = NORCOW_VERSION /\ d.fr = find_free_offset(f[d.wr])
    BY <1>4, <1>6, <1>12
  <2>3. f[d.wr].items = to
    BY <1>12 DEF to
  <2>4. CASE c.kind = "set"
    <3>1. Fresh(f[d.wr].items, d.key) /\ Keeps(f[d.wr].items, d, st)
      BY <1>12, <1>18, <2>3, <2>4, KeepsSame
    <3>2. d.kind = "set" /\ d.next = "write"
      BY <1>7, <1>12, <2>4
    <3> QED BY <1>12, <2>1, <2>2, <3>1, <3>2 DEF Moved
  <2>5. CASE c.kind # "set"
    <3>1. d.kind = "init" /\ d.next = "return"
      BY <1>4, <1>7, <1>12, <2>5 DEF Source
    <3> QED BY <1>12, <2>1, <2>2, <3>1 DEF Moved
  <2> QED BY <2>4, <2>5
<1> QED BY <1>12, <1>13, <1>19 DEF Ran, CallOK

LEMMA CompactOK ==
  ASSUME build \in Builds, NEW f, FlashOK(f), NEW st,
         NEW c \in Calls, Asks(c), CopyReady(f, c, st),
         NEW d, d = compact(f, c)
  PROVE  Ran(f, c, d, st)
BY CopyOK, CopyDone

(* compact begins with the other sector.                                   *)
LEMMA PreparePlan ==
  ASSUME build \in Builds, NEW s \in Sectors, NEW q, q = compact_prepare(s), NEW f
  PROVE  /\ q \in Seq(FlashOps) /\ q # <<>> /\ Preparing(f, q, s)
<1>0. Erase(s) \in FlashOps /\ Header(s, 0) \in FlashOps
      /\ Header(s, NORCOW_VERSION) \in FlashOps
  BY PrepareOps
<1>1. Preparing(f, q, s)
  BY DEF Preparing, compact_prepare
<1>2. q \in {<<Erase(s), Header(s, 0), Header(s, NORCOW_VERSION)>>,
             <<Erase(s), Header(s, NORCOW_VERSION)>>}
  BY EraseSectorIs, BuildType DEF compact_prepare
<1>3. CASE q = <<Erase(s), Header(s, 0), Header(s, NORCOW_VERSION)>>
  BY <1>0, <1>1, <1>3
<1>4. CASE q = <<Erase(s), Header(s, NORCOW_VERSION)>>
  BY <1>0, <1>1, <1>4
<1> QED BY <1>2, <1>3, <1>4

Compacting(c) ==
  [c EXCEPT !.plan = compact_prepare(1 - c.act), !.wr = 1 - c.act, !.next = "copy"]

LEMMA StartCompact ==
  ASSUME build \in Builds, NEW f, FlashOK(f), NEW st,
         NEW c \in Calls, Asks(c), c.kind = "set", c.pos = 1,
         Fresh(f[c.act].items, c.key), Keeps(f[c.act].items, c, st),
         NEW d, d = Compacting(c)
  PROVE  Ran(f, c, d, st)
<1> DEFINE w == Other(c.act)
<1>1. w \in Sectors /\ 1 - c.act = w /\ 1 - w = c.act
  BY CallType, Opposite
<1>2. PICK q : q = compact_prepare(w)
  OBVIOUS
<1>3. q \in Seq(FlashOps) /\ q # <<>> /\ Preparing(f, q, w)
  BY <1>1, <1>2, PreparePlan
<1>4. d = [c EXCEPT !.plan = q, !.wr = w, !.next = "copy"]
  BY <1>1, <1>2 DEF Compacting
<1> HIDE DEF w
<1>5. Become(c, d, q, "copy", c.pos, c.act, w, c.fr)
  <2>1. d = [kind |-> c.kind, key |-> c.key, val |-> c.val, fill |-> c.fill,
             plan |-> q, next |-> "copy", pos |-> c.pos,
             moves |-> c.moves, act |-> c.act, wr |-> w, fr |-> c.fr]
    BY <1>4, CallType
  <2>2. PICK x : x = "copy"
    OBVIOUS
  <2>3. x \in {"compact", "copy", "write", "return"}
    BY <2>2
  <2>4. Become(c, d, q, x, c.pos, c.act, w, c.fr)
    BY <1>1, <1>3, <2>1, <2>2, <2>3, CallType, Becomes
  <2> QED BY <2>2, <2>4
<1>6. /\ d \in Calls /\ Same(c, d) /\ d.plan = q /\ d.next = "copy"
      /\ d.wr = w /\ d.pos = 1 /\ d.key = c.key /\ d.kind = "set"
  BY <1>5 DEF Become, Same
<1>7. Asks(d) /\ Keeps(f[1 - d.wr].items, d, st) /\ Fresh(f[1 - d.wr].items, d.key)
  BY <1>1, <1>6, AsksSame, KeepsSame
<1>8. Moving(f, d, st)
  BY <1>3, <1>6, <1>7 DEF Moving, Source
<1> QED BY <1>6, <1>7, <1>8 DEF Ran, CallOK


-----------------------------------------------------------------------------
(* One flash operation, and the code up to the next one.                   *)

LEMMA SettledSame ==
  ASSUME NEW f, NEW g, NEW s, f[0].ver = g[0].ver, f[1].ver = g[1].ver,
         f[s].ver = g[s].ver, Settled(f, s)
  PROVE  Settled(g, s)
BY DEF Settled, ActiveSector

LEMMA SettledErased ==
  ASSUME NEW g, NEW s \in Sectors, g[s].ver = NORCOW_VERSION,
         g[Other(s)] = Erased
  PROVE  Settled(g, s)
<1>1. g[Other(s)].ver = NO_MAGIC
  BY DEF Erased
<1>2. NORCOW_VERSION \in Nat \ {0}
  BY NorcowAssumption
<1>3. CASE s = 0
  <2>1. g[1].ver = NO_MAGIC
    BY <1>1, <1>3 DEF Other
  <2> QED BY <1>3, <2>1 DEF Settled, ActiveSector
<1>4. CASE s = 1
  <2>1. g[0].ver = -1 /\ g[1].ver = NORCOW_VERSION
    BY <1>1, <1>4 DEF Other, NO_MAGIC
  <2> QED BY <1>2, <1>4, <2>1 DEF Settled, ActiveSector, NO_MAGIC
<1> QED BY <1>3, <1>4 DEF Sectors

LEMMA ResumeLater ==
  ASSUME NEW g, NEW e, e.plan # <<>> \/ e.next = "return"
  PROVE  Resume(g, e) = e
BY DEF Resume

LEMMA ResumeWrite ==
  ASSUME NEW g, NEW e, e.plan = <<>>, e.next = "write"
  PROVE  Resume(g, e) = WriteNew(g, e)
BY DEF Resume

LEMMA ResumeCopy ==
  ASSUME NEW g, NEW e, e.plan = <<>>, e.next = "copy"
  PROVE  Resume(g, e) = compact(g, e)
BY DEF Resume

LEMMA ResumeCompact ==
  ASSUME NEW g, NEW e, e.plan = <<>>, e.next = "compact"
  PROVE  Resume(g, e) = Compacting(e)
BY DEF Resume, Compacting

LEMMA SameTwice ==
  ASSUME NEW f, NEW st, NEW c, NEW e, NEW d, Same(c, e), Ran(f, e, d, st)
  PROVE  Ran(f, c, d, st)
BY DEF Same, Ran

(* The sector in use keeps what the call does not write.                   *)
LEMMA KeepsOthers ==
  ASSUME NEW items, NEW more, NEW c, NEW st, NEW i, NEW it,
         Keeps(items, c, st), DOMAIN more = DOMAIN items \cup {i}, more[i] = it,
         \A j \in DOMAIN items : j # i => more[j] = items[j],
         it.key \in {c.key, NORCOW_KEY_DELETED},
         i \in DOMAIN items => items[i].key \in {c.key, NORCOW_KEY_DELETED}
  PROVE  Keeps(more, c, st)
<1> SUFFICES ASSUME NEW k \in Keys \ {c.key}
             PROVE  Holds(more, k, st[k])
  BY DEF Keeps
<1>1. Holds(items, k, st[k]) /\ k # NORCOW_KEY_DELETED /\ k # c.key
  BY KeyTypes DEF Keeps
<1>2. CASE st[k] = NONE
  <2>1. Fresh(items, k)
    BY <1>1, <1>2 DEF Holds
  <2>2. Fresh(more, k)
    BY <1>1, <2>1 DEF Fresh
  <2> QED BY <1>2, <2>2 DEF Holds
<1>3. CASE st[k] # NONE
  <2>1. PICK j \in DOMAIN items : items[j] = [key |-> k, val |-> st[k]]
    BY <1>1, <1>3 DEF Holds
  <2>2. items[j].key = k
    BY <2>1
  <2>3. j # i
    BY <1>1, <2>2
  <2>4. j \in DOMAIN more /\ more[j] = [key |-> k, val |-> st[k]]
    BY <2>1, <2>3
  <2> QED BY <1>3, <2>4 DEF Holds
<1> QED BY <1>2, <1>3

LEMMA LocalStep ==
  ASSUME build \in Builds, NEW f, FlashOK(f), NEW st,
         NEW c \in Calls, Asks(c), Local(f, c, st), c.plan # <<>>,
         NEW g, g = ApplyOp(f, Head(c.plan)),
         NEW d, d = Resume(g, Advance(c))
  PROVE  FlashOK(g) /\ Ensured(f, Head(c.plan)) /\ Ran(g, c, d, st)
<1> DEFINE s == c.wr
           items == f[s].items
           more == g[s].items
           q == c.plan
           it == Head(q).item
<1>1. /\ s \in Sectors /\ c.act = s /\ Settled(f, s)
      /\ c.next \in {"compact", "write", "return"}
      /\ c.next # "return" => c.kind = "set" /\ c.pos = 1
      /\ c.fr = End(f, q, s) /\ c.kind \in {"set", "delete"}
      /\ OwnItem(f, c) /\ Keeps(items, c, st) /\ q \in Seq(FlashOps)
  <2>1. c.kind \in {"set", "delete", "wipe", "init"} /\ c.wr \in Sectors
        /\ c.plan \in Seq(FlashOps)
    BY CallType
  <2> QED BY <2>1 DEF Local
<1>2. PICK i \in 1..(Len(items) + 1) :
        /\ Writing(f, q, s, i)
        /\ \A j \in DOMAIN items :
             /\ items[j].key = c.key => j = i
             /\ j = i => items[j].key \in {c.key, NORCOW_KEY_DELETED}
        /\ it.key \in {c.key, NORCOW_KEY_DELETED}
        /\ \/ Final(q).key = NORCOW_KEY_DELETED
           \/ /\ c.kind = "set" /\ c.next = "return"
              /\ Final(q) = [key |-> c.key, val |-> c.val]
  BY <1>1 DEF OwnItem
<1>3. /\ FlashOK(g) /\ Ensured(f, Head(q))
      /\ g[Other(s)] = f[Other(s)] /\ g[s].ver = f[s].ver
      /\ Tail(q) # <<>> => Writing(g, Tail(q), s, i) /\ Final(Tail(q)) = Final(q)
      /\ Tail(q) = <<>> => Final(q) = it
      /\ End(g, Tail(q), s) = End(f, q, s)
      /\ DOMAIN more = DOMAIN items \cup {i} /\ more[i] = it
      /\ \A j \in DOMAIN items : j # i => more[j] = items[j]
  <2>1. Stepped(f, g, q, s, i)
    <3>1. s \in Sectors /\ q \in Seq(FlashOps) /\ Writing(f, q, s, i)
      BY <1>1, <1>2
    <3>2. g = ApplyOp(f, Head(q))
      OBVIOUS
    <3> HIDE DEF q, s
    <3> QED BY <3>1, <3>2, WriteStep
  <2> QED BY <2>1 DEF Stepped
<1>4. Settled(g, s)
  <2>1. \A t \in Sectors : g[t].ver = f[t].ver
    BY <1>1, <1>3, Opposite
  <2> QED BY <1>1, <2>1, SettledSame DEF Sectors
<1>5. PICK e : e = Advance(c)
  OBVIOUS
<1>6. /\ e \in Calls /\ Same(c, e) /\ e.plan = Tail(q) /\ e.next = c.next
      /\ e.pos = c.pos /\ e.act = s /\ e.wr = s /\ e.fr = c.fr
      /\ e.kind = c.kind /\ e.key = c.key /\ e.val = c.val
  BY <1>1, <1>5, TailCall DEF Become, Same
<1>7. d = Resume(g, e)
  BY <1>5
<1>m. Len(more) \in Nat /\ DOMAIN more = 1..Len(more)
  BY <1>1, <1>3, SectorIs
<1>n. i \in DOMAIN more
  BY <1>3
<1> HIDE DEF items, more, it, q
<1>p. i \in 1..Len(more) /\ i \in 1..(Len(more) + 1) /\ i # Len(more) + 1
  <2>1. PICK L : L = Len(more)
    OBVIOUS
  <2>2. L \in Nat /\ i \in 1..L
    BY <1>m, <1>n, <2>1
  <2>3. i \in 1..(L + 1) /\ i # L + 1
    BY <2>2
  <2> QED BY <2>1, <2>2, <2>3
<1>8. Asks(e) /\ Keeps(more, e, st)
  <2>1. Keeps(more, c, st)
    BY <1>1, <1>2, <1>3, KeepsOthers
  <2> QED BY <1>6, <2>1, AsksSame, KeepsSame
<1>9. \A j \in DOMAIN more : /\ more[j].key = c.key => j = i
                             /\ j = i => more[j].key \in {c.key, NORCOW_KEY_DELETED}
  BY <1>2, <1>3
<1>10. CASE Tail(q) # <<>>
  <2>1. d = e
    BY <1>6, <1>7, <1>10, ResumeLater
  <2>2. Head(Tail(q)).item.key \in {c.key, NORCOW_KEY_DELETED}
    <3>1. Lowers(Head(Tail(q)).item, more[i])
      <4>1. i \in DOMAIN more /\ i # Len(more) + 1
        BY <1>n, <1>p
      <4> QED BY <1>3, <1>10, <4>1 DEF Writing, more
    <3> QED BY <1>2, <1>3, <3>1 DEF Lowers
  <2>3. OwnItem(g, e)
    <3>1. i \in 1..(Len(more) + 1)
      BY <1>p
    <3>2. /\ Writing(g, e.plan, e.wr, i)
          /\ Head(e.plan).item.key \in {e.key, NORCOW_KEY_DELETED}
          /\ \/ Final(e.plan).key = NORCOW_KEY_DELETED
             \/ /\ e.kind = "set" /\ e.next = "return"
                /\ Final(e.plan) = [key |-> e.key, val |-> e.val]
      BY <1>2, <1>3, <1>6, <1>10, <2>2
    <3>3. g[e.wr].items = more /\ e.plan # <<>>
      BY <1>6, <1>10 DEF more
    <3>4. \A j \in DOMAIN more :
            /\ more[j].key = e.key => j = i
            /\ j = i => more[j].key \in {e.key, NORCOW_KEY_DELETED}
      BY <1>6, <1>9
    <3> QED BY <3>1, <3>2, <3>3, <3>4 DEF OwnItem
  <2>4. Keeps(g[e.wr].items, e, st) /\ e.fr = End(g, e.plan, e.wr)
        /\ Settled(g, e.wr)
    BY <1>1, <1>3, <1>4, <1>6, <1>8 DEF more
  <2>5. e.next # "return" => e.kind = "set" /\ e.plan # <<>> /\ e.pos = 1
    BY <1>1, <1>6, <1>10
  <2>6. Local(g, e, st)
    BY <1>1, <1>6, <2>3, <2>4, <2>5 DEF Local
  <2>7. Ran(g, c, e, st)
    BY <1>6, <1>8, <2>6 DEF Ran, CallOK
  <2> QED BY <1>3, <2>1, <2>7 DEF q
<1>11. CASE Tail(q) = <<>>
  <2>0. find_free_offset(g[s]) \in Nat
    <3>1. g[s].items \in Seq(Items)
      BY <1>1, <1>3, SectorIs
    <3> QED BY <3>1, FreeOffsetType
  <2>1. e.plan = <<>> /\ e.fr = find_free_offset(g[s])
    BY <1>1, <1>3, <1>6, <1>11, <2>0 DEF End
  <2>2. more[i] = Final(q)
    BY <1>3, <1>11
  <2>3. Final(q).key = NORCOW_KEY_DELETED => Fresh(more, c.key)
    <3>1. c.key # NORCOW_KEY_DELETED
      BY <1>1, KeyTypes DEF Asks
    <3> QED BY <1>9, <2>2, <3>1 DEF Fresh
  <2>4. CASE c.next = "return"
    <3>1. d = e
      BY <1>6, <1>7, <2>1, <2>4, ResumeLater
    <3>2. \E v \in {NONE, c.val} : Holds(more, c.key, v)
      <4>1. CASE Final(q).key = NORCOW_KEY_DELETED
        BY <2>3, <4>1 DEF Holds
      <4>2. CASE c.kind = "set" /\ Final(q) = [key |-> c.key, val |-> c.val]
        <5>1. c.val # NONE
          BY <4>2, KeyTypes DEF Asks
        <5>2. i \in DOMAIN more /\ more[i] = [key |-> c.key, val |-> c.val]
          BY <1>3, <2>2, <4>2
        <5> QED BY <5>1, <5>2 DEF Holds
      <4> QED BY <1>2, <4>1, <4>2
    <3>3. OwnItem(g, e)
      BY <1>6, <2>1, <3>2 DEF OwnItem, more
    <3>4. Keeps(g[e.wr].items, e, st) /\ e.fr = End(g, e.plan, e.wr)
          /\ Settled(g, e.wr)
      BY <1>1, <1>3, <1>4, <1>6, <1>8 DEF more
    <3>5. Local(g, e, st)
      BY <1>1, <1>6, <2>1, <2>4, <3>3, <3>4 DEF Local
    <3>6. Ran(g, c, e, st)
      BY <1>6, <1>8, <3>5 DEF Ran, CallOK
    <3> QED BY <1>3, <3>1, <3>6 DEF q
  <2>5. CASE c.next # "return"
    <3>1. /\ e.kind = "set" /\ e.pos = 1 /\ Fresh(g[e.wr].items, e.key)
          /\ Keeps(g[e.wr].items, e, st) /\ e.act = e.wr /\ Settled(g, e.wr)
          /\ e.fr = find_free_offset(g[e.wr])
      BY <1>1, <1>2, <1>4, <1>6, <1>8, <2>1, <2>3, <2>5 DEF more
    <3>2. CASE c.next = "write"
      <4>1. d = WriteNew(g, e)
        BY <1>6, <1>7, <2>1, <3>2, ResumeWrite
      <4>2. Ran(g, e, d, st)
        BY <1>3, <1>6, <1>8, <3>1, <4>1, WriteNewOK
      <4> QED BY <1>3, <1>6, <4>2, SameTwice DEF q
    <3>3. CASE c.next = "compact"
      <4>1. d = Compacting(e)
        BY <1>6, <1>7, <2>1, <3>3, ResumeCompact
      <4>2. Ran(g, e, d, st)
        BY <1>3, <1>6, <1>8, <3>1, <4>1, StartCompact
      <4> QED BY <1>3, <1>6, <4>2, SameTwice DEF q
    <3> QED BY <1>1, <2>5, <3>2, <3>3
  <2> QED BY <2>4, <2>5
<1> QED BY <1>10, <1>11


LEMMA SourceSame ==
  ASSUME NEW f, NEW g, NEW st, NEW c, NEW e, Same(c, e), e.wr = c.wr,
         e.next = c.next, g[1 - c.wr] = f[1 - c.wr], Source(f, c, st)
  PROVE  Source(g, e, st)
<1>1. \A items : Keeps(items, c, st) => Keeps(items, e, st)
  BY KeepsSame
<1> QED BY <1>1 DEF Source, Same

LEMMA MovingStep ==
  ASSUME build \in Builds, NEW f, FlashOK(f), NEW st,
         NEW c \in Calls, Asks(c), Moving(f, c, st),
         NEW g, g = ApplyOp(f, Head(c.plan)),
         NEW d, d = Resume(g, Advance(c))
  PROVE  FlashOK(g) /\ Ensured(f, Head(c.plan)) /\ Ran(g, c, d, st)
<1> DEFINE s == c.wr
           a == Other(s)
           q == c.plan
<1>1. /\ s \in Sectors /\ a \in Sectors /\ 1 - c.wr = a
      /\ Source(f, c, st) /\ c.pos = 1 /\ Preparing(f, q, s) /\ c.next = "copy"
  BY CallType, Opposite DEF Moving, Source
<1>2. /\ q \in Seq(FlashOps) /\ q # <<>>
      /\ FlashOK(g) /\ Ensured(f, Head(q))
      /\ g[a] = f[a]
      /\ Tail(q) # <<>> => Preparing(g, Tail(q), s)
      /\ Tail(q) = <<>> => g[s] = [ver |-> NORCOW_VERSION, items |-> <<>>]
  BY <1>1, PrepareStep
<1>3. PICK e : e = Advance(c)
  OBVIOUS
<1>4. /\ e \in Calls /\ Same(c, e) /\ e.plan = Tail(q) /\ e.next = "copy"
      /\ e.pos = 1 /\ e.wr = s
  BY <1>1, <1>2, <1>3, TailCall DEF Become, Same
<1>5. d = Resume(g, e)
  BY <1>3
<1>6. Asks(e) /\ Source(g, e, st)
  <2>1. g[1 - c.wr] = f[1 - c.wr]
    BY <1>1, <1>2
  <2> QED BY <1>1, <1>4, <2>1, AsksSame, SourceSame
<1>7. CASE Tail(q) # <<>>
  <2>1. d = e
    BY <1>4, <1>5, <1>7, ResumeLater
  <2>2. Moving(g, e, st)
    BY <1>2, <1>4, <1>6, <1>7 DEF Moving
  <2>3. Ran(g, c, e, st)
    BY <1>4, <1>6, <2>2 DEF Ran, CallOK
  <2> QED BY <1>2, <2>1, <2>3
<1>8. CASE Tail(q) = <<>>
  <2>1. d = compact(g, e)
    BY <1>4, <1>5, <1>8, ResumeCopy
  <2>2. g[s].ver = NORCOW_VERSION /\ g[s].items = <<>>
    BY <1>2, <1>8
  <2>3. find_free_offset(g[s]) = 0
    <3>1. NORCOW_VERSION \in Versions
      BY DEF Versions
    <3>2. find_free_offset([ver |-> NORCOW_VERSION, items |-> <<>>]) = 0
      BY <3>1, EmptySectorOK
    <3> QED BY <1>2, <1>8, <3>2
  <2>4. /\ g[a].items \in Seq(Items) /\ Len(g[a].items) \in Nat
        /\ Offsets(g[a].items)[0] = 0
    BY <1>1, <1>2, SectorIs, OffsetSteps
  <2>5. CopyReady(g, e, st)
    <3>1. g[1 - e.wr].items = g[a].items /\ g[e.wr] = g[s]
      BY <1>1, <1>4
    <3>2. e.pos - 1 = 0 /\ e.pos \in 1..(Len(g[a].items) + 1)
      BY <1>4, <2>4
    <3>3. DOMAIN g[s].items = {}
      BY <2>2
    <3>4. \A p \in 1..(e.pos - 1) : FALSE
      BY <3>2
    <3>5. find_free_offset(g[s]) <= Offsets(g[a].items)[e.pos - 1]
      BY <2>3, <2>4, <3>2
    <3> QED BY <1>6, <2>2, <3>1, <3>2, <3>3, <3>4, <3>5 DEF CopyReady
  <2>6. Ran(g, e, d, st)
    BY <1>2, <1>4, <1>6, <2>1, <2>5, CompactOK
  <2> QED BY <1>2, <1>4, <2>6, SameTwice
<1> QED BY <1>7, <1>8

(* A chain that does not end with a deleted item keeps the key throughout. *)
LEMMA ChainKey ==
  ASSUME NEW f, NEW s, NEW i, NEW q \in Seq(FlashOps), Writing(f, q, s, i),
         Final(q).key # NORCOW_KEY_DELETED
  PROVE  Head(q).item.key = Final(q).key
<1> DEFINE L == Len(q)
           K == Final(q).key
           Bad == {m \in Nat : m < L /\ q[L - m].item.key # K}
<1>1. L \in Nat \ {0} /\ Head(q) = q[1]
  BY SeqTail DEF Writing
<1>2. \A n \in 2..L : Lowers(q[n].item, q[n - 1].item)
  BY DEF Writing
<1>3. q[L].item.key = K
  BY DEF Final
<1> HIDE DEF K, L
<1>4. Bad = {}
  <2> SUFFICES ASSUME Bad # {} PROVE FALSE
    OBVIOUS
  <2>1. Bad \subseteq Nat
    OBVIOUS
  <2>2. PICK m \in Bad : \A l \in Bad : m <= l
    BY <2>1, Least
  <2>3. m \in Nat /\ m < L /\ q[L - m].item.key # K
    BY <2>2
  <2>4. m # 0
    BY <1>1, <1>3, <2>3
  <2>5. m - 1 \in Nat /\ m - 1 < L /\ m - 1 \notin Bad
    BY <1>1, <2>2, <2>3, <2>4
  <2>6. q[L - (m - 1)].item.key = K
    BY <2>5
  <2>7. PICK n : n = L - (m - 1)
    OBVIOUS
  <2>8. n \in 2..L /\ n - 1 = L - m
    BY <1>1, <2>3, <2>4, <2>7
  <2>9. Lowers(q[n].item, q[n - 1].item)
    BY <1>2, <2>8
  <2>10. q[n].item.key \in {q[n - 1].item.key, NORCOW_KEY_DELETED}
    BY <2>9 DEF Lowers
  <2>11. K # NORCOW_KEY_DELETED
    BY DEF K
  <2> QED BY <2>3, <2>6, <2>7, <2>8, <2>10, <2>11
<1>5. L - 1 \in Nat /\ L - 1 < L /\ L - (L - 1) = 1
  BY <1>1
<1>6. q[1].item.key = K
  BY <1>4, <1>5
<1> QED BY <1>1, <1>6 DEF K

LEMMA CopyingStep ==
  ASSUME build \in Builds, NEW f, FlashOK(f), NEW st,
         NEW c \in Calls, Asks(c), Copying(f, c, st),
         NEW g, g = ApplyOp(f, Head(c.plan)),
         NEW d, d = Resume(g, Advance(c))
  PROVE  FlashOK(g) /\ Ensured(f, Head(c.plan)) /\ Ran(g, c, d, st)
<1> DEFINE s == c.wr
           a == Other(s)
           q == c.plan
           from == f[a].items
           to == f[s].items
           more == g[s].items
           n == c.pos - 1
           it == from[n]
<1>1. /\ s \in Sectors /\ a \in Sectors /\ 1 - c.wr = a /\ q \in Seq(FlashOps)
      /\ c.pos \in Nat
  BY CallType, Opposite
<1>2. /\ Source(f, c, st) /\ f[s].ver = NORCOW_VERSION /\ n \in DOMAIN from
      /\ it.key # NORCOW_KEY_DELETED /\ c.next = "copy"
      /\ End(f, q, s) <= Offsets(from)[n]
  BY <1>1 DEF Copying, Source
<1>3. PICK i \in 1..(Len(to) + 1) :
        /\ Writing(f, q, s, i)
        /\ Final(q) = it /\ Head(q).item.key = it.key
        /\ i \in DOMAIN to => to[i].key = it.key
        /\ CopiedTo(from, to, n, i)
  BY <1>1 DEF Copying
<1>4. /\ FlashOK(g) /\ Ensured(f, Head(q))
      /\ g[a] = f[a] /\ g[s].ver = f[s].ver
      /\ Tail(q) # <<>> => Writing(g, Tail(q), s, i) /\ Final(Tail(q)) = Final(q)
      /\ Tail(q) = <<>> => Final(q) = Head(q).item
      /\ End(g, Tail(q), s) = End(f, q, s)
      /\ DOMAIN more = DOMAIN to \cup {i} /\ more[i] = Head(q).item
      /\ \A j \in DOMAIN to : j # i => more[j] = to[j]
  <2>1. Stepped(f, g, q, s, i)
    <3>1. s \in Sectors /\ q \in Seq(FlashOps) /\ Writing(f, q, s, i)
      BY <1>1, <1>3
    <3>2. g = ApplyOp(f, Head(q))
      OBVIOUS
    <3> HIDE DEF q, s
    <3> QED BY <3>1, <3>2, WriteStep
  <2>2. a = Other(s)
    BY <1>1, Opposite
  <2> QED BY <2>1, <2>2 DEF Stepped
<1>5. PICK e : e = Advance(c)
  OBVIOUS
<1>6. /\ e \in Calls /\ Same(c, e) /\ e.plan = Tail(q) /\ e.next = "copy"
      /\ e.pos = c.pos /\ e.wr = s
  <2>1. c.plan # <<>>
    BY <1>3 DEF Writing
  <2> QED BY <1>2, <1>5, <2>1, TailCall DEF Become, Same
<1>7. d = Resume(g, e)
  BY <1>5
<1>8. Asks(e) /\ Source(g, e, st)
  <2>1. g[1 - c.wr] = f[1 - c.wr]
    BY <1>1, <1>4
  <2> QED BY <1>2, <1>6, <2>1, AsksSame, SourceSame
<1>9. /\ Len(more) \in Nat /\ DOMAIN more = 1..Len(more)
      /\ Len(from) \in Nat /\ DOMAIN from = 1..Len(from)
  BY <1>1, <1>4, SectorIs
<1>10. i \in DOMAIN more
  BY <1>4
<1>11. g[1 - e.wr].items = from /\ g[e.wr].items = more /\ e.pos - 1 = n
  BY <1>1, <1>4, <1>6
<1> HIDE DEF from, to, more, it, n, q
<1>12. i \in 1..Len(more) /\ i \in 1..(Len(more) + 1) /\ i # Len(more) + 1
  <2>1. PICK L : L = Len(more)
    OBVIOUS
  <2>2. L \in Nat /\ i \in 1..L
    BY <1>9, <1>10, <2>1
  <2>3. i \in 1..(L + 1) /\ i # L + 1
    BY <2>2
  <2> QED BY <2>1, <2>2, <2>3
<1>13. /\ \A j \in DOMAIN to : j # i => \E p \in 1..(n - 1) : to[j] = from[p]
       /\ \A p \in 1..(n - 1) : from[p].key # NORCOW_KEY_DELETED =>
            \E j \in DOMAIN to : j # i /\ to[j] = from[p]
  BY <1>3 DEF CopiedTo
<1>14. CopiedTo(from, more, n, i)
  <2>1. \A j \in DOMAIN more : j # i => j \in DOMAIN to /\ more[j] = to[j]
    BY <1>4
  <2>2. \A j \in DOMAIN to : j # i => j \in DOMAIN more /\ more[j] = to[j]
    BY <1>4
  <2>3. \A j \in DOMAIN more : j # i => \E p \in 1..(n - 1) : more[j] = from[p]
    BY <1>13, <2>1
  <2>4. \A p \in 1..(n - 1) : from[p].key # NORCOW_KEY_DELETED =>
          \E j \in DOMAIN more : j # i /\ more[j] = from[p]
    BY <1>13, <2>2
  <2> QED BY <2>3, <2>4 DEF CopiedTo
<1>15. CASE Tail(q) # <<>>
  <2>1. d = e
    BY <1>6, <1>7, <1>15, ResumeLater
  <2>2. Lowers(Head(Tail(q)).item, more[i])
    BY <1>4, <1>10, <1>12, <1>15 DEF Writing, more
  <2>3. more[i].key = it.key
    BY <1>3, <1>4
  <2>4. Head(Tail(q)).item.key = it.key
    <3>1. q # <<>>
      BY <1>3 DEF Writing
    <3>2. Tail(q) \in Seq(FlashOps)
      BY <1>1, <3>1, SeqTail DEF q
    <3>3. Writing(g, Tail(q), s, i) /\ Final(Tail(q)) = it
      BY <1>3, <1>4, <1>15
    <3> QED BY <1>2, <3>2, <3>3, ChainKey
  <2>5. Copying(g, e, st)
    <3>1. /\ Writing(g, e.plan, e.wr, i) /\ Final(e.plan) = it
          /\ Head(e.plan).item.key = it.key /\ End(g, e.plan, e.wr) <= Offsets(from)[n]
      BY <1>2, <1>3, <1>4, <1>6, <1>15, <2>4
    <3>2. g[e.wr].ver = NORCOW_VERSION
      BY <1>2, <1>4, <1>6
    <3> QED BY <1>2, <1>8, <1>11, <1>12, <1>14, <2>3, <3>1, <3>2 DEF Copying, it
  <2>6. Ran(g, c, e, st)
    BY <1>6, <1>8, <2>5 DEF Ran, CallOK
  <2> QED BY <1>4, <2>1, <2>6 DEF q
<1>16. CASE Tail(q) = <<>>
  <2>1. d = compact(g, e)
    BY <1>6, <1>7, <1>16, ResumeCopy
  <2>2. more[i] = from[n] /\ n \in 1..Len(from)
    BY <1>2, <1>3, <1>4, <1>9, <1>16 DEF it
  <2>3. find_free_offset(g[s]) \in Nat /\ find_free_offset(g[s]) = End(g, Tail(q), s)
    <3>1. g[s].items \in Seq(Items)
      BY <1>1, <1>4, SectorIs
    <3>2. find_free_offset(g[s]) \in Nat
      BY <3>1, FreeOffsetType
    <3> QED BY <1>16, <3>2 DEF End
  <2>4. find_free_offset(g[e.wr]) <= Offsets(from)[e.pos - 1]
    BY <1>2, <1>4, <1>6, <1>11, <2>3
  <2>5. e.pos \in 1..(Len(from) + 1)
    BY <1>1, <1>6, <1>9, <1>11, <2>2
  <2>6. \A j \in DOMAIN more : \E p \in 1..n : more[j] = from[p]
    <3> TAKE j \in DOMAIN more
    <3>1. CASE j = i
      BY <2>2, <3>1
    <3>2. CASE j # i
      <4>1. PICK p \in 1..(n - 1) : more[j] = from[p]
        BY <1>14, <3>2 DEF CopiedTo
      <4>2. p \in 1..n
        BY <2>2
      <4> QED BY <4>1, <4>2
    <3> QED BY <3>1, <3>2
  <2>7. \A p \in 1..n : from[p].key # NORCOW_KEY_DELETED =>
          \E j \in DOMAIN more : more[j] = from[p]
    <3> TAKE p \in 1..n
    <3>1. CASE p = n
      BY <1>10, <2>2, <3>1
    <3>2. CASE p # n
      <4>1. p \in 1..(n - 1)
        BY <2>2, <3>2
      <4> QED BY <1>14, <4>1 DEF CopiedTo
    <3> QED BY <3>1, <3>2
  <2>8. g[e.wr].ver = NORCOW_VERSION
    BY <1>2, <1>4, <1>6
  <2>9. CopyReady(g, e, st)
    BY <1>8, <1>11, <2>4, <2>5, <2>6, <2>7, <2>8 DEF CopyReady
  <2>10. Ran(g, e, d, st)
    BY <1>4, <1>6, <1>8, <2>1, <2>9, CompactOK
  <2> QED BY <1>4, <1>6, <2>10, SameTwice DEF q
<1> QED BY <1>15, <1>16


LEMMA OneTail ==
  ASSUME NEW x, NEW q, q = <<x>>
  PROVE  q # <<>> /\ Head(q) = x /\ Tail(q) = <<>>
OBVIOUS

(* The boot, or a wipe, is done.                                           *)
LEMMA QuietCall ==
  ASSUME build \in Builds, NEW f, FlashOK(f), NEW st, NEW c \in Calls,
         c.kind \in {"init", "wipe"}, c.next = "return", c.plan = <<>>,
         c.act = c.wr, Settled(f, c.wr), c.fr = find_free_offset(f[c.wr])
  PROVE  CallOK(f, c, st)
<1>1. c.fr \in Nat /\ c.wr \in Sectors
  BY CallType
<1>2. c.fr = End(f, c.plan, c.wr)
  BY <1>1 DEF End
<1>3. Local(f, c, st)
  BY <1>2 DEF Local
<1>4. Asks(c)
  BY DEF Asks
<1> QED BY <1>3, <1>4 DEF CallOK

LEMMA MovedStep ==
  ASSUME build \in Builds, NEW f, FlashOK(f), NEW st,
         NEW c \in Calls, Asks(c), Moved(f, c, st),
         NEW g, g = ApplyOp(f, Head(c.plan)),
         NEW d, d = Resume(g, Advance(c))
  PROVE  FlashOK(g) /\ Ensured(f, Head(c.plan)) /\ Ran(g, c, d, st)
<1> DEFINE s == c.wr
           a == Other(s)
<1>1. /\ s \in Sectors /\ a \in Sectors /\ 1 - c.wr = a /\ Other(a) = s
  BY CallType, Opposite
<1>2. /\ c.plan = <<Erase(a)>> /\ c.act = s /\ f[s].ver = NORCOW_VERSION
      /\ c.fr = find_free_offset(f[s])
  BY <1>1 DEF Moved
<1>3. c.plan # <<>> /\ Head(c.plan) = Erase(a) /\ Tail(c.plan) = <<>>
  BY <1>2, OneTail
<1>4. FlashOK(g) /\ Ensured(f, Head(c.plan)) /\ g[a] = Erased /\ g[s] = f[s]
  BY <1>1, <1>3, EraseStep
<1>5. PICK e : e = Advance(c)
  OBVIOUS
<1>6. /\ e \in Calls /\ Same(c, e) /\ e.plan = <<>> /\ e.next = c.next
      /\ e.act = s /\ e.wr = s /\ e.fr = c.fr /\ e.kind = c.kind /\ e.key = c.key
  BY <1>2, <1>3, <1>5, TailCall DEF Become, Same
<1>7. d = Resume(g, e)
  BY <1>5
<1>8. Settled(g, s) /\ e.fr = find_free_offset(g[s])
  BY <1>1, <1>2, <1>4, <1>6, SettledErased
<1>9. CASE c.kind = "init" /\ c.next = "return"
  <2>1. d = e
    BY <1>6, <1>7, <1>9, ResumeLater
  <2>2. CallOK(g, e, st)
    BY <1>4, <1>6, <1>8, <1>9, QuietCall
  <2> QED BY <1>4, <1>6, <2>1, <2>2 DEF Ran
<1>10. CASE /\ c.kind = "set" /\ c.next = "write"
            /\ Fresh(f[s].items, c.key) /\ Keeps(f[s].items, c, st)
  <2>1. d = WriteNew(g, e)
    BY <1>6, <1>7, <1>10, ResumeWrite
  <2>2. Asks(e) /\ Keeps(g[e.wr].items, e, st) /\ Fresh(g[e.wr].items, e.key)
    BY <1>4, <1>6, <1>10, AsksSame, KeepsSame
  <2>3. Ran(g, e, d, st)
    BY <1>4, <1>6, <1>8, <1>10, <2>1, <2>2, WriteNewOK
  <2> QED BY <1>4, <1>6, <2>3, SameTwice
<1> QED BY <1>9, <1>10 DEF Moved

LEMMA WipePlan ==
  ASSUME build \in Builds, NEW s \in Sectors, NEW q, q = norcow_wipe(s)
  PROVE  \/ q = <<Erase(s), Header(s, 0), Header(s, NORCOW_VERSION), Erase(1 - s)>>
         \/ q = <<Erase(s), Header(s, NORCOW_VERSION), Erase(1 - s)>>
<1> DEFINE e == Erase(s)
           h == Header(s, 0)
           v == Header(s, NORCOW_VERSION)
           x == Erase(1 - s)
<1>1. 1 - s \in Sectors
  BY DEF Sectors
<1>2. erase_sector(1 - s, FALSE) = <<x>>
  BY <1>1, EraseSectorIs
<1>3. erase_sector(s, TRUE) = <<e, h, v>> \/ erase_sector(s, TRUE) = <<e, v>>
  BY EraseSectorIs, BuildType
<1>4. q = erase_sector(s, TRUE) \o <<x>>
  BY <1>2 DEF norcow_wipe
<1> HIDE DEF e, h, v, x
<1>5. <<e, v>> \o <<x>> = <<e, v, x>>
  BY ThreeOps
<1>6. <<e, h, v>> \o <<x>> = <<e, h, v, x>>
  BY FourOps
<1>7. CASE erase_sector(s, TRUE) = <<e, h, v>>
  BY <1>4, <1>6, <1>7, Zenon DEF e, h, v, x
<1>8. CASE erase_sector(s, TRUE) = <<e, v>>
  BY <1>4, <1>5, <1>8, Zenon DEF e, h, v, x
<1> QED BY <1>3, <1>7, <1>8

LEMMA WipePlanType ==
  ASSUME build \in Builds, NEW s \in Sectors, NEW q, q = norcow_wipe(s)
  PROVE  /\ q \in Seq(FlashOps) /\ q # <<>> /\ Head(q) = Erase(s)
         /\ \/ Tail(q) = <<Header(s, 0), Header(s, NORCOW_VERSION), Erase(1 - s)>>
            \/ Tail(q) = <<Header(s, NORCOW_VERSION), Erase(1 - s)>>
<1> DEFINE e == Erase(s)
           h == Header(s, 0)
           v == Header(s, NORCOW_VERSION)
           x == Erase(1 - s)
<1>1. 1 - s \in Sectors
  BY DEF Sectors
<1>2. e \in FlashOps /\ h \in FlashOps /\ v \in FlashOps /\ x \in FlashOps
  BY <1>1, PrepareOps
<1>3. q = <<e, h, v, x>> \/ q = <<e, v, x>>
  BY WipePlan
<1> HIDE DEF e, h, v, x
<1>4. CASE q = <<e, h, v, x>>
  <2>1. q \in Seq(FlashOps) /\ q # <<>> /\ Head(q) = e /\ Tail(q) = <<h, v, x>>
    BY <1>2, <1>4
  <2> QED BY <2>1 DEF e, h, v, x
<1>5. CASE q = <<e, v, x>>
  <2>1. q \in Seq(FlashOps) /\ q # <<>> /\ Head(q) = e /\ Tail(q) = <<v, x>>
    BY <1>2, <1>5
  <2> QED BY <2>1 DEF e, h, v, x
<1> QED BY <1>3, <1>4, <1>5

LEMMA WipingStep ==
  ASSUME build \in Builds, NEW f, FlashOK(f), NEW st,
         NEW c \in Calls, Asks(c), Wiping(f, c),
         NEW g, g = ApplyOp(f, Head(c.plan)),
         NEW d, d = Resume(g, Advance(c))
  PROVE  FlashOK(g) /\ Ensured(f, Head(c.plan)) /\ Ran(g, c, d, st)
<1> DEFINE s == c.wr
           a == Other(s)
           q == c.plan
           h == Header(s, 0)
           v == Header(s, NORCOW_VERSION)
           x == Erase(a)
<1>1. /\ s \in Sectors /\ a \in Sectors /\ 1 - c.wr = a /\ Other(a) = s
      /\ q \in Seq(FlashOps)
  BY CallType, Opposite
<1>2. c.kind \in {"init", "wipe"} /\ c.next = "return" /\ c.act = s /\ c.fr = 0
  BY DEF Wiping
<1>3. PICK e : e = Advance(c)
  OBVIOUS
<1>4. ASSUME q # <<>>
      PROVE  /\ e \in Calls /\ Same(c, e) /\ e.plan = Tail(q) /\ e.next = "return"
             /\ e.act = s /\ e.wr = s /\ e.fr = 0 /\ e.kind = c.kind /\ Asks(e)
             /\ d = e
  <2>1. /\ e \in Calls /\ Same(c, e) /\ e.plan = Tail(q) /\ e.next = "return"
        /\ e.act = s /\ e.wr = s /\ e.fr = 0 /\ e.kind = c.kind
    BY <1>2, <1>3, <1>4, TailCall DEF Become, Same
  <2>2. d = e
    BY <1>3, <2>1, ResumeLater
  <2> QED BY <2>1, <2>2, AsksSame
<1>5. CASE q = norcow_wipe(s)
  <2>1. /\ q # <<>> /\ Head(q) = Erase(s)
        /\ Tail(q) = <<h, v, x>> \/ Tail(q) = <<v, x>>
    BY <1>1, <1>5, WipePlanType
  <2>2. FlashOK(g) /\ Ensured(f, Head(q)) /\ g[s] = Erased
    BY <1>1, <2>1, EraseStep
  <2>3. g[s].ver \in {NO_MAGIC, 0} /\ g[s].items = <<>>
    BY <2>2 DEF Erased
  <2>4. Wiping(g, e)
    <3>1. e.plan = <<h, v, x>> \/ e.plan = <<v, x>>
      BY <1>4, <2>1
    <3> QED BY <1>1, <1>2, <1>4, <2>1, <2>2, <2>3, <3>1 DEF Wiping
  <2> QED BY <1>4, <2>1, <2>2, <2>4 DEF Ran, CallOK
<1>6. CASE q = <<h, v, x>> /\ f[s] = Erased
  <2>0. q # <<>> /\ Head(q) = h /\ Tail(q) = <<v, x>>
    <3> HIDE DEF h, v, x
    <3> QED BY <1>6
  <2>1. f[s].ver \in {NO_MAGIC, 0} /\ f[s].items = <<>>
    BY <1>6 DEF Erased
  <2>2. FlashOK(g) /\ Ensured(f, Head(q)) /\ g[s] = [ver |-> 0, items |-> <<>>]
    BY <1>1, <2>0, <2>1, HeaderStep
  <2>3. g[s].ver \in {NO_MAGIC, 0} /\ g[s].items = <<>>
    BY <2>2
  <2>4. Wiping(g, e)
    BY <1>1, <1>2, <1>4, <2>0, <2>3 DEF Wiping
  <2> QED BY <1>4, <2>0, <2>2, <2>4 DEF Ran, CallOK
<1>7. CASE q = <<v, x>> /\ f[s].ver \in {NO_MAGIC, 0} /\ f[s].items = <<>>
  <2>0. q # <<>> /\ Head(q) = v /\ Tail(q) = <<x>>
    <3> HIDE DEF h, v, x
    <3> QED BY <1>7
  <2>2. FlashOK(g) /\ Ensured(f, Head(q))
        /\ g[s] = [ver |-> NORCOW_VERSION, items |-> <<>>]
    BY <1>1, <1>7, <2>0, HeaderStep
  <2>4. Wiping(g, e)
    BY <1>1, <1>2, <1>4, <2>0, <2>2 DEF Wiping
  <2> QED BY <1>4, <2>0, <2>2, <2>4 DEF Ran, CallOK
<1>8. CASE q = <<x>> /\ f[s] = [ver |-> NORCOW_VERSION, items |-> <<>>]
  <2>0. q # <<>> /\ Head(q) = x /\ Tail(q) = <<>>
    BY <1>8, OneTail
  <2>1. FlashOK(g) /\ Ensured(f, Head(q)) /\ g[a] = Erased /\ g[s] = f[s]
    BY <1>1, <2>0, EraseStep
  <2>2. g[s].ver = NORCOW_VERSION /\ find_free_offset(g[s]) = 0
    <3>1. NORCOW_VERSION \in Versions
      BY DEF Versions
    <3>2. find_free_offset([ver |-> NORCOW_VERSION, items |-> <<>>]) = 0
      BY <3>1, EmptySectorOK
    <3> QED BY <1>8, <2>1, <3>2
  <2>3. Settled(g, s)
    BY <1>1, <2>1, <2>2, SettledErased
  <2>4. CallOK(g, e, st)
    BY <1>2, <1>4, <2>0, <2>1, <2>2, <2>3, QuietCall
  <2> QED BY <1>4, <2>0, <2>1, <2>4 DEF Ran
<1> QED BY <1>1, <1>5, <1>6, <1>7, <1>8 DEF Wiping

LEMMA StepOK ==
  ASSUME build \in Builds, NEW f, FlashOK(f), NEW st,
         NEW c, CallOK(f, c, st), c.plan # <<>>,
         NEW g, g = ApplyOp(f, Head(c.plan)),
         NEW d, d = Resume(g, Advance(c))
  PROVE  FlashOK(g) /\ Ensured(f, Head(c.plan)) /\ Ran(g, c, d, st)
<1>1. c \in Calls /\ Asks(c)
  BY DEF CallOK
<1>2. CASE Local(f, c, st)
  BY <1>1, <1>2, LocalStep
<1>3. CASE Moving(f, c, st)
  BY <1>1, <1>3, MovingStep
<1>4. CASE Copying(f, c, st)
  BY <1>1, <1>4, CopyingStep
<1>5. CASE Moved(f, c, st)
  BY <1>1, <1>5, MovedStep
<1>6. CASE Wiping(f, c)
  BY <1>1, <1>6, WipingStep
<1> QED BY <1>2, <1>3, <1>4, <1>5, <1>6 DEF CallOK


-----------------------------------------------------------------------------
(* Reading.                                                                *)

(* The item i that find_item found, or 0.                                  *)
Found(items, k, i) ==
  \/ i = 0 /\ Fresh(items, k)
  \/ /\ i \in DOMAIN items /\ i \in Nat \ {0} /\ items[i].key = k
     /\ items[i] \in Items /\ items[i].val \in Value
     /\ \A j \in DOMAIN items : items[j].key = k => j = i

LEMMA FindItem ==
  ASSUME NEW sec, SectorOK(sec), sec.ver # NO_MAGIC, NEW k \in Keys,
         NEW i, i = find_item(sec, k)
  PROVE  Found(sec.items, k, i)
<1> DEFINE items == sec.items
           I == {j \in 1..Len(items) : items[j].key = k}
<1>1. /\ items \in Seq(Items) /\ DOMAIN items = 1..Len(items) /\ Len(items) \in Nat
  BY LenProperties DEF SectorOK
<1>2. i = IF I # {} THEN Max(I) ELSE 0
  BY DEF find_item, SelectLastInSeq
<1>3. CASE I = {}
  BY <1>1, <1>2, <1>3 DEF Found, Fresh
<1>4. CASE I # {}
  <2>1. PICK n : n \in I
    BY <1>4
  <2>2. n \in DOMAIN items /\ items[n].key = k /\ n \in Nat \ {0}
    BY <1>1, <2>1
  <2>3. k # NORCOW_KEY_DELETED
    BY KeyTypes
  <2>4. \A j \in DOMAIN items : items[j].key = k => j = n
    BY <2>2, <2>3 DEF SectorOK
  <2>5. I = {n}
    BY <1>1, <2>2, <2>4
  <2>6. i = n
    <3>1. Max({n}) = n
      BY <2>2 DEF Max
    <3> HIDE DEF I
    <3> QED BY <1>2, <1>4, <2>5, <3>1
  <2>7. items[n] \in Items /\ HasValue(items[n])
    BY <1>1, <2>2, ElementOfSeq DEF SectorOK
  <2>8. items[n].val \in Value
    BY <2>2, <2>3, <2>7 DEF HasValue
  <2> QED BY <2>2, <2>4, <2>6, <2>7, <2>8 DEF Found
<1> QED BY <1>3, <1>4

LEMMA GetHolds ==
  ASSUME NEW f, FlashOK(f), NEW s \in Sectors, f[s].ver # NO_MAGIC,
         NEW k \in Keys
  PROVE  /\ Holds(f[s].items, k, norcow_get(f, s, k))
         /\ norcow_get(f, s, k) \in Value \cup {NONE}
         /\ \A v \in Value \cup {NONE} :
              Holds(f[s].items, k, v) => norcow_get(f, s, k) = v
<1> DEFINE items == f[s].items
<1>1. SectorOK(f[s])
  BY SectorIs
<1>2. PICK i : i = find_item(f[s], k)
  OBVIOUS
<1>3. Found(items, k, i)
  BY <1>1, <1>2, FindItem
<1>4. PICK w : w = norcow_get(f, s, k)
  OBVIOUS
<1>5. w = IF i = 0 THEN NONE ELSE items[i].val
  BY <1>2, <1>4 DEF norcow_get
<1> HIDE DEF items
<1>6. CASE i = 0 /\ Fresh(items, k)
  <2>1. w = NONE
    BY <1>5, <1>6
  <2>2. Holds(items, k, w)
    BY <1>6, <2>1 DEF Holds
  <2>3. ASSUME NEW v \in Value \cup {NONE}, Holds(items, k, v)
        PROVE  v = NONE
    <3> SUFFICES ASSUME v # NONE PROVE FALSE
      OBVIOUS
    <3>1. PICK j \in DOMAIN items : items[j] = [key |-> k, val |-> v]
      BY <2>3 DEF Holds
    <3>2. items[j].key = k
      BY <3>1
    <3> QED BY <1>6, <3>2 DEF Fresh
  <2> QED BY <1>4, <2>1, <2>2, <2>3 DEF items
<1>7. CASE /\ i \in DOMAIN items /\ i \in Nat \ {0} /\ items[i].key = k
           /\ items[i] \in Items /\ items[i].val \in Value
           /\ \A j \in DOMAIN items : items[j].key = k => j = i
  <2>1. w = items[i].val /\ w \in Value /\ w # NONE
    BY <1>5, <1>7, KeyTypes
  <2>2. items[i] = [key |-> k, val |-> w]
    BY <1>7, <2>1, ItemType
  <2>3. Holds(items, k, w)
    BY <1>7, <2>1, <2>2 DEF Holds
  <2>4. ASSUME NEW v \in Value \cup {NONE}, Holds(items, k, v)
        PROVE  v = w
    <3>1. CASE v = NONE
      BY <1>7, <2>4, <3>1 DEF Holds, Fresh
    <3>2. CASE v # NONE
      <4>1. PICK j \in DOMAIN items : items[j] = [key |-> k, val |-> v]
        BY <2>4, <3>2 DEF Holds
      <4>2. items[j].key = k /\ items[j].val = v
        BY <4>1
      <4>3. j = i
        BY <1>7, <4>2
      <4> QED BY <2>1, <4>2, <4>3
    <3> QED BY <3>1, <3>2
  <2> QED BY <1>4, <2>1, <2>3, <2>4 DEF items
<1> QED BY <1>3, <1>6, <1>7 DEF Found

LEMMA SettledMagic ==
  ASSUME NEW f, NEW s, Settled(f, s)
  PROVE  f[s].ver # NO_MAGIC
BY NorcowAssumption DEF Settled, NO_MAGIC

LEMMA KeepsContent ==
  ASSUME NEW f, FlashOK(f), NEW s \in Sectors, Settled(f, s),
         NEW st, st = Content(f, s), NEW c
  PROVE  Keeps(f[s].items, c, st)
<1> SUFFICES ASSUME NEW k \in Keys \ {c.key}
             PROVE  Holds(f[s].items, k, st[k])
  BY DEF Keeps
<1>1. st[k] = norcow_get(f, s, k)
  BY DEF Content
<1> QED BY <1>1, SettledMagic, GetHolds

-----------------------------------------------------------------------------
(* Calls that program an item of the sector in use.                        *)

(* The operations of the call end in what it is for.                       *)
Achieves(c) ==
  \/ Final(c.plan).key = NORCOW_KEY_DELETED
  \/ /\ c.kind = "set" /\ c.next = "return"
     /\ Final(c.plan) = [key |-> c.key, val |-> c.val]

LEMMA OwnChain ==
  ASSUME build \in Builds, NEW f, FlashOK(f), NEW c \in Calls, NEW i,
         c.kind \in {"set", "delete"}, c.key \in Keys,
         i \in DOMAIN f[c.wr].items, f[c.wr].items[i].key = c.key,
         \A j \in DOMAIN f[c.wr].items : f[c.wr].items[j].key = c.key => j = i,
         PutChain(c.plan, c.wr, i, f[c.wr].items[i]), Achieves(c)
  PROVE  /\ OwnItem(f, c) /\ c.plan # <<>>
         /\ End(f, c.plan, c.wr) = find_free_offset(f[c.wr])
<1>1. c.wr \in Sectors
  BY CallType
<1>2. /\ c.plan # <<>> /\ Writing(f, c.plan, c.wr, i)
      /\ End(f, c.plan, c.wr) = find_free_offset(f[c.wr])
      /\ Head(c.plan).item.key \in {c.key, NORCOW_KEY_DELETED}
  BY <1>1, ChainWriting
<1>3. i \in 1..(Len(f[c.wr].items) + 1)
  <2>1. Len(f[c.wr].items) \in Nat /\ DOMAIN f[c.wr].items = 1..Len(f[c.wr].items)
    BY <1>1, SectorIs
  <2>2. PICK L : L = Len(f[c.wr].items)
    OBVIOUS
  <2>3. L \in Nat /\ i \in 1..L
    BY <2>1, <2>2
  <2> QED BY <2>2, <2>3
<1>4. \A j \in DOMAIN f[c.wr].items :
        /\ f[c.wr].items[j].key = c.key => j = i
        /\ j = i => f[c.wr].items[j].key \in {c.key, NORCOW_KEY_DELETED}
  OBVIOUS
<1> QED BY <1>2, <1>3, <1>4 DEF OwnItem, Achieves

LEMMA LocalCall ==
  ASSUME NEW f, NEW st, NEW c \in Calls, Asks(c), c.kind \in {"set", "delete"},
         c.next \in {"compact", "write", "return"},
         c.next # "return" => c.kind = "set" /\ c.plan # <<>> /\ c.pos = 1,
         c.act = c.wr, Settled(f, c.wr), c.fr = End(f, c.plan, c.wr),
         OwnItem(f, c), Keeps(f[c.wr].items, c, st)
  PROVE  CallOK(f, c, st)
<1>1. Local(f, c, st)
  BY DEF Local
<1> QED BY <1>1 DEF CallOK


(* norcow_set_ex on an item that is there: what it programs.               *)
InPlace(s, i, old, v, m) ==
  IF BIT_ACCESS /\ m > 0
  THEN Puts(s, i, [j \in 1..m |-> [old EXCEPT !.val = Splice(v, old.val, j)]])
  ELSE <<>>
Torn(old, v, m) == [old EXCEPT !.val = IF m > 0 THEN Splice(v, old.val, m) ELSE @]

LEMMA InPlaceOK ==
  ASSUME build \in Builds, NEW s \in Sectors, NEW i \in Nat,
         NEW old \in Items, old.key \in Keys, old.val \in Value,
         NEW v \in Value, NEW m, m = Writable(old.val, v),
         BIT_ACCESS, m > 0,
         NEW q, q = InPlace(s, i, old, v, m)
  PROVE  /\ PutChain(q, s, i, old)
         /\ Final(q) = [key |-> old.key, val |-> Splice(v, old.val, m)]
         /\ Final(q) = Torn(old, v, m)
<1>1. old = [key |-> old.key, val |-> old.val]
  BY ItemType
<1>2. /\ m \in 0..Len(v) /\ Len(old.val) = Len(v)
      /\ \A j \in 1..m : v[j] <= old.val[j]
  BY WritableIs
<1>3. PICK t : t = [j \in 1..m |-> [old EXCEPT !.val = Splice(v, old.val, j)]]
  OBVIOUS
<1>4. t = Updating(old, v, m)
  <2>1. \A j : [old EXCEPT !.val = Splice(v, old.val, j)]
                 = [key |-> old.key, val |-> Splice(v, old.val, j)]
    BY <1>1
  <2> QED BY <1>3, <2>1 DEF Updating
<1>5. q = Puts(s, i, t)
  BY <1>3 DEF InPlace
<1>6. m \in 1..Len(v)
  BY <1>2
<1>7. /\ PutChain(q, s, i, old)
      /\ Final(q) = [key |-> old.key, val |-> Splice(v, old.val, m)]
  BY <1>2, <1>4, <1>5, <1>6, UpdateOK
<1>8. Torn(old, v, m) = [key |-> old.key, val |-> Splice(v, old.val, m)]
  BY <1>1 DEF Torn
<1> QED BY <1>7, <1>8

LEMMA TornIs ==
  ASSUME build \in Builds, NEW old \in Items, old.key \in Keys, old.val \in Value,
         NEW v \in Value, NEW m, m = 0 \/ m = Writable(old.val, v)
  PROVE  /\ Torn(old, v, m) \in Items /\ Torn(old, v, m).key = old.key
         /\ Torn(old, v, m).val \in Value
         /\ m = 0 => Torn(old, v, m) = old
<1>1. old = [key |-> old.key, val |-> old.val]
  BY ItemType
<1>2. CASE m = 0
  <2>1. Torn(old, v, m) = old
    BY <1>1, <1>2 DEF Torn
  <2> QED BY <1>2, <2>1
<1>3. CASE m # 0
  <2>1. m \in 0..Len(v) /\ m > 0 /\ Len(old.val) = Len(v)
    <3>1. m \in 0..Len(v) /\ (m > 0 => Len(old.val) = Len(v)) /\ Len(v) \in Nat
      BY <1>3, WritableIs, ValueType
    <3> QED BY <1>3, <3>1
  <2>2. PICK z : z = Splice(v, old.val, m)
    OBVIOUS
  <2>3. z \in Value
    <3>1. m \in Int
      BY <2>1
    <3> QED BY <2>1, <2>2, <3>1, SpliceType
  <2>4. Torn(old, v, m) = [key |-> old.key, val |-> z]
    BY <1>1, <2>1, <2>2 DEF Torn
  <2> QED BY <1>3, <2>3, <2>4 DEF Items
<1> QED BY <1>2, <1>3

LEMMA ReplaceOK ==
  ASSUME build \in Builds, NEW s \in Sectors, NEW i \in Nat,
         NEW old \in Items, old.key \in Keys, old.val \in Value,
         NEW v \in Value, NEW m, m = 0 \/ m = Writable(old.val, v),
         m # Len(v),
         NEW q, q = InPlace(s, i, old, v, m)
                      \o norcow_delete_item(s, i, Torn(old, v, m))
  PROVE  PutChain(q, s, i, old) /\ Final(q).key = NORCOW_KEY_DELETED
<1>1. PICK t : t = Torn(old, v, m)
  OBVIOUS
<1>2. t \in Items /\ t.key = old.key /\ t.val \in Value /\ (m = 0 => t = old)
  BY <1>1, TornIs
<1>3. PICK p : p = norcow_delete_item(s, i, t)
  OBVIOUS
<1>4. PutChain(p, s, i, t) /\ Final(p).key = NORCOW_KEY_DELETED
  BY <1>2, <1>3, DeleteItemOK
<1>5. PICK u : u = InPlace(s, i, old, v, m)
  OBVIOUS
<1>6. q = u \o p
  BY <1>1, <1>3, <1>5, Zenon
<1>7. m \in Nat /\ (m # 0 => BIT_ACCESS)
  <2>1. Len(v) \in Nat
    BY ValueType
  <2>2. CASE m = 0
    BY <2>2
  <2>3. CASE m # 0
    <3>1. m \in 0..Len(v) /\ (~BIT_ACCESS /\ m > 0 => m = Len(v))
      BY <2>3, WritableIs
    <3> QED BY <2>1, <2>3, <3>1
  <2> QED BY <2>2, <2>3
<1>8. CASE m = 0
  <2>1. u = <<>>
    BY <1>5, <1>8 DEF InPlace
  <2>2. p \in Seq(FlashOps)
    BY <1>4 DEF PutChain
  <2>3. q = p
    BY <1>6, <2>1, <2>2
  <2> QED BY <1>2, <1>4, <1>8, <2>3
<1>9. CASE m # 0
  <2>1. BIT_ACCESS /\ m > 0 /\ m = Writable(old.val, v)
    BY <1>7, <1>9
  <2>2. PutChain(u, s, i, old) /\ Final(u) = t
    BY <1>1, <1>5, <2>1, InPlaceOK
  <2>3. PutChain(p, s, i, Final(u))
    BY <1>4, <2>2
  <2>4. PutChain(u \o p, s, i, old) /\ Final(u \o p) = Final(p)
    BY <2>2, <2>3, ChainConcat
  <2> QED BY <1>4, <1>6, <2>4, Zenon
<1> QED BY <1>8, <1>9

(* A call between two others finds the statics in order.                   *)
Ready(f, s, fr, st) ==
  /\ build \in Builds /\ FlashOK(f) /\ s \in Sectors /\ Settled(f, s)
  /\ fr = find_free_offset(f[s]) /\ st = Content(f, s)

(* The call record of norcow_set_ex before the code runs on.               *)
SetCall(s, k, v, fill, plan, next, moves, fr) ==
  [kind |-> "set", key |-> k, val |-> v, fill |-> fill, plan |-> plan,
   next |-> next, pos |-> 1, moves |-> moves, act |-> s, wr |-> s, fr |-> fr]

LEMMA SetCallIs ==
  ASSUME NEW s \in Sectors, NEW k \in Keys, NEW v \in Value, NEW fill \in BOOLEAN,
         fill \/ v = Ones(Len(v)),
         NEW plan \in Seq(FlashOps), NEW moves \in BOOLEAN, NEW fr \in Nat,
         NEW next \in {"compact", "write", "return"},
         NEW c, c = SetCall(s, k, v, fill, plan, next, moves, fr)
  PROVE  /\ c \in Calls /\ Asks(c) /\ c.kind = "set" /\ c.key = k /\ c.val = v
         /\ c.plan = plan /\ c.next = next /\ c.pos = 1 /\ c.act = s /\ c.wr = s
         /\ c.fr = fr
<1>1. /\ c.kind = "set" /\ c.key = k /\ c.val = v /\ c.fill = fill
      /\ c.plan = plan /\ c.next = next /\ c.pos = 1 /\ c.act = s /\ c.wr = s
      /\ c.fr = fr
  BY DEF SetCall
<1>2. c \in Calls
  BY DEF SetCall, Calls
<1>3. Asks(c)
  BY <1>1 DEF Asks
<1> QED BY <1>1, <1>2, <1>3


(* The key is not there: norcow_set_ex goes on to write, or to compact.    *)
LEMMA SetNew ==
  ASSUME NEW f, NEW s, NEW fr, NEW st, Ready(f, s, fr, st),
         NEW c \in Calls, Asks(c), c.kind = "set", c.plan = <<>>, c.pos = 1,
         c.act = s, c.wr = s, c.fr = fr, c.next \in {"compact", "write"},
         Fresh(f[s].items, c.key), NEW d, d = Resume(f, c)
  PROVE  Ran(f, c, d, st)
<1>1. /\ build \in Builds /\ FlashOK(f) /\ s \in Sectors /\ Settled(f, s)
      /\ fr = find_free_offset(f[s]) /\ st = Content(f, s)
  BY DEF Ready
<1>2. Keeps(f[s].items, c, st)
  BY <1>1, KeepsContent
<1>3. CASE c.next = "write"
  <2>1. d = WriteNew(f, c)
    BY <1>3, ResumeWrite
  <2> QED BY <1>1, <1>2, <2>1, WriteNewOK
<1>4. CASE c.next = "compact"
  <2>1. d = Compacting(c)
    BY <1>4, ResumeCompact
  <2> QED BY <1>1, <1>2, <2>1, StartCompact
<1> QED BY <1>3, <1>4

(* The key is there: the call programs its item.                           *)
LEMMA SetOld ==
  ASSUME NEW f, NEW s, NEW fr, NEW st, Ready(f, s, fr, st),
         NEW c \in Calls, Asks(c), c.kind \in {"set", "delete"}, c.pos = 1,
         c.act = s, c.wr = s, c.fr = fr, c.next \in {"compact", "write", "return"},
         c.next # "return" => c.kind = "set",
         NEW i, i \in DOMAIN f[s].items, f[s].items[i].key = c.key,
         \A j \in DOMAIN f[s].items : f[s].items[j].key = c.key => j = i,
         PutChain(c.plan, s, i, f[s].items[i]), Achieves(c)
  PROVE  Resume(f, c) = c /\ Ran(f, c, c, st)
<1>1. /\ build \in Builds /\ FlashOK(f) /\ s \in Sectors /\ Settled(f, s)
      /\ fr = find_free_offset(f[s]) /\ st = Content(f, s)
  BY DEF Ready
<1>2. Keeps(f[s].items, c, st)
  BY <1>1, KeepsContent
<1>3. c.key \in Keys
  BY DEF Asks
<1>4. /\ OwnItem(f, c) /\ c.plan # <<>>
      /\ End(f, c.plan, c.wr) = find_free_offset(f[c.wr])
  <2>1. /\ i \in DOMAIN f[c.wr].items /\ f[c.wr].items[i].key = c.key
        /\ \A j \in DOMAIN f[c.wr].items : f[c.wr].items[j].key = c.key => j = i
        /\ PutChain(c.plan, c.wr, i, f[c.wr].items[i])
    OBVIOUS
  <2> QED BY <1>1, <1>3, <2>1, OwnChain
<1>5. CallOK(f, c, st)
  BY <1>1, <1>2, <1>4, LocalCall
<1>6. Resume(f, c) = c
  BY <1>4, ResumeLater
<1> QED BY <1>5, <1>6 DEF Ran, Same

(* The value is there already.                                             *)
LEMMA SetEqual ==
  ASSUME NEW f, NEW s, NEW fr, NEW st, Ready(f, s, fr, st),
         NEW c \in Calls, Asks(c), c.kind = "set", c.plan = <<>>,
         c.act = s, c.wr = s, c.fr = fr, c.next = "return",
         Holds(f[s].items, c.key, c.val)
  PROVE  Resume(f, c) = c /\ Ran(f, c, c, st)
<1>1. /\ build \in Builds /\ FlashOK(f) /\ s \in Sectors /\ Settled(f, s)
      /\ fr = find_free_offset(f[s]) /\ st = Content(f, s)
  BY DEF Ready
<1>2. Keeps(f[s].items, c, st)
  BY <1>1, KeepsContent
<1>3. OwnItem(f, c)
  BY DEF OwnItem
<1>4. c.fr = End(f, c.plan, c.wr)
  <2>1. find_free_offset(f[s]) \in Nat
    BY <1>1, CallType
  <2> QED BY <1>1, <2>1 DEF End
<1>5. CallOK(f, c, st)
  BY <1>1, <1>2, <1>3, <1>4, LocalCall
<1>6. Resume(f, c) = c
  BY ResumeLater
<1> QED BY <1>5, <1>6 DEF Ran, Same

(* What norcow_set_ex programs before it goes on.                          *)
Rewrite(s, i, old, v, m, updated) ==
  IF updated THEN InPlace(s, i, old, v, m)
  ELSE InPlace(s, i, old, v, m)
         \o (IF i > 0 THEN norcow_delete_item(s, i, Torn(old, v, m)) ELSE <<>>)

LEMMA RewriteNone ==
  ASSUME NEW s, NEW i, i = 0, NEW old, NEW v, NEW m, m = 0,
         NEW updated, ~updated, NEW q, q = Rewrite(s, i, old, v, m, updated)
  PROVE  q = <<>> /\ q \in Seq(FlashOps)
<1>1. PICK p : p = InPlace(s, i, old, v, m)
  OBVIOUS
<1>2. p = <<>> /\ p \in Seq(FlashOps)
  BY <1>1 DEF InPlace
<1>3. q = p \o <<>>
  BY <1>1 DEF Rewrite
<1>4. p \o <<>> = p
  BY <1>2, ConcatEmptySeq
<1> QED BY <1>2, <1>3, <1>4

LEMMA RewriteDeletes ==
  ASSUME build \in Builds, NEW s \in Sectors, NEW i \in Nat \ {0},
         NEW old \in Items, old.key \in Keys, old.val \in Value,
         NEW v \in Value, NEW m, m = 0 \/ m = Writable(old.val, v),
         m # Len(v),
         NEW updated, ~updated, NEW q, q = Rewrite(s, i, old, v, m, updated)
  PROVE  PutChain(q, s, i, old) /\ Final(q).key = NORCOW_KEY_DELETED
<1>1. i > 0 /\ i \in Nat
  OBVIOUS
<1>2. q = InPlace(s, i, old, v, m) \o norcow_delete_item(s, i, Torn(old, v, m))
  BY <1>1, Zenon DEF Rewrite
<1> QED BY <1>1, <1>2, ReplaceOK, Zenon

Updated(q, s, i, old, v) ==
  IF BIT_ACCESS
  THEN PutChain(q, s, i, old) /\ Final(q) = [key |-> old.key, val |-> v]
  ELSE q = <<>> /\ old.val = v

LEMMA InPlaceDone ==
  ASSUME build \in Builds, NEW s \in Sectors, NEW i \in Nat,
         NEW old \in Items, old.key \in Keys, old.val \in Value,
         NEW v \in Value, NEW m, m = Writable(old.val, v), m > 0,
         NEW q, q = InPlace(s, i, old, v, m)
  PROVE  m = Len(v) => Updated(q, s, i, old, v)
<1>1. BIT_ACCESS => PutChain(q, s, i, old) /\ Final(q) = Torn(old, v, m)
  BY InPlaceOK
<1>2. old = [key |-> old.key, val |-> old.val] /\ Len(old.val) = Len(v)
  BY ItemType, WritableIs
<1>3. Torn(old, v, m) = [key |-> old.key, val |-> Splice(v, old.val, m)]
  BY <1>2 DEF Torn
<1>4. ~BIT_ACCESS => q = <<>> /\ old.val = v
  BY WritableIs DEF InPlace
<1> HAVE m = Len(v)
<1>5. Splice(v, old.val, m) = v
  BY <1>2, SpliceEnds
<1> QED BY <1>1, <1>3, <1>4, <1>5 DEF Updated

(* norcow_set_ex yields a call in order.                                   *)
Asked(f, d, k, v, st) ==
  CallOK(f, d, st) /\ d.kind = "set" /\ d.key = k /\ d.val = v

LEMMA RanAsked ==
  ASSUME NEW f, NEW c, NEW d, NEW st, Ran(f, c, d, st), c.kind = "set"
  PROVE  Asked(f, d, c.key, c.val, st)
BY DEF Asked, Ran, Same

(* norcow_set_ex, step by step.                                            *)
Setting(f, s, k, v, fill, i, m, updated, plan, next) ==
  /\ Found(f[s].items, k, i)
  /\ m = IF i > 0 /\ fill THEN Writable(f[s].items[i].val, v) ELSE 0
  /\ updated <=> i > 0 /\ fill /\ m = Len(v)
  /\ plan = Rewrite(s, i, f[s].items[i], v, m, updated)
  /\ next \in {"compact", "write", "return"}
  /\ updated <=> next = "return"

LEMMA SetCases ==
  ASSUME NEW f, NEW s, NEW fr, NEW st, Ready(f, s, fr, st),
         NEW k \in Keys, NEW v \in Value, NEW fill \in BOOLEAN,
         fill \/ v = Ones(Len(v)), NEW i, NEW m, NEW updated, NEW plan, NEW next,
         NEW moves \in BOOLEAN,
         Setting(f, s, k, v, fill, i, m, updated, plan, next),
         NEW c, c = SetCall(s, k, v, fill, plan, next, moves, fr),
         NEW d, d = Resume(f, c)
  PROVE  Asked(f, d, k, v, st)
<1>1. /\ build \in Builds /\ FlashOK(f) /\ s \in Sectors /\ Settled(f, s)
      /\ fr = find_free_offset(f[s]) /\ st = Content(f, s)
  BY DEF Ready
<1>2. fr \in Nat /\ Len(v) \in Nat \ {0}
  BY <1>1, SectorIs, FreeOffsetType, ValueType
<1>3. next \in {"compact", "write", "return"} /\ (updated <=> next = "return")
  BY DEF Setting
<1>4. ASSUME plan \in Seq(FlashOps)
      PROVE  /\ c \in Calls /\ Asks(c) /\ c.kind = "set" /\ c.key = k /\ c.val = v
             /\ c.plan = plan /\ c.next = next /\ c.pos = 1 /\ c.act = s /\ c.wr = s
             /\ c.fr = fr
  BY <1>1, <1>2, <1>3, <1>4, SetCallIs
<1>5. CASE i = 0 /\ Fresh(f[s].items, k)
  <2>1. m = 0 /\ ~updated
    BY <1>5 DEF Setting
  <2>2. plan = Rewrite(s, i, f[s].items[i], v, m, updated)
    BY DEF Setting
  <2>3. plan = <<>> /\ plan \in Seq(FlashOps)
    BY <1>5, <2>1, <2>2, RewriteNone
  <2>4. /\ c \in Calls /\ Asks(c) /\ c.kind = "set" /\ c.key = k /\ c.val = v
        /\ c.plan = <<>> /\ c.next \in {"compact", "write"} /\ c.pos = 1
        /\ c.act = s /\ c.wr = s /\ c.fr = fr
    BY <1>3, <1>4, <2>1, <2>3
  <2>5. Ran(f, c, d, st)
    BY <1>5, <2>4, SetNew
  <2> QED BY <2>4, <2>5, RanAsked
<1>6. CASE /\ i \in DOMAIN f[s].items /\ i \in Nat \ {0} /\ f[s].items[i].key = k
           /\ f[s].items[i] \in Items /\ f[s].items[i].val \in Value
           /\ \A j \in DOMAIN f[s].items : f[s].items[j].key = k => j = i
  <2>1. PICK old : old = f[s].items[i]
    OBVIOUS
  <2>2. i > 0
    BY <1>6
  <2>3. /\ m = IF fill THEN Writable(old.val, v) ELSE 0
        /\ updated <=> fill /\ m = Len(v)
        /\ plan = Rewrite(s, i, old, v, m, updated)
    BY <2>1, <2>2 DEF Setting
  <2>4. old \in Items /\ old.key \in Keys /\ old.val \in Value /\ old.key = k
    BY <1>6, <2>1
  <2>5. CASE ~updated
    <3>1. m # Len(v) /\ (m = 0 \/ m = Writable(old.val, v))
      BY <1>2, <2>3, <2>5
    <3>2. plan = Rewrite(s, i, old, v, m, updated)
      BY <2>3
    <3>3. PutChain(plan, s, i, old) /\ Final(plan).key = NORCOW_KEY_DELETED
      BY <1>1, <1>6, <2>4, <2>5, <3>1, <3>2, RewriteDeletes
    <3>4. plan \in Seq(FlashOps)
      BY <3>3 DEF PutChain
    <3>5. /\ c \in Calls /\ Asks(c) /\ c.kind = "set" /\ c.key = k /\ c.val = v
          /\ c.plan = plan /\ c.next = next /\ c.pos = 1 /\ c.act = s /\ c.wr = s
          /\ c.fr = fr
      BY <1>4, <3>4
    <3>6. PutChain(c.plan, s, i, f[s].items[i]) /\ Final(c.plan).key = NORCOW_KEY_DELETED
      BY <2>1, <3>3, <3>5
    <3>7. /\ c.next \in {"compact", "write", "return"} /\ c.kind \in {"set", "delete"}
          /\ f[s].items[i].key = c.key
          /\ \A j \in DOMAIN f[s].items : f[s].items[j].key = c.key => j = i
      BY <1>3, <1>6, <3>5
    <3>8. Resume(f, c) = c /\ Ran(f, c, c, st)
      <4>1. c.next # "return" => c.kind = "set"
        BY <3>5
      <4>2. Achieves(c)
        BY <3>6 DEF Achieves
      <4>3. PutChain(c.plan, s, i, f[s].items[i])
        BY <3>6
      <4>4. /\ c \in Calls /\ Asks(c) /\ c.pos = 1 /\ c.act = s /\ c.wr = s /\ c.fr = fr
        BY <3>5
      <4>5. i \in DOMAIN f[s].items
        BY <1>6
      <4> QED BY <3>7, <4>1, <4>2, <4>3, <4>4, <4>5, SetOld
    <3> QED BY <3>5, <3>8, RanAsked
  <2>6. CASE updated
    <3>1. m = Writable(old.val, v) /\ m = Len(v) /\ next = "return"
      BY <1>3, <2>3, <2>6
    <3>2. plan = InPlace(s, i, old, v, m)
      BY <2>3, <2>6 DEF Rewrite
    <3>3. Updated(plan, s, i, old, v)
      <4>1. m > 0
        BY <1>2, <3>1
      <4> QED BY <1>1, <1>6, <2>4, <3>1, <3>2, <4>1, InPlaceDone
    <3>4. plan \in Seq(FlashOps)
      <4>1. PutChain(plan, s, i, old) \/ plan = <<>>
        BY <3>3 DEF Updated
      <4>2. PutChain(plan, s, i, old) => plan \in Seq(FlashOps)
        BY DEF PutChain
      <4>3. <<>> \in Seq(FlashOps)
        OBVIOUS
      <4> QED BY <4>1, <4>2, <4>3
    <3>5. /\ c \in Calls /\ Asks(c) /\ c.kind = "set" /\ c.key = k /\ c.val = v
          /\ c.plan = plan /\ c.next = "return" /\ c.pos = 1 /\ c.act = s /\ c.wr = s
          /\ c.fr = fr
      BY <1>4, <3>1, <3>4
    <3>6. CASE BIT_ACCESS
      <4>1. /\ PutChain(c.plan, s, i, f[s].items[i])
            /\ Final(c.plan) = [key |-> c.key, val |-> c.val]
        BY <2>1, <2>4, <3>3, <3>5, <3>6 DEF Updated
      <4>2. Resume(f, c) = c /\ Ran(f, c, c, st)
        <5>1. Achieves(c)
          BY <3>5, <4>1 DEF Achieves
        <5> QED BY <1>6, <3>5, <4>1, <5>1, SetOld
      <4> QED BY <3>5, <4>2, RanAsked
    <3>7. CASE ~BIT_ACCESS
      <4>1. plan = <<>> /\ old = [key |-> k, val |-> v] /\ v # NONE
        BY <2>4, <3>3, <3>7, ItemType, KeyTypes DEF Updated
      <4>2. Holds(f[s].items, c.key, c.val)
        BY <1>6, <2>1, <3>5, <4>1 DEF Holds
      <4>3. Resume(f, c) = c /\ Ran(f, c, c, st)
        BY <3>5, <4>1, <4>2, SetEqual
      <4> QED BY <3>5, <4>3, RanAsked
    <3> QED BY <3>6, <3>7
  <2> QED BY <2>5, <2>6
<1>7. Found(f[s].items, k, i)
  BY DEF Setting
<1> QED BY <1>5, <1>6, <1>7 DEF Found

(* What norcow_set_ex(k, v, fill) amounts to.                              *)
SetEx(d, k, v, fill, i, m, updated, plan, next, moves) ==
  /\ Setting(flash, write, k, v, fill, i, m, updated, plan, next)
  /\ updated \in BOOLEAN /\ moves \in BOOLEAN
  /\ next = "compact" /\ write = 0 => moves
  /\ d = Resume(flash, SetCall(write, k, v, fill, plan, next, moves, free))

LEMMA SetExIs ==
  ASSUME Ready(flash, write, free, store), active = write,
         NEW k \in Keys, NEW v, NEW fill, NEW d, d = norcow_set_ex(k, v, fill)
  PROVE  \E i, m, updated, plan, next, moves :
           SetEx(d, k, v, fill, i, m, updated, plan, next, moves)
<1>1. PICK i : i = find_item(flash[write], k)
  OBVIOUS
<1>2. PICK m : m = IF i > 0 /\ fill THEN Writable(flash[write].items[i].val, v) ELSE 0
  OBVIOUS
<1>3. PICK updated : updated = (i > 0 /\ fill /\ m = Len(v))
  OBVIOUS
<1>4. PICK full : full = (free + PREFIX_LEN + Len(v) > SECTOR_SIZE)
  OBVIOUS
<1>5. PICK plan : plan = Rewrite(write, i, flash[write].items[i], v, m, updated)
  OBVIOUS
<1>6. PICK next : next = IF updated THEN "return" ELSE IF full THEN "compact" ELSE "write"
  OBVIOUS
<1>7. PICK moves : moves = (~updated /\ full /\ active = 0)
  OBVIOUS
<1>8. PICK c : c = SetCall(write, k, v, fill, plan, next, moves, free)
  OBVIOUS
<1>9. d = Resume(flash, c)
  BY <1>1, <1>2, <1>3, <1>4, <1>5, <1>6, <1>7, <1>8, ZenonT(60)
     DEF norcow_set_ex, SetCall, InPlace, Torn, Rewrite
<1>10. Found(flash[write].items, k, i)
  <2>1. write \in Sectors /\ FlashOK(flash) /\ Settled(flash, write)
    BY DEF Ready
  <2>2. SectorOK(flash[write])
    BY <2>1, SectorIs
  <2>3. flash[write].ver # NO_MAGIC
    BY <2>1, SettledMagic
  <2> QED BY <1>1, <2>2, <2>3, FindItem
<1>11. /\ next \in {"compact", "write", "return"} /\ (updated <=> next = "return")
       /\ moves \in BOOLEAN /\ updated \in BOOLEAN
  BY <1>3, <1>6, <1>7
<1>12. Setting(flash, write, k, v, fill, i, m, updated, plan, next)
  BY <1>2, <1>3, <1>5, <1>10, <1>11 DEF Setting
<1>13. next = "compact" /\ write = 0 => moves
  BY <1>6, <1>7
<1>14. SetEx(d, k, v, fill, i, m, updated, plan, next, moves)
  BY <1>8, <1>9, <1>11, <1>12, <1>13 DEF SetEx
<1> QED BY <1>14

LEMMA SetOK ==
  ASSUME Ready(flash, write, free, store), active = write,
         NEW k \in Keys, NEW v \in Value, NEW fill \in BOOLEAN,
         fill \/ v = Ones(Len(v)),
         NEW d, d = norcow_set_ex(k, v, fill)
  PROVE  Asked(flash, d, k, v, store)
<1>1. PICK i, m, updated, plan, next, moves :
        SetEx(d, k, v, fill, i, m, updated, plan, next, moves)
  BY SetExIs
<1>2. PICK c : c = SetCall(write, k, v, fill, plan, next, moves, free)
  OBVIOUS
<1>3. /\ Setting(flash, write, k, v, fill, i, m, updated, plan, next)
      /\ moves \in BOOLEAN /\ d = Resume(flash, c)
  BY <1>1, <1>2 DEF SetEx
<1> QED BY <1>2, <1>3, SetCases

(* norcow_delete.                                                          *)
LEMMA DeleteOK ==
  ASSUME Ready(flash, write, free, store), active = write,
         NEW k \in Keys, find_item(flash[write], k) # 0,
         NEW d, d = norcow_delete(k)
  PROVE  CallOK(flash, d, store) /\ d.kind = "delete"
<1>1. /\ write \in Sectors /\ FlashOK(flash) /\ Settled(flash, write)
      /\ build \in Builds /\ free = find_free_offset(flash[write])
  BY DEF Ready
<1>2. PICK i : i = find_item(flash[write], k)
  OBVIOUS
<1>3. Found(flash[write].items, k, i)
  <2>1. SectorOK(flash[write])
    BY <1>1, SectorIs
  <2>2. flash[write].ver # NO_MAGIC
    BY <1>1, SettledMagic
  <2> QED BY <1>2, <2>1, <2>2, FindItem
<1>4. /\ i \in DOMAIN flash[write].items /\ i \in Nat
      /\ flash[write].items[i].key = k
      /\ flash[write].items[i] \in Items /\ flash[write].items[i].val \in Value
      /\ \A j \in DOMAIN flash[write].items : flash[write].items[j].key = k => j = i
  BY <1>2, <1>3 DEF Found
<1>5. PICK it : it = flash[write].items[i]
  OBVIOUS
<1>6. PICK q : q = norcow_delete_item(write, i, it)
  OBVIOUS
<1>7. it \in Items /\ it.key \in Keys /\ it.val \in Value
  BY <1>4, <1>5
<1>8. PutChain(q, write, i, it) /\ Final(q).key = NORCOW_KEY_DELETED
  BY <1>1, <1>4, <1>6, <1>7, DeleteItemOK
<1>9. q \in Seq(FlashOps)
  BY <1>8 DEF PutChain
<1>10. d = [kind |-> "delete", key |-> k, val |-> NONE, fill |-> FALSE, plan |-> q,
            next |-> "return", pos |-> 1, moves |-> FALSE,
            act |-> write, wr |-> write, fr |-> free]
  BY <1>2, <1>5, <1>6 DEF norcow_delete
<1>11. /\ d.kind = "delete" /\ d.key = k /\ d.plan = q /\ d.next = "return" /\ d.pos = 1
       /\ d.act = write /\ d.wr = write /\ d.fr = free
  BY <1>10
<1>12. free \in Nat
  BY <1>1, SectorIs, FreeOffsetType
<1>13. d \in Calls
  BY <1>1, <1>9, <1>10, <1>12 DEF Calls
<1>14. Asks(d)
  BY <1>11 DEF Asks
<1>15. Achieves(d)
  BY <1>8, <1>11 DEF Achieves
<1>16. /\ flash[write].items[i].key = d.key
       /\ \A j \in DOMAIN flash[write].items : flash[write].items[j].key = d.key => j = i
       /\ PutChain(d.plan, write, i, flash[write].items[i])
       /\ d.kind \in {"set", "delete"} /\ d.next \in {"compact", "write", "return"}
       /\ (d.next # "return" => d.kind = "set")
  BY <1>4, <1>5, <1>8, <1>11
<1>17. Ran(flash, d, d, store)
  BY <1>4, <1>11, <1>13, <1>14, <1>15, <1>16, SetOld
<1> QED BY <1>11, <1>17 DEF Ran

(* norcow_update_bytes: one cell more of the preallocated item.            *)
Filled(v, n) == Splice(v, Ones(Len(v)), n)

LEMMA FilledNext ==
  ASSUME NEW v \in Value, NEW n \in Nat, n < Len(v),
         NEW w, w = Filled(v, n), NEW u, u = Splice(v, w, n + 1)
  PROVE  /\ u = Filled(v, n + 1) /\ u \in Value /\ w \in Value
         /\ Len(u) = Len(v) /\ Len(w) = Len(v)
         /\ \A j \in 1..Len(v) : u[j] <= w[j]
<1>1. /\ Len(v) \in Nat \ {0} /\ DOMAIN v = 1..Len(v)
      /\ \A j \in 1..Len(v) : v[j] \in 0..1
  BY ValueType
<1>2. PICK o : o = Ones(Len(v))
  OBVIOUS
<1>3. o \in Value /\ Len(o) = Len(v) /\ \A j \in 1..Len(v) : o[j] = 1
  BY <1>1, <1>2, ValueType, ConstantType
<1>4. /\ w \in Value /\ Len(w) = Len(v)
      /\ \A j \in 1..Len(v) : w[j] = IF j <= n THEN v[j] ELSE o[j]
  BY <1>2, <1>3, SpliceType DEF Filled
<1>5. n + 1 \in Int
  OBVIOUS
<1>6. PICK l : l = n + 1
  OBVIOUS
<1>7. /\ u \in Value /\ Len(u) = Len(v)
      /\ \A j \in 1..Len(v) : u[j] = IF j <= l THEN v[j] ELSE w[j]
  BY <1>4, <1>5, <1>6, SpliceType
<1>8. PICK x : x = Filled(v, l)
  OBVIOUS
<1>9. /\ x \in Value /\ Len(x) = Len(v)
      /\ \A j \in 1..Len(v) : x[j] = IF j <= l THEN v[j] ELSE o[j]
  BY <1>2, <1>3, <1>5, <1>6, <1>8, SpliceType DEF Filled
<1>10. \A j \in 1..Len(v) : u[j] = x[j]
  BY <1>1, <1>4, <1>6, <1>7, <1>9
<1>11. u = x
  <2>1. /\ u = [j \in 1..Len(u) |-> u[j]] /\ x = [j \in 1..Len(x) |-> x[j]]
    BY <1>7, <1>9, ValueType
  <2> QED BY <1>7, <1>9, <1>10, <2>1
<1>12. \A j \in 1..Len(v) : u[j] <= w[j]
  BY <1>1, <1>3, <1>4, <1>6, <1>7
<1> QED BY <1>4, <1>6, <1>7, <1>8, <1>11, <1>12

LEMMA OnePut ==
  ASSUME NEW s \in Sectors, NEW i \in Nat, NEW was, NEW it \in Items, Lowers(it, was),
         NEW q, q = Puts(s, i, <<it>>)
  PROVE  PutChain(q, s, i, was) /\ Final(q) = it
<1>1. PICK t : t = <<it>>
  OBVIOUS
<1>2. t \in Seq(Items) /\ Len(t) = 1 /\ t[1] = it /\ t # <<>>
  BY <1>1
<1>3. Lowering(t, was)
  BY <1>2 DEF Lowering
<1> QED BY <1>1, <1>2, <1>3, PutsChain

LEMMA UpdateBytesOK ==
  ASSUME Ready(flash, write, free, store), active = write,
         NEW k \in Keys, NEW v \in Value, NEW n \in Nat, n < Len(v),
         store[k] \in {NONE, Filled(v, n)},
         find_item(flash[write], k) # 0,
         NEW d, d = norcow_update_bytes(k, v, n)
  PROVE  Asked(flash, d, k, Filled(v, n + 1), store)
<1>1. /\ write \in Sectors /\ FlashOK(flash) /\ Settled(flash, write)
      /\ build \in Builds /\ free = find_free_offset(flash[write])
      /\ store = Content(flash, write)
  BY DEF Ready
<1>2. PICK i : i = find_item(flash[write], k)
  OBVIOUS
<1>3. Found(flash[write].items, k, i)
  <2>1. SectorOK(flash[write])
    BY <1>1, SectorIs
  <2>2. flash[write].ver # NO_MAGIC
    BY <1>1, SettledMagic
  <2> QED BY <1>2, <2>1, <2>2, FindItem
<1>4. /\ i \in DOMAIN flash[write].items /\ i \in Nat
      /\ flash[write].items[i].key = k
      /\ flash[write].items[i] \in Items /\ flash[write].items[i].val \in Value
      /\ \A j \in DOMAIN flash[write].items : flash[write].items[j].key = k => j = i
  BY <1>2, <1>3 DEF Found
<1>5. PICK cur : cur = flash[write].items[i]
  OBVIOUS
<1>6. cur.val = Filled(v, n)
  <2>1. store[k] = norcow_get(flash, write, k)
    BY <1>1 DEF Content
  <2>2. norcow_get(flash, write, k) = cur.val
    BY <1>2, <1>5 DEF norcow_get
  <2>3. cur.val # NONE
    BY <1>4, <1>5, KeyTypes
  <2> QED BY <2>1, <2>2, <2>3
<1>7. PICK new : new = Splice(v, cur.val, n + 1)
  OBVIOUS
<1>8. /\ new = Filled(v, n + 1) /\ new \in Value
      /\ Len(new) = Len(v) /\ Len(cur.val) = Len(v)
      /\ \A j \in 1..Len(v) : new[j] <= cur.val[j]
  BY <1>6, <1>7, FilledNext
<1>9. PICK it : it = [key |-> k, val |-> new]
  OBVIOUS
<1>10. it \in Items /\ it.key = k /\ it.val = new
  BY <1>8, <1>9 DEF Items
<1>11. Lowers(it, cur)
  <2>1. HasValue(it)
    BY <1>8, <1>10 DEF HasValue
  <2>2. DOMAIN new = 1..Len(v)
    BY <1>8, ValueType
  <2>3. Size(it) = Size(cur)
    BY <1>8, <1>10 DEF Size
  <2> QED BY <1>4, <1>5, <1>8, <1>10, <2>1, <2>2, <2>3 DEF Lowers
<1>12. PICK q : q = Puts(write, i, <<it>>)
  OBVIOUS
<1>13. PutChain(q, write, i, cur) /\ Final(q) = it
  BY <1>1, <1>4, <1>10, <1>11, <1>12, OnePut
<1>14. q \in Seq(FlashOps)
  BY <1>13 DEF PutChain
<1>15. [cur EXCEPT !.val = new] = it
  <2>1. cur = [key |-> cur.key, val |-> cur.val] /\ cur.key = k
    BY <1>4, <1>5, ItemType
  <2> QED BY <1>9, <2>1
<1>16. d = SetCall(write, k, new, TRUE, q, "return", FALSE, free)
  BY <1>2, <1>5, <1>7, <1>12, <1>15 DEF norcow_update_bytes, SetCall
<1>17. free \in Nat
  BY <1>1, SectorIs, FreeOffsetType
<1>18. /\ d \in Calls /\ Asks(d) /\ d.kind = "set" /\ d.key = k /\ d.val = new
       /\ d.plan = q /\ d.next = "return" /\ d.pos = 1 /\ d.act = write /\ d.wr = write
       /\ d.fr = free
  <2>1. PICK fill, moves, next : fill = TRUE /\ moves = FALSE /\ next = "return"
    OBVIOUS
  <2>2. fill \in BOOLEAN /\ moves \in BOOLEAN /\ fill
    BY <2>1
  <2>3. d = SetCall(write, k, new, fill, q, next, moves, free)
    BY <1>16, <2>1
  <2>4. next \in {"compact", "write", "return"}
    BY <2>1
  <2>5. fill \/ new = Ones(Len(new))
    BY <2>2
  <2>6. /\ d \in Calls /\ Asks(d) /\ d.kind = "set" /\ d.key = k /\ d.val = new
        /\ d.plan = q /\ d.next = next /\ d.pos = 1 /\ d.act = write /\ d.wr = write
        /\ d.fr = free
    <3>1. new \in Value /\ write \in Sectors
      BY <1>1, <1>8
    <3>2. fill \in BOOLEAN /\ moves \in BOOLEAN
      BY <2>2
    <3> QED BY <1>14, <1>17, <2>3, <2>4, <2>5, <3>1, <3>2, SetCallIs
  <2> QED BY <2>1, <2>6
<1>19. Achieves(d)
  BY <1>9, <1>13, <1>18 DEF Achieves
<1>20. /\ flash[write].items[i].key = d.key
       /\ \A j \in DOMAIN flash[write].items : flash[write].items[j].key = d.key => j = i
       /\ PutChain(d.plan, write, i, flash[write].items[i])
       /\ d.kind \in {"set", "delete"} /\ d.next \in {"compact", "write", "return"}
       /\ (d.next # "return" => d.kind = "set")
  BY <1>4, <1>5, <1>13, <1>18
<1>21. Ran(flash, d, d, store)
  BY <1>4, <1>18, <1>19, <1>20, SetOld
<1> QED BY <1>8, <1>18, <1>21, RanAsked


-----------------------------------------------------------------------------
(* Wiping and booting.                                                     *)

(* A call that carries no key.                                             *)
Bare(kind, plan, next, moves, act, wr, fr) ==
  [kind |-> kind, key |-> NONE, val |-> NONE, fill |-> FALSE, plan |-> plan,
   next |-> next, pos |-> 1, moves |-> moves, act |-> act, wr |-> wr, fr |-> fr]

LEMMA BareIs ==
  ASSUME NEW kind \in {"wipe", "init"}, NEW plan \in Seq(FlashOps),
         NEW next \in {"copy", "return"}, NEW moves \in BOOLEAN,
         NEW act \in Sectors, NEW wr \in Sectors, NEW fr \in Nat,
         NEW c, c = Bare(kind, plan, next, moves, act, wr, fr)
  PROVE  /\ c \in Calls /\ Asks(c) /\ c.kind = kind /\ c.plan = plan
         /\ c.next = next /\ c.pos = 1 /\ c.act = act /\ c.wr = wr /\ c.fr = fr
<1>1. /\ c.kind = kind /\ c.plan = plan
      /\ c.next = next /\ c.pos = 1 /\ c.act = act /\ c.wr = wr /\ c.fr = fr
  BY DEF Bare
<1>2. c \in Calls
  BY DEF Bare, Calls
<1>3. Asks(c)
  BY <1>1 DEF Asks
<1> QED BY <1>1, <1>2, <1>3

LEMMA WipeOK ==
  ASSUME build \in Builds, NEW s \in Sectors, NEW f, NEW st,
         NEW kind \in {"wipe", "init"}, NEW plan, plan = norcow_wipe(s),
         NEW moves \in BOOLEAN, NEW next, next = "return", NEW fr, fr = 0,
         NEW c, c = Bare(kind, plan, next, moves, s, s, fr)
  PROVE  CallOK(f, c, st) /\ c.kind = kind
<1>1. plan \in Seq(FlashOps)
  BY WipePlanType
<1>2. next \in {"copy", "return"} /\ fr \in Nat
  OBVIOUS
<1>3. /\ c \in Calls /\ Asks(c) /\ c.kind = kind /\ c.plan = plan
      /\ c.next = next /\ c.pos = 1 /\ c.act = s /\ c.wr = s /\ c.fr = fr
  BY <1>1, <1>2, BareIs
<1>4. Wiping(f, c)
  BY <1>3 DEF Wiping
<1> QED BY <1>3, <1>4 DEF CallOK

LEMMA InitCallOK ==
  ASSUME build \in Builds, NEW f, FlashOK(f), NEW st,
         NEW c, c = norcow_init(f)
  PROVE  CallOK(f, c, st) /\ c.kind = "init"
<1>1. PICK a : a = ActiveSector(f)
  OBVIOUS
<1>2. a \in Sectors /\ 1 - a \in Sectors
  BY <1>1 DEF ActiveSector, Sectors
<1>3. PICK ver : ver = f[a].ver
  OBVIOUS
<1>4. ver \in Int /\ NORCOW_VERSION \in Nat
  <2>1. ver \in Versions
    BY <1>2, <1>3, SectorIs
  <2> QED BY <2>1, NorcowAssumption DEF Versions, NO_MAGIC
<1>5. PICK wipe : wipe = (ver = NO_MAGIC \/ ver > NORCOW_VERSION)
  OBVIOUS
<1>6. PICK upgrade : upgrade = (~wipe /\ ver < NORCOW_VERSION)
  OBVIOUS
<1>7. wipe \in BOOLEAN /\ upgrade \in BOOLEAN
  BY <1>5, <1>6
<1>8. PICK plan : plan = IF wipe THEN norcow_wipe(a)
                         ELSE IF upgrade THEN compact_prepare(1 - a) ELSE <<>>
  OBVIOUS
<1>9. PICK next : next = IF upgrade THEN "copy" ELSE "return"
  OBVIOUS
<1>10. PICK wr : wr = IF upgrade THEN 1 - a ELSE a
  OBVIOUS
<1>11. PICK fr : fr = IF wipe \/ upgrade THEN 0 ELSE find_free_offset(f[a])
  OBVIOUS
<1>12. c = Bare("init", plan, next, upgrade, a, wr, fr)
  BY <1>1, <1>3, <1>5, <1>6, <1>8, <1>9, <1>10, <1>11 DEF norcow_init, Bare
<1>13. PICK kind : kind = "init"
  OBVIOUS
<1>14. c = Bare(kind, plan, next, upgrade, a, wr, fr) /\ kind \in {"wipe", "init"}
  BY <1>12, <1>13
<1>15. CASE wipe
  <2>1. ~upgrade
    BY <1>6, <1>15
  <2>2. plan = norcow_wipe(a) /\ next = "return" /\ wr = a /\ fr = 0
    BY <1>8, <1>9, <1>10, <1>11, <1>15, <2>1
  <2>3. c = Bare(kind, plan, next, upgrade, a, a, fr)
    BY <1>14, <2>2
  <2> QED BY <1>2, <1>7, <1>13, <1>14, <2>2, <2>3, WipeOK
<1>16. CASE ~wipe /\ upgrade
  <2>1. plan = compact_prepare(wr) /\ next = "copy" /\ wr = 1 - a /\ fr = 0
    BY <1>8, <1>9, <1>10, <1>11, <1>16
  <2>2. wr \in Sectors
    BY <1>2, <2>1
  <2>3. plan \in Seq(FlashOps) /\ Preparing(f, plan, wr)
    BY <2>1, <2>2, PreparePlan
  <2>4. next \in {"copy", "return"} /\ fr \in Nat
    BY <2>1
  <2>5. /\ c \in Calls /\ Asks(c) /\ c.kind = kind /\ c.plan = plan
        /\ c.next = next /\ c.pos = 1 /\ c.act = a /\ c.wr = wr /\ c.fr = fr
    BY <1>2, <1>7, <1>14, <2>2, <2>3, <2>4, BareIs
  <2>6. Source(f, c, st)
    BY <1>13, <2>1, <2>5 DEF Source
  <2>7. Moving(f, c, st)
    BY <2>3, <2>5, <2>6 DEF Moving
  <2> QED BY <1>13, <2>5, <2>7 DEF CallOK
<1>17. CASE ~wipe /\ ~upgrade
  <2>1. plan = <<>> /\ next = "return" /\ wr = a /\ fr = find_free_offset(f[a])
    BY <1>8, <1>9, <1>10, <1>11, <1>17
  <2>2. ver = NORCOW_VERSION
    <3>1. ~(ver > NORCOW_VERSION)
      BY <1>5, <1>17, Zenon
    <3>2. ~(ver < NORCOW_VERSION)
      BY <1>6, <1>17, Zenon
    <3> QED BY <1>4, <3>1, <3>2
  <2>3. Settled(f, a)
    BY <1>1, <1>3, <2>2 DEF Settled
  <2>4. fr \in Nat
    BY <1>2, <2>1, SectorIs, FreeOffsetType
  <2>5. plan \in Seq(FlashOps) /\ next \in {"copy", "return"} /\ wr \in Sectors
    BY <1>2, <2>1
  <2>6. /\ c \in Calls /\ Asks(c) /\ c.kind = kind /\ c.plan = plan
        /\ c.next = next /\ c.pos = 1 /\ c.act = a /\ c.wr = wr /\ c.fr = fr
    BY <1>2, <1>7, <1>14, <2>4, <2>5, BareIs
  <2>7. /\ c.kind \in {"init", "wipe"} /\ c.next = "return" /\ c.plan = <<>>
        /\ c.act = c.wr /\ Settled(f, c.wr) /\ c.fr = find_free_offset(f[c.wr])
    BY <1>13, <2>1, <2>3, <2>6
  <2>8. CallOK(f, c, st)
    BY <2>6, <2>7, QuietCall
  <2> QED BY <1>13, <2>6, <2>8
<1> QED BY <1>7, <1>15, <1>16, <1>17

(* A sector that holds one value.                                          *)
LEMMA OneItemOK ==
  ASSUME build \in Builds, NEW v \in Versions, NEW k \in Keys, NEW u \in Value,
         ItemSize(Len(u)) <= SECTOR_SIZE,
         NEW it, it = [key |-> k, val |-> u],
         NEW sec, sec = [ver |-> v, items |-> <<it>>]
  PROVE  SectorOK(sec)
<1>1. PICK e : e = [ver |-> v, items |-> <<>>]
  OBVIOUS
<1>2. SectorOK(e) /\ find_free_offset(e) = 0
  BY <1>1, EmptySectorOK
<1>3. e.ver = v /\ e.items = <<>>
  BY <1>1
<1>4. it \in Items /\ it.key = k /\ it.val = u
  BY DEF Items
<1>5. HasValue(it) /\ Size(it) = ItemSize(Len(u))
  BY <1>4 DEF HasValue, Size
<1>6. Fresh(e.items, it.key)
  BY <1>3 DEF Fresh
<1>7. Size(it) \in Nat
  BY <1>4, ItemSizeType
<1>8. find_free_offset(e) + Size(it) <= SECTOR_SIZE
  BY <1>2, <1>5, <1>7
<1>9. PICK more : more = Append(e.items, it)
  OBVIOUS
<1>10. more = <<it>>
  BY <1>3, <1>9
<1>11. sec = [ver |-> e.ver, items |-> more]
  BY <1>3, <1>10
<1> QED BY <1>2, <1>4, <1>5, <1>6, <1>8, <1>9, <1>11, AppendOK

LEMMA FoundOK ==
  ASSUME build \in Builds, NEW sec \in FoundSectors
  PROVE  SectorOK(sec)
<1>1. CASE sec = Erased
  <2>1. NO_MAGIC \in Versions
    BY DEF Versions
  <2> QED BY <1>1, <2>1, EmptySectorOK DEF Erased
<1>2. CASE sec # Erased
  <2>1. PICK k \in Keys, u \in {w \in Inputs : ItemSize(Len(w)) <= SECTOR_SIZE} :
          sec.items = <<[key |-> k, val |-> u]>>
    BY <1>2 DEF FoundSectors
  <2>2. sec.ver \in Versions /\ sec = [ver |-> sec.ver, items |-> sec.items]
    BY <1>2 DEF FoundSectors, Versions
  <2>3. u \in Value /\ ItemSize(Len(u)) <= SECTOR_SIZE
    BY <2>1, NorcowAssumption DEF Inputs, Value
  <2>4. PICK it : it = [key |-> k, val |-> u]
    OBVIOUS
  <2>5. sec = [ver |-> sec.ver, items |-> <<it>>]
    BY <2>1, <2>2, <2>4
  <2> QED BY <2>2, <2>3, <2>4, <2>5, OneItemOK
<1> QED BY <1>1, <1>2

LEMMA InitFlash ==
  ASSUME build \in Builds, NEW a \in Sectors, NEW sec \in FoundSectors,
         NEW f, f = [s \in Sectors |-> IF s = a THEN sec ELSE Erased]
  PROVE  FlashOK(f)
<1>1. SectorOK(sec)
  BY FoundOK
<1>2. SectorOK(Erased)
  BY FoundOK DEF FoundSectors
<1>3. \A s \in Sectors : SectorOK(f[s])
  BY <1>1, <1>2
<1>4. f = [s \in Sectors |-> f[s]]
  OBVIOUS
<1> QED BY <1>3, <1>4 DEF FlashOK


-----------------------------------------------------------------------------
(* The build does not change.                                              *)

LEMMA SameParts ==
  ASSUME build' = build
  PROVE  /\ \A a, b : Lowers(a, b)' <=> Lowers(a, b)
         /\ \A f : FlashOK(f)' <=> FlashOK(f)
         /\ \A f, q, s, i : Writing(f, q, s, i)' <=> Writing(f, q, s, i)
         /\ \A f, q, s : End(f, q, s)' = End(f, q, s)
         /\ \A f, q, s : Preparing(f, q, s)' <=> Preparing(f, q, s)
         /\ \A s : norcow_wipe(s)' = norcow_wipe(s)
<1>1. \A it : Size(it)' = Size(it)
  BY SameBuild DEF Size
<1>2. \A a, b : Lowers(a, b)' <=> Lowers(a, b)
  BY <1>1 DEF Lowers
<1>3. \A sec : SectorOK(sec)' <=> SectorOK(sec)
  BY SameBuild DEF SectorOK
<1>4. \A f : FlashOK(f)' <=> FlashOK(f)
  BY <1>3 DEF FlashOK
<1>5. \A f, q, s, i : Writing(f, q, s, i)' <=> Writing(f, q, s, i)
  BY <1>1, <1>2, SameBuild DEF Writing
<1>6. \A f, q, s : End(f, q, s)' = End(f, q, s)
  BY <1>1, SameBuild DEF End
<1>7. \A f, q, s : Preparing(f, q, s)' <=> Preparing(f, q, s)
  BY SameBuild DEF Preparing
<1>8. \A s : norcow_wipe(s)' = norcow_wipe(s)
  BY SameBuild DEF norcow_wipe
<1> QED BY <1>2, <1>4, <1>5, <1>6, <1>7, <1>8

LEMMA SameCall ==
  ASSUME build' = build
  PROVE  \A f, c, st : CallOK(f, c, st)' <=> CallOK(f, c, st)
<1>1. \A f, c : OwnItem(f, c)' <=> OwnItem(f, c)
  BY SameParts DEF OwnItem
<1>2. \A f, c, st : Local(f, c, st)' <=> Local(f, c, st)
  BY <1>1, SameParts DEF Local
<1>3. \A f, c, st : Moving(f, c, st)' <=> Moving(f, c, st)
  BY SameParts DEF Moving
<1>4. \A f, c, st : Copying(f, c, st)' <=> Copying(f, c, st)
  BY SameParts, SameBuild DEF Copying
<1>5. \A f, c, st : Moved(f, c, st)' <=> Moved(f, c, st)
  BY SameBuild DEF Moved
<1>6. \A f, c : Wiping(f, c)' <=> Wiping(f, c)
  BY SameParts DEF Wiping
<1> QED BY <1>2, <1>3, <1>4, <1>5, <1>6 DEF CallOK


-----------------------------------------------------------------------------
(* The invariant.                                                          *)

(* What OpenOK says of the item o, the call c and the values st.           *)
Filling(o, c, st) ==
  /\ o \in [key : Keys, val : Value, flashed : Nat]
  /\ o.flashed < Len(o.val)
  /\ c # NONE => c.kind = "set"
  /\ IF c # NONE /\ c.key = o.key THEN c.val = Filled(o.val, o.flashed)
     ELSE st[o.key] \in {NONE, Filled(o.val, o.flashed)}

LEMMA OpenIsFilling == OpenOK <=> Filling(open, call, store)
BY DEF OpenOK, Filling, Filled

(* Between two calls.                                                      *)
Resting(f, a, w, fr, st) ==
  /\ a = w /\ Settled(f, a) /\ fr = find_free_offset(f[a]) /\ st = Content(f, a)

LEMMA NInvNow ==
  ASSUME NInv
  PROVE  /\ build \in Builds /\ FlashOK(flash)
         /\ active \in Sectors /\ write \in Sectors /\ free \in 0..SECTOR_SIZE
         /\ on \in BOOLEAN /\ store = [k \in Keys |-> store[k]]
         /\ call # NONE => CallOK(flash, call, store) /\ (call.kind = "init" <=> ~on)
         /\ ~on => call # NONE /\ open = NONE
         /\ on /\ call = NONE => Resting(flash, active, write, free, store)
         /\ open # NONE => Filling(open, call, store)
BY OpenIsFilling DEF NInv, Resting, Idle

LEMMA NInvNext ==
  ASSUME build' = build, build \in Builds, FlashOK(flash'),
         active' \in Sectors, write' \in Sectors, free' \in 0..SECTOR_SIZE,
         on' \in BOOLEAN, store' = [k \in Keys |-> store'[k]],
         call' # NONE => CallOK(flash', call', store') /\ (call'.kind = "init" <=> ~on'),
         ~on' => call' # NONE /\ open' = NONE,
         on' /\ call' = NONE => Resting(flash', active', write', free', store'),
         open' # NONE => Filling(open', call', store')
  PROVE  NInv'
<1>1. FlashOK(flash)'
  BY SameParts
<1>2. CallOK(flash, call, store)' <=> CallOK(flash', call', store')
  BY SameCall
<1>3. free' \in 0..SECTOR_SIZE' /\ build' \in Builds
  BY SameBuild
<1>4. OpenOK' <=> Filling(open', call', store')
  BY DEF OpenOK, Filling, Filled
<1>5. Idle' => /\ active' = write' /\ Settled(flash', active')
               /\ free' = find_free_offset(flash[active])'
               /\ store' = Content(flash', active')
  BY SameBuild DEF Resting, Idle
<1> QED BY <1>1, <1>2, <1>3, <1>4, <1>5 DEF NInv

LEMMA CallIsCall ==
  ASSUME NEW f, NEW c, NEW st, CallOK(f, c, st)
  PROVE  c # NONE /\ c \in Calls
BY NoneAssumption DEF CallOK

LEMMA RestingReady ==
  ASSUME NInv, Idle
  PROVE  Ready(flash, write, free, store) /\ active = write
BY NInvNow DEF Resting, Ready, Idle

(* A call starts.                                                          *)
LEMMA StartOK ==
  ASSUME NInv, Idle, UNCHANGED <<build, flash, active, write, free, on, store>>,
         CallOK(flash, call', store), call'.kind # "init",
         open' # NONE => Filling(open', call', store)
  PROVE  NInv'
<1>1. call' # NONE
  BY CallIsCall
<1>2. on
  BY DEF Idle
<1> QED BY <1>1, <1>2, NInvNow, NInvNext

LEMMA SetStarts ==
  ASSUME NInv, NEW k \in Keys, NEW v \in Inputs, norcowSet(k, v)
  PROVE  NInv'
<1>1. Idle /\ MaySet(k) /\ call' = norcow_set_ex(k, v, TRUE)
      /\ UNCHANGED <<build, flash, active, write, free, open, on, store>>
  BY DEF norcowSet
<1>2. v \in Value
  BY NInvNow, BuildType
<1>3. Asked(flash, call', k, v, store)
  <2>1. PICK d, fill : d = call' /\ fill = TRUE
    OBVIOUS
  <2>2. d = norcow_set_ex(k, v, fill) /\ fill \in BOOLEAN /\ fill
    BY <1>1, <2>1
  <2>3. Ready(flash, write, free, store) /\ active = write
    BY <1>1, RestingReady
  <2>4. fill \/ v = Ones(Len(v))
    BY <2>2
  <2>5. Asked(flash, d, k, v, store)
    BY <1>2, <2>2, <2>3, <2>4, SetOK
  <2> QED BY <2>1, <2>5
<1>4. /\ CallOK(flash, call', store) /\ call'.kind = "set" /\ call'.key = k
  BY <1>3 DEF Asked
<1>5. ASSUME open' # NONE
      PROVE  Filling(open', call', store)
  <2>1. open' = open /\ open.key # k
    BY <1>1, <1>5 DEF MaySet
  <2>2. call = NONE
    BY <1>1 DEF Idle
  <2>3. Filling(open, call, store)
    BY <1>5, <2>1, NInvNow
  <2>4. Filling(open, call', store)
    BY <1>4, <2>1, <2>2, <2>3 DEF Filling
  <2> QED BY <2>1, <2>4
<1> QED BY <1>1, <1>4, <1>5, StartOK

LEMMA AllocStarts ==
  ASSUME NInv, NEW k \in Keys, NEW v \in Inputs, norcowAlloc(k, v)
  PROVE  NInv'
<1>1. /\ Idle /\ call' = norcow_set_ex(k, Ones(Len(v)), FALSE)
      /\ open' = [key |-> k, val |-> v, flashed |-> 0]
      /\ UNCHANGED <<build, flash, active, write, free, on, store>>
  BY DEF norcowAlloc
<1>2. v \in Value
  BY NInvNow, BuildType
<1>3. PICK o : o = Ones(Len(v))
  OBVIOUS
<1>4. o \in Value /\ Len(o) = Len(v) /\ Len(v) \in Nat \ {0}
  BY <1>2, <1>3, ValueType, ConstantType
<1>5. Asked(flash, call', k, o, store)
  <2>1. PICK d, fill : d = call' /\ fill = FALSE
    OBVIOUS
  <2>2. d = norcow_set_ex(k, o, fill) /\ fill \in BOOLEAN
    BY <1>1, <1>3, <2>1
  <2>3. Ready(flash, write, free, store) /\ active = write
    BY <1>1, RestingReady
  <2>4. fill \/ o = Ones(Len(o))
    BY <1>3, <1>4
  <2>5. Asked(flash, d, k, o, store)
    BY <1>4, <2>2, <2>3, <2>4, SetOK
  <2> QED BY <2>1, <2>5
<1>6. CallOK(flash, call', store) /\ call'.kind = "set" /\ call'.key = k /\ call'.val = o
  BY <1>5 DEF Asked
<1>7. Filled(v, 0) = o
  BY <1>2, <1>3, <1>4, SpliceEnds DEF Filled
<1>8. Filling(open', call', store)
  <2>1. open' \in [key : Keys, val : Value, flashed : Nat] /\ open'.flashed < Len(open'.val)
    BY <1>1, <1>2, <1>4
  <2>2. open'.key = k /\ open'.val = v /\ open'.flashed = 0
    BY <1>1
  <2> QED BY <1>6, <1>7, <2>1, <2>2, CallIsCall DEF Filling
<1> QED BY <1>1, <1>6, <1>8, StartOK

LEMMA UpdateStarts ==
  ASSUME NInv, norcowUpdateBytes
  PROVE  NInv'
<1>1. /\ Idle /\ open # NONE /\ find_item(flash[write], open.key) # 0
      /\ call' = norcow_update_bytes(open.key, open.val, open.flashed)
      /\ open' = IF open.flashed + 1 = Len(open.val) THEN NONE
                 ELSE [open EXCEPT !.flashed = @ + 1]
      /\ UNCHANGED <<build, flash, active, write, free, on, store>>
  BY DEF norcowUpdateBytes
<1>2. Filling(open, call, store) /\ call = NONE
  BY <1>1, NInvNow DEF Idle
<1>3. PICK k, v, n : k = open.key /\ v = open.val /\ n = open.flashed
  OBVIOUS
<1>4. k \in Keys /\ v \in Value /\ n \in Nat /\ n < Len(v)
      /\ open = [key |-> k, val |-> v, flashed |-> n]
      /\ store[k] \in {NONE, Filled(v, n)}
  BY <1>2, <1>3 DEF Filling
<1>5. Asked(flash, call', k, Filled(v, n + 1), store)
  <2>1. PICK d : d = call'
    OBVIOUS
  <2>2. d = norcow_update_bytes(k, v, n) /\ find_item(flash[write], k) # 0
    BY <1>1, <1>3, <2>1
  <2>3. Ready(flash, write, free, store) /\ active = write
    BY <1>1, RestingReady
  <2>4. Asked(flash, d, k, Filled(v, n + 1), store)
    BY <1>4, <2>2, <2>3, UpdateBytesOK
  <2> QED BY <2>1, <2>4
<1>6. /\ CallOK(flash, call', store) /\ call'.kind = "set" /\ call'.key = k
      /\ call'.val = Filled(v, n + 1)
  BY <1>5 DEF Asked
<1>7. ASSUME open' # NONE
      PROVE  Filling(open', call', store)
  <2>1. n + 1 # Len(v) /\ open' = [open EXCEPT !.flashed = @ + 1]
    BY <1>1, <1>3, <1>7
  <2>2. open' = [key |-> k, val |-> v, flashed |-> n + 1]
    BY <1>4, <2>1
  <2>3. n + 1 < Len(v) /\ n + 1 \in Nat
    <3>1. Len(v) \in Nat
      BY <1>4, ValueType
    <3> QED BY <1>4, <2>1, <3>1
  <2>4. open' \in [key : Keys, val : Value, flashed : Nat] /\ open'.flashed < Len(open'.val)
    BY <1>4, <2>2, <2>3
  <2>5. open'.key = k /\ open'.val = v /\ open'.flashed = n + 1
    BY <2>2
  <2> QED BY <1>6, <2>4, <2>5, CallIsCall DEF Filling
<1> QED BY <1>1, <1>6, <1>7, StartOK

LEMMA DeleteStarts ==
  ASSUME NInv, NEW k \in Keys, norcowDelete(k)
  PROVE  NInv'
<1>1. /\ Idle /\ open = NONE /\ find_item(flash[write], k) # 0
      /\ call' = norcow_delete(k) /\ open' = NONE
      /\ UNCHANGED <<build, flash, active, write, free, on, store>>
  BY DEF norcowDelete
<1>2. CallOK(flash, call', store) /\ call'.kind = "delete"
  <2>1. Ready(flash, write, free, store) /\ active = write
    BY <1>1, RestingReady
  <2>2. PICK d : d = call'
    OBVIOUS
  <2>3. CallOK(flash, d, store) /\ d.kind = "delete"
    BY <1>1, <2>1, <2>2, DeleteOK
  <2> QED BY <2>2, <2>3
<1> QED BY <1>1, <1>2, StartOK

LEMMA WipeStarts ==
  ASSUME NInv, norcowWipe
  PROVE  NInv'
<1>1. /\ Idle /\ open' = NONE
      /\ call' = Bare("wipe", norcow_wipe(active), "return", FALSE, active, active, 0)
      /\ UNCHANGED <<build, flash, active, write, free, on, store>>
  BY DEF norcowWipe, Bare
<1>2. CallOK(flash, call', store) /\ call'.kind = "wipe"
  <2>1. PICK d, kind, plan, next, moves, fr :
          /\ d = call' /\ kind = "wipe" /\ plan = norcow_wipe(active)
          /\ next = "return" /\ moves = FALSE /\ fr = 0
    OBVIOUS
  <2>2. d = Bare(kind, plan, next, moves, active, active, fr)
    BY <1>1, <2>1
  <2>3. kind \in {"wipe", "init"} /\ moves \in BOOLEAN
    BY <2>1
  <2>4. build \in Builds /\ active \in Sectors
    BY NInvNow
  <2>5. plan = norcow_wipe(active) /\ next = "return" /\ fr = 0
    BY <2>1
  <2>6. CallOK(flash, d, store) /\ d.kind = kind
    BY <2>2, <2>3, <2>4, <2>5, WipeOK
  <2> QED BY <2>1, <2>6
<1> QED BY <1>1, <1>2, StartOK

LEMMA RefusedOK ==
  ASSUME NInv, norcowUpdateRefused
  PROVE  NInv'
<1>1. /\ open' = NONE
      /\ UNCHANGED <<build, flash, active, write, free, call, on, store>>
  BY DEF norcowUpdateRefused
<1> QED BY <1>1, NInvNow, NInvNext

LEMMA FlashStepOK ==
  ASSUME NInv, FlashStep
  PROVE  NInv'
<1>1. /\ call # NONE /\ call.plan # <<>>
      /\ flash' = ApplyOp(flash, Head(call.plan))
      /\ call' = Resume(flash', Advance(call))
      /\ UNCHANGED <<build, active, write, free, open, on, store>>
  BY DEF FlashStep, Advance
<1>2. build \in Builds /\ FlashOK(flash) /\ CallOK(flash, call, store)
  BY <1>1, NInvNow
<1>3. FlashOK(flash') /\ Ran(flash', call, call', store)
  <2>1. PICK g, d : g = flash' /\ d = call'
    OBVIOUS
  <2>2. g = ApplyOp(flash, Head(call.plan)) /\ d = Resume(g, Advance(call))
    BY <1>1, <2>1
  <2>3. FlashOK(g) /\ Ran(g, call, d, store)
    BY <1>1, <1>2, <2>2, StepOK
  <2> QED BY <2>1, <2>3
<1>4. /\ CallOK(flash', call', store) /\ call'.kind = call.kind
      /\ call'.key = call.key /\ call'.val = call.val
  BY <1>3 DEF Ran, Same
<1>5. call' # NONE
  BY <1>4, CallIsCall
<1>6. open' # NONE => Filling(open', call', store)
  BY <1>1, <1>4, <1>5, NInvNow DEF Filling
<1> QED BY <1>1, <1>3, <1>4, <1>5, <1>6, NInvNow, NInvNext

LEMMA PowerLossOK ==
  ASSUME NInv, PowerLoss
  PROVE  NInv'
<1>1. /\ on' = FALSE /\ call' = norcow_init(flash) /\ open' = NONE
      /\ active' = 0 /\ write' = 0 /\ free' = 0
      /\ UNCHANGED <<build, flash, store>>
  BY DEF PowerLoss
<1>2. CallOK(flash, call', store) /\ call'.kind = "init"
  <2>1. PICK d : d = call'
    OBVIOUS
  <2>2. CallOK(flash, d, store) /\ d.kind = "init"
    BY <1>1, <2>1, NInvNow, InitCallOK
  <2> QED BY <2>1, <2>2
<1>3. call' # NONE
  BY <1>2, CallIsCall
<1>4. active' \in Sectors /\ write' \in Sectors /\ free' \in 0..SECTOR_SIZE
  BY <1>1, NInvNow, BuildType DEF Sectors
<1> QED BY <1>1, <1>2, <1>3, <1>4, NInvNow, NInvNext


(* A call that has no flash operation left is done.                        *)
LEMMA DoneCall ==
  ASSUME build \in Builds, NEW f, FlashOK(f), NEW st,
         NEW c, CallOK(f, c, st), c.plan = <<>>
  PROVE  /\ c \in Calls /\ Asks(c) /\ c.act = c.wr /\ c.wr \in Sectors
         /\ Settled(f, c.wr) /\ c.fr = find_free_offset(f[c.wr])
         /\ c.kind \in {"set", "delete"} =>
              OwnItem(f, c) /\ Keeps(f[c.wr].items, c, st)
<1>1. c \in Calls /\ Asks(c) /\ c.wr \in Sectors
  BY CallType DEF CallOK
<1>2. ~Moving(f, c, st)
  <2>1. PICK q : q = erase_sector(c.wr, TRUE)
    OBVIOUS
  <2>2. q # <<>>
    BY <1>1, <2>1, PreparePlan DEF compact_prepare
  <2>3. \A x, y : <<x, y>> # <<>> /\ <<x>> # <<>>
    OBVIOUS
  <2>4. ~Preparing(f, c.plan, c.wr)
    BY <2>1, <2>2, <2>3, Zenon DEF Preparing
  <2> QED BY <2>4 DEF Moving
<1>3. ~Copying(f, c, st)
  BY DEF Copying, Writing
<1>4. ~Moved(f, c, st)
  BY DEF Moved
<1>5. ~Wiping(f, c)
  <2>1. PICK q : q = norcow_wipe(c.wr)
    OBVIOUS
  <2>2. q # <<>>
    BY <1>1, <2>1, WipePlanType
  <2> QED BY <2>1, <2>2 DEF Wiping
<1>6. Local(f, c, st)
  BY <1>2, <1>3, <1>4, <1>5 DEF CallOK
<1>7. c.fr = find_free_offset(f[c.wr])
  <2>1. c.fr = End(f, c.plan, c.wr)
    BY <1>6 DEF Local
  <2>2. find_free_offset(f[c.wr]) \in Nat
    BY <1>1, SectorIs, FreeOffsetType
  <2> QED BY <2>1, <2>2 DEF End
<1> QED BY <1>1, <1>6, <1>7 DEF Local

LEMMA ReturnOK ==
  ASSUME NInv, Return
  PROVE  NInv'
<1>1. /\ call # NONE /\ call.plan = <<>>
      /\ active' = call.act /\ write' = call.wr /\ free' = call.fr
      /\ call' = NONE /\ on' = TRUE /\ store' = Content(flash, call.act)
      /\ UNCHANGED <<build, flash, open>>
  BY DEF Return
<1>2. build \in Builds /\ FlashOK(flash) /\ CallOK(flash, call, store)
  BY <1>1, NInvNow
<1>3. /\ call \in Calls /\ Asks(call) /\ call.act = call.wr /\ call.wr \in Sectors
      /\ Settled(flash, call.wr) /\ call.fr = find_free_offset(flash[call.wr])
      /\ call.kind \in {"set", "delete"} =>
           OwnItem(flash, call) /\ Keeps(flash[call.wr].items, call, store)
  BY <1>1, <1>2, DoneCall
<1>4. free' \in 0..SECTOR_SIZE
  <2>1. SectorOK(flash[call.wr])
    BY <1>2, <1>3, SectorIs
  <2>2. find_free_offset(flash[call.wr]) <= SECTOR_SIZE
    BY <2>1 DEF SectorOK
  <2>3. find_free_offset(flash[call.wr]) \in Nat
    BY <1>2, <1>3, SectorIs, FreeOffsetType
  <2> QED BY <1>1, <1>2, <1>3, <2>2, <2>3, BuildType
<1>5. store' = [k \in Keys |-> store'[k]]
  BY <1>1 DEF Content
<1>6. Resting(flash', active', write', free', store')
  BY <1>1, <1>3 DEF Resting
<1>7. ASSUME open' # NONE
      PROVE  Filling(open', call', store')
  <2>1. open' = open /\ Filling(open, call, store)
    BY <1>1, <1>7, NInvNow
  <2>2. PICK k, w, s : /\ k = open.key /\ w = Filled(open.val, open.flashed)
                       /\ s = call.wr
    OBVIOUS
  <2>3. /\ k \in Keys /\ open.val \in Value /\ open.flashed \in Nat
        /\ call.kind = "set"
        /\ IF call.key = k THEN call.val = w ELSE store[k] \in {NONE, w}
    BY <1>1, <2>1, <2>2 DEF Filling
  <2>4. w \in Value
    <3>1. Len(open.val) \in Lens
      BY <2>3, ValueType
    <3>2. PICK o : o = Ones(Len(open.val))
      OBVIOUS
    <3>3. o \in Value /\ Len(o) = Len(open.val)
      BY <3>1, <3>2, ConstantType
    <3>4. open.flashed \in Int
      BY <2>3
    <3> QED BY <2>2, <2>3, <3>2, <3>3, <3>4, SpliceType DEF Filled
  <2>5. store'[k] = norcow_get(flash, s, k) /\ s \in Sectors /\ flash[s].ver # NO_MAGIC
    BY <1>1, <1>3, <2>2, <2>3, SettledMagic DEF Content
  <2>6. PICK x \in {NONE, w} : Holds(flash[s].items, k, x)
    <3>1. CASE call.key = k
      <4>1. OwnItem(flash, call)
        BY <1>3, <2>3
      <4> QED BY <1>1, <2>2, <2>3, <3>1, <4>1 DEF OwnItem
    <3>2. CASE call.key # k
      <4>1. Keeps(flash[s].items, call, store)
        BY <1>3, <2>2, <2>3
      <4> QED BY <2>3, <3>2, <4>1 DEF Keeps
    <3> QED BY <3>1, <3>2
  <2>7. x \in Value \cup {NONE}
    BY <2>4, <2>6
  <2>8. store'[k] = x
    BY <1>2, <2>3, <2>5, <2>6, <2>7, GetHolds
  <2> QED BY <1>1, <2>1, <2>2, <2>6, <2>8 DEF Filling
<1> QED BY <1>1, <1>2, <1>3, <1>4, <1>5, <1>6, <1>7, NInvNext

LEMMA NInvInit == Init => NInv
<1> SUFFICES ASSUME Init PROVE NInv
  OBVIOUS
<1>1. /\ build \in Builds
      /\ active = 0 /\ write = 0 /\ free = 0 /\ open = NONE /\ on = FALSE
      /\ call = norcow_init(flash) /\ store = Booted(flash)
  BY DEF Init
<1>2. PICK a \in Sectors, sec \in FoundSectors :
        flash = [s \in Sectors |-> IF s = a THEN sec ELSE Erased]
  BY DEF Init
<1>3. FlashOK(flash)
  BY <1>1, <1>2, InitFlash
<1>4. CallOK(flash, call, store) /\ call.kind = "init"
  BY <1>1, <1>3, InitCallOK
<1>5. call # NONE
  BY <1>4, CallIsCall
<1>6. store = [k \in Keys |-> store[k]]
  BY <1>1 DEF Booted, Content
<1>7. active \in Sectors /\ write \in Sectors /\ free \in 0..SECTOR_SIZE
  BY <1>1, BuildType DEF Sectors
<1> QED BY <1>1, <1>3, <1>4, <1>5, <1>6, <1>7 DEF NInv, Idle

LEMMA NInvStep == NInv /\ [Next]_vars => NInv'
<1> SUFFICES ASSUME NInv, [Next]_vars PROVE NInv'
  OBVIOUS
<1>1. ASSUME NEW k \in Keys, NEW v \in Inputs, norcowSet(k, v) PROVE NInv'
  BY <1>1, SetStarts
<1>2. ASSUME NEW k \in Keys, NEW v \in Inputs, norcowAlloc(k, v) PROVE NInv'
  BY <1>2, AllocStarts
<1>3. CASE norcowUpdateBytes
  BY <1>3, UpdateStarts
<1>4. CASE norcowUpdateRefused
  BY <1>4, RefusedOK
<1>5. ASSUME NEW k \in Keys, norcowDelete(k) PROVE NInv'
  BY <1>5, DeleteStarts
<1>6. CASE norcowWipe
  BY <1>6, WipeStarts
<1>7. CASE FlashStep
  BY <1>7, FlashStepOK
<1>8. CASE Return
  BY <1>8, ReturnOK
<1>9. CASE PowerLoss
  BY <1>9, PowerLossOK
<1>10. CASE UNCHANGED vars
  BY <1>10, NInvNow, NInvNext DEF vars
<1> QED BY <1>1, <1>2, <1>3, <1>4, <1>5, <1>6, <1>7, <1>8, <1>9, <1>10 DEF Next

LEMMA NInvAlways == Spec => []NInv
BY NInvInit, NInvStep, PTL DEF Spec


-----------------------------------------------------------------------------
(* The theorems.                                                           *)

(* TypeOK: the flash, the statics of norcow.c and the call in progress keep *)
(* their shape, and the free offset stays inside the sector, through every  *)
(* sequence of norcow calls and power losses.                               *)
THEOREM TypeCorrect == Spec => []TypeOK
<1>1. NInv => TypeOK
  <2> SUFFICES ASSUME NInv PROVE TypeOK
    OBVIOUS
  <2>1. FlashOK(flash)
    BY NInvNow
  <2>2. \A s \in Sectors :
          /\ flash[s].ver \in Versions
          /\ \A i \in DOMAIN flash[s].items : flash[s].items[i] \in Items
    BY <2>1, SectorIs
  <2>3. call # NONE => call \in Calls /\ (call.kind = "init" <=> ~on)
    BY NInvNow, CallIsCall
  <2> QED BY <2>2, <2>3, NInvNow DEF TypeOK
<1> QED BY <1>1, NInvAlways, PTL

(* UniqueLive: no sector ever holds two live items of one key, wherever     *)
(* norcow_set_ex, norcow_delete or compact was cut short.                   *)
THEOREM NeverTwoLive == Spec => []UniqueLive
<1>1. NInv => UniqueLive
  <2> SUFFICES ASSUME NInv PROVE UniqueLive
    OBVIOUS
  <2>1. \A s \in Sectors : SectorOK(flash[s])
    BY NInvNow DEF FlashOK
  <2> QED BY <2>1 DEF SectorOK, UniqueLive
<1> QED BY <1>1, NInvAlways, PTL

(* StaticsMatchFlash: between calls norcow_active_sector and                *)
(* norcow_write_sector are one sector, the one norcow_init would pick, and  *)
(* norcow_free_offset is behind its last item.                              *)
THEOREM StaticsAgree == Spec => []StaticsMatchFlash
<1>1. NInv => StaticsMatchFlash
  BY NInvNow DEF Resting, Settled, Idle, StaticsMatchFlash
<1> QED BY <1>1, NInvAlways, PTL

(* EnsureHolds: no flash operation that norcow.c issues fails its ensure(): *)
(* programming only clears bits, an item is appended where there is room    *)
(* for it, and a header is written into an erased sector.                   *)
THEOREM EnsuresHold == Spec => []EnsureHolds
<1>1. NInv => EnsureHolds
  <2> SUFFICES ASSUME NInv, call # NONE, call.plan # <<>>
               PROVE  Ensured(flash, Head(call.plan))
    BY DEF EnsureHolds, Ensured
  <2>1. build \in Builds /\ FlashOK(flash) /\ CallOK(flash, call, store)
    BY NInvNow
  <2>2. PICK g : g = ApplyOp(flash, Head(call.plan))
    OBVIOUS
  <2>3. PICK d : d = Resume(g, Advance(call))
    OBVIOUS
  <2> QED BY <2>1, <2>2, <2>3, StepOK
<1> QED BY <1>1, NInvAlways, PTL

-----------------------------------------------------------------------------
(* What a power loss leaves, and what the next boot makes of it.           *)

(* What the calls promise to return to after a power loss cut p short: the *)
(* contract's Recovered, as a relation.                                    *)
Allowed(p, st, lf, new) ==
  IF p = NONE THEN new = st
  ELSE IF p.kind = "wipe"
       THEN new = st \/ \A k \in Keys : new[k] \in KV!Copied(lf[k])
  ELSE \A k \in Keys :
         new[k] \in (IF k = p.key THEN KV!Residue(st[k], KV!Target(p))
                     ELSE {st[k]})
                    \cup (IF p.moves THEN KV!Copied(st[k]) ELSE {})

(* What the sector that is not in use may hold then.                       *)
Leftover(p, st, lf, x) ==
  \A k \in Keys : x[k] \in {lf[k], NONE}
                    \cup (IF p = NONE THEN {} ELSE KV!Copied(st[k]))

(* Of the values x, y has some, some partly copied, and no others.         *)
Pieces(y, x) == \A k \in Keys : y[k] \in KV!Copied(x[k])

(* The values x are still to be copied, which may be cut short again.      *)
Upgradable(p, st, lf, x) ==
  /\ Leftover(p, st, lf, x)
  /\ \A y \in KV!Content : Pieces(y, x) => Allowed(p, st, lf, y)

(* A boot that finds the flash f ends in what the contract allows.         *)
Bootable(f, p, st, lf) ==
  LET a == ActiveSector(f)
  IN /\ Allowed(p, st, lf, Booted(f)) /\ Leftover(p, st, lf, Content(f, 1 - a))
     /\ f[a].ver > NORCOW_VERSION => f[1 - a].ver = NO_MAGIC
     /\ f[a].ver < NORCOW_VERSION /\ f[a].ver # NO_MAGIC =>
          Upgradable(p, st, lf, Content(f, a))

(* A sector of which only the magic is written is empty.                   *)
ZeroEmpty(f) == \A s \in Sectors : f[s].ver = 0 => f[s].items = <<>>

(* A copy of an item, or a part of one.                                    *)
PartItem(it, from) ==
  \E p \in DOMAIN from :
    from[p].key = it.key /\ it.val \in KV!Written(from[p].val)
ItemOp(o) == o.op \in {"append", "put"}
Parts(to, from) ==
  \A j \in DOMAIN to : to[j].key # NORCOW_KEY_DELETED => PartItem(to[j], from)
PlanParts(q, from) ==
  \A n \in DOMAIN q : ItemOp(q[n]) => PartItem(q[n].item, from)

(* The key's own item, now and as the operations will program it.          *)
OwnVals(items, q, k, R) ==
  /\ \A j \in DOMAIN items : items[j].key = k => items[j].val \in R
  /\ \A n \in DOMAIN q : ItemOp(q[n]) /\ q[n].item.key = k => q[n].item.val \in R

(* The call moves the items to the other sector, up to the erasing of the  *)
(* old one.                                                                *)
Moves(c) == c.next = "copy" \/ (c.plan # <<>> /\ Head(c.plan).op = "erase")

Nothing == [k \in Keys |-> NONE]

(* What the key of the call c reads as when c is cut short.                *)
OwnRange(c, st) == KV!Residue(st[c.key], KV!Target(c))

(* A set or delete can be cut short here: its own key reads as Residue     *)
(* says; while items are moved, the sector they come from is whole, the    *)
(* other one holds nothing new, and where a boot would prefer it the call  *)
(* has announced that it moves.                                            *)
SetSafe(f, c, st, lf) ==
  /\ c.next # "copy" => OwnVals(f[c.wr].items, c.plan, c.key, OwnRange(c, st))
  /\ ~Moves(c) => Content(f, 1 - c.wr) \in {lf, Nothing}
  /\ c.next = "compact" /\ c.act = 0 => c.moves
  /\ Moves(c) =>
       /\ 1 - c.wr = 0 => c.moves
       /\ f[1 - c.wr].ver = NORCOW_VERSION
       /\ Fresh(f[1 - c.wr].items, c.key) /\ Keeps(f[1 - c.wr].items, c, st)
       /\ \/ ActiveSector(f) = 1 - c.wr /\ Content(f, c.wr) \in {lf, Nothing}
          \/ /\ f[c.wr].ver <= NORCOW_VERSION
             /\ Parts(f[c.wr].items, f[1 - c.wr].items)
       /\ PlanParts(c.plan, f[1 - c.wr].items)

(* A wipe: the sector in use is whole or empty, the other one untouched    *)
(* until it is erased, last.                                               *)
WipeSafe(f, c, st, lf) ==
  /\ c.plan # <<>> =>
       /\ Content(f, 1 - c.wr) = lf /\ f[1 - c.wr].ver <= NORCOW_VERSION
       /\ \/ f[c.wr].items = <<>> /\ f[c.wr].ver <= NORCOW_VERSION
          \/ Settled(f, c.wr) /\ Content(f, c.wr) = st
  /\ c.plan = <<>> =>
       Content(f, c.wr) = Nothing /\ Content(f, 1 - c.wr) = Nothing

(* A boot: what it has still to do, once more from the beginning, ends in  *)
(* what the call p that was cut short allows.                              *)
BootSafe(f, c, p, st, lf) ==
  /\ c.plan = <<>> => Bootable(f, p, st, lf)
  /\ ~c.moves => c.next = "return"
  /\ c.plan # <<>> /\ ~c.moves =>
       /\ f[1 - c.wr].ver = NO_MAGIC /\ Booted(f) = Nothing
       /\ Allowed(p, st, lf, Nothing)
  /\ c.plan # <<>> /\ c.moves =>
       /\ c.next = "copy" \/ Len(c.plan) = 1
       /\ f[1 - c.wr].ver \in 0..(NORCOW_VERSION - 1)
       /\ Upgradable(p, st, lf, Content(f, 1 - c.wr))
       /\ \/ ActiveSector(f) = 1 - c.wr /\ Leftover(p, st, lf, Content(f, c.wr))
          \/ f[c.wr].items = <<>> /\ f[c.wr].ver <= NORCOW_VERSION
          \/ /\ f[c.wr].ver = NORCOW_VERSION
             /\ Parts(f[c.wr].items, f[1 - c.wr].items)
       /\ PlanParts(c.plan, f[1 - c.wr].items)

(* Power may be lost between any two flash operations of the call c.       *)
CrashOK(f, c, p, st, lf) ==
  /\ c.kind \in {"set", "delete"} => SetSafe(f, c, st, lf)
  /\ c.kind = "wipe" => WipeSafe(f, c, st, lf)
  /\ c.kind = "init" => BootSafe(f, c, p, st, lf)

(* What the contract takes for the call in progress, or cut short.         *)
Pend == IF on THEN Summary(call) ELSE cut

(* The inductive invariant of the refinement.                              *)
RInv ==
  /\ NInv /\ ZeroEmpty(flash)
  /\ store \in KV!Content /\ left \in KV!Content
  /\ cut \in KV!Call \cup {NONE}
  /\ call # NONE => /\ CrashOK(flash, call, Pend, store, left)
                    /\ call.kind = "delete" => call.val = NONE
  /\ Idle => left = Content(flash, 1 - active)

-----------------------------------------------------------------------------
(* What the contract calls copied, written, cleared and residue.           *)

LEMMA CopiedHas ==
  \A v : /\ NONE \in KV!Copied(v) /\ v \in KV!Copied(v)
         /\ \A w \in KV!Written(v) : w \in KV!Copied(v)
         /\ \A w \in KV!Copied(NONE) : w = NONE
BY DEF KV!Copied, KV!Written

LEMMA WrittenHas ==
  ASSUME NEW v \in Value, NEW m \in 0..Len(v)
  PROVE  Splice(v, Ones(Len(v)), m) \in KV!Written(v)
<1>1. v # NONE
  BY NoneAssumption
<1>2. Splice(v, Ones(Len(v)), m) = KV!Splice(v, KV!Ones(Len(v)), m)
  BY DEF Splice, Ones, KV!Splice, KV!Ones
<1> QED BY <1>1, <1>2 DEF KV!Written

LEMMA WrittenWhole ==
  ASSUME NEW v \in Value
  PROVE  v \in KV!Written(v)
<1>1. PICK m, o : m = Len(v) /\ o = Ones(Len(v))
  OBVIOUS
<1>2. Len(v) \in Lens /\ Len(v) \in Nat
  BY ValueType
<1>3. o \in Value /\ Len(o) = Len(v)
  BY <1>1, <1>2, ConstantType
<1>4. Splice(v, o, m) = v
  BY <1>1, <1>3, SpliceEnds
<1>5. m \in 0..Len(v)
  BY <1>1, <1>2
<1>6. Splice(v, Ones(Len(v)), m) \in KV!Written(v)
  BY <1>5, WrittenHas
<1> QED BY <1>1, <1>4, <1>6

LEMMA ClearedHas ==
  ASSUME NEW v \in Value, NEW m \in 0..Len(v)
  PROVE  Splice(Zeros(Len(v)), v, m) \in KV!Cleared(v)
<1>1. v # NONE
  BY NoneAssumption
<1>2. Splice(Zeros(Len(v)), v, m) = KV!Splice(KV!Zeros(Len(v)), v, m)
  BY DEF Splice, Zeros, KV!Splice, KV!Zeros
<1> QED BY <1>1, <1>2 DEF KV!Cleared

LEMMA ResidueHas ==
  \A old, new : /\ NONE \in KV!Residue(old, new) /\ old \in KV!Residue(old, new)
                /\ \A w \in KV!Written(new) : w \in KV!Residue(old, new)
                /\ \A w \in KV!Cleared(old) : w \in KV!Residue(old, new)
BY DEF KV!Residue

LEMMA ResidueSplice ==
  ASSUME NEW old \in Value, NEW new \in Value, Len(old) = Len(new),
         NEW m \in 0..Len(old)
  PROVE  Splice(new, old, m) \in KV!Residue(old, new)
<1>1. old # NONE /\ new # NONE
  BY NoneAssumption
<1>2. Splice(new, old, m) = KV!Splice(new, old, m)
  BY DEF Splice, KV!Splice
<1> QED BY <1>1, <1>2 DEF KV!Residue

-----------------------------------------------------------------------------
(* What a sector holds.                                                    *)

LEMMA ContentIs ==
  ASSUME NEW f, FlashOK(f), NEW s \in Sectors
  PROVE  /\ Content(f, s) \in KV!Content
         /\ \A k \in Keys : Content(f, s)[k] = norcow_get(f, s, k)
         /\ f[s].ver = NO_MAGIC \/ f[s].items = <<>> => Content(f, s) = Nothing
<1>1. \A k \in Keys : Content(f, s)[k] = norcow_get(f, s, k)
  BY DEF Content
<1>2. ASSUME NEW k \in Keys, f[s].ver = NO_MAGIC
      PROVE  norcow_get(f, s, k) = NONE
  BY <1>2 DEF norcow_get, find_item
<1>3. ASSUME NEW k \in Keys, f[s].ver # NO_MAGIC
      PROVE  norcow_get(f, s, k) \in Value \cup {NONE}
  BY <1>3, GetHolds
<1>4. \A k \in Keys : norcow_get(f, s, k) \in Value \cup {NONE}
  BY <1>2, <1>3
<1>5. Content(f, s) \in KV!Content
  <2>1. KV!Content = [Keys -> Value \cup {NONE}]
    BY DEF KV!Content, KV!Value, Value
  <2> QED BY <1>4, <2>1 DEF Content
<1>6. ASSUME NEW k \in Keys, f[s].items = <<>>, f[s].ver # NO_MAGIC
      PROVE  norcow_get(f, s, k) = NONE
  <2>1. Holds(f[s].items, k, NONE)
    BY <1>6 DEF Holds, Fresh
  <2> QED BY <1>6, <2>1, GetHolds
<1>7. f[s].ver = NO_MAGIC \/ f[s].items = <<>> => Content(f, s) = Nothing
  BY <1>2, <1>6 DEF Content, Nothing
<1> QED BY <1>1, <1>5, <1>7

LEMMA ContentSame ==
  ASSUME NEW f, NEW g, NEW s, g[s] = f[s]
  PROVE  Content(g, s) = Content(f, s)
BY DEF Content, norcow_get

LEMMA NothingIs ==
  /\ Nothing \in KV!Content /\ Nothing = KV!Empty
  /\ \A k \in Keys : Nothing[k] = NONE
BY DEF Nothing, KV!Content, KV!Empty

LEMMA KeptContent ==
  ASSUME NEW f, FlashOK(f), NEW s \in Sectors, f[s].ver # NO_MAGIC,
         NEW st \in KV!Content, NEW c, Keeps(f[s].items, c, st)
  PROVE  \A k \in Keys : k # c.key => Content(f, s)[k] = st[k]
<1> SUFFICES ASSUME NEW k \in Keys, k # c.key
             PROVE  Content(f, s)[k] = st[k]
  OBVIOUS
<1>1. Holds(f[s].items, k, st[k])
  BY DEF Keeps
<1>2. st[k] \in Value \cup {NONE}
  BY DEF KV!Content, KV!Value, Value
<1> QED BY <1>1, <1>2, GetHolds, ContentIs

LEMMA FreshContent ==
  ASSUME NEW f, FlashOK(f), NEW s \in Sectors, f[s].ver # NO_MAGIC,
         NEW k \in Keys, Fresh(f[s].items, k)
  PROVE  Content(f, s)[k] = NONE
<1>1. Holds(f[s].items, k, NONE)
  BY DEF Holds
<1> QED BY <1>1, GetHolds, ContentIs

(* What is not NONE is the value of an item.                               *)
LEMMA ContentItem ==
  ASSUME NEW f, FlashOK(f), NEW s \in Sectors, NEW k \in Keys,
         Content(f, s)[k] # NONE
  PROVE  \E j \in DOMAIN f[s].items :
           f[s].items[j].key = k /\ f[s].items[j].val = Content(f, s)[k]
<1>1. f[s].ver # NO_MAGIC
  BY ContentIs, NothingIs
<1>2. PICK v : v = Content(f, s)[k]
  OBVIOUS
<1>3. Holds(f[s].items, k, v) /\ v # NONE
  BY <1>1, <1>2, GetHolds, ContentIs
<1>4. PICK j \in DOMAIN f[s].items : f[s].items[j] = [key |-> k, val |-> v]
  BY <1>3 DEF Holds
<1>5. f[s].items[j].key = k /\ f[s].items[j].val = v
  BY <1>4
<1> QED BY <1>2, <1>4, <1>5

(* An item is what norcow_get returns for its key.                         *)
LEMMA ItemContent ==
  ASSUME NEW f, FlashOK(f), NEW s \in Sectors, f[s].ver # NO_MAGIC,
         NEW j \in DOMAIN f[s].items, f[s].items[j].key \in Keys
  PROVE  f[s].items[j].val = Content(f, s)[f[s].items[j].key]
<1>1. PICK it, k, v : it = f[s].items[j] /\ k = it.key /\ v = it.val
  OBVIOUS
<1>2. it \in Items /\ HasValue(it) /\ k \in Keys
  BY <1>1, SectorIs DEF SectorOK
<1>3. v \in Value /\ v # NONE /\ it = [key |-> k, val |-> v]
  BY <1>1, <1>2, ItemType, KeyTypes DEF HasValue
<1>4. Holds(f[s].items, k, v)
  BY <1>1, <1>3 DEF Holds
<1>5. Content(f, s)[k] = v
  BY <1>2, <1>3, <1>4, GetHolds, ContentIs
<1> QED BY <1>1, <1>5

LEMMA PartsContent ==
  ASSUME NEW f, FlashOK(f), NEW s \in Sectors, NEW a \in Sectors,
         f[a].ver # NO_MAGIC, Parts(f[s].items, f[a].items)
  PROVE  Pieces(Content(f, s), Content(f, a))
<1> SUFFICES ASSUME NEW k \in Keys, Content(f, s)[k] # NONE
             PROVE  Content(f, s)[k] \in KV!Copied(Content(f, a)[k])
  BY CopiedHas DEF Pieces
<1>1. PICK j \in DOMAIN f[s].items :
        f[s].items[j].key = k /\ f[s].items[j].val = Content(f, s)[k]
  BY ContentItem
<1>2. k # NORCOW_KEY_DELETED
  BY KeyTypes
<1>3. PICK p \in DOMAIN f[a].items :
        /\ f[a].items[p].key = k
        /\ f[s].items[j].val \in KV!Written(f[a].items[p].val)
  BY <1>1, <1>2 DEF Parts, PartItem
<1>4. f[a].items[p].val = Content(f, a)[k]
  BY <1>3, ItemContent
<1> QED BY <1>1, <1>3, <1>4, CopiedHas

LEMMA OwnContent ==
  ASSUME NEW f, FlashOK(f), NEW s \in Sectors, NEW k \in Keys, NEW q, NEW R,
         OwnVals(f[s].items, q, k, R), NONE \in R
  PROVE  Content(f, s)[k] \in R
<1> SUFFICES ASSUME Content(f, s)[k] # NONE
             PROVE  Content(f, s)[k] \in R
  OBVIOUS
<1>1. PICK j \in DOMAIN f[s].items :
        f[s].items[j].key = k /\ f[s].items[j].val = Content(f, s)[k]
  BY ContentItem
<1> QED BY <1>1 DEF OwnVals
-----------------------------------------------------------------------------
(* Which sector a boot picks, and what it finds.                           *)

LEMMA VersionType ==
  ASSUME NEW f, FlashOK(f), NEW s \in Sectors
  PROVE  /\ f[s].ver \in Int /\ f[s].ver >= NO_MAGIC /\ NO_MAGIC = -1
         /\ NORCOW_VERSION \in Nat \ {0}
         /\ f[s].ver # NO_MAGIC => f[s].ver \in Nat
<1>1. f[s].ver \in Versions
  BY SectorIs
<1>2. NORCOW_VERSION \in Nat \ {0} /\ FoundVersions \subseteq Nat \ {0}
  BY NorcowAssumption
<1>3. PICK v : v = f[s].ver
  OBVIOUS
<1>4. v = -1 \/ v \in Nat
  <2>1. v \in {NO_MAGIC, 0, NORCOW_VERSION} \/ v \in FoundVersions
    BY <1>1, <1>3, Zenon DEF Versions
  <2>2. v \in FoundVersions => v \in Nat
    BY <1>2, Zenon
  <2>3. NORCOW_VERSION \in Nat
    BY <1>2
  <2> QED BY <2>1, <2>2, <2>3 DEF NO_MAGIC
<1>5. NO_MAGIC = -1
  BY DEF NO_MAGIC
<1> QED BY <1>2, <1>3, <1>4, <1>5

LEMMA ActiveIs ==
  ASSUME NEW f, FlashOK(f), NEW a, a = ActiveSector(f)
  PROVE  /\ a \in Sectors /\ Other(a) \in Sectors /\ 1 - a = Other(a)
         /\ f[Other(a)].ver <= f[a].ver
         /\ f[Other(a)].ver = f[a].ver => a = 1 \/ f[a].ver = NO_MAGIC
<1>1. /\ f[0].ver \in Int /\ f[0].ver >= NO_MAGIC /\ NO_MAGIC = -1
      /\ f[1].ver \in Int /\ f[1].ver >= NO_MAGIC
  BY VersionType DEF Sectors
<1>2. CASE f[1].ver # NO_MAGIC /\ f[1].ver >= f[0].ver
  <2>1. a = 1
    BY <1>2 DEF ActiveSector
  <2> QED BY <1>1, <1>2, <2>1 DEF Other, Sectors
<1>3. CASE ~(f[1].ver # NO_MAGIC /\ f[1].ver >= f[0].ver)
  <2>1. a = 0
    BY <1>3 DEF ActiveSector
  <2> QED BY <1>1, <1>3, <2>1 DEF Other, Sectors
<1> QED BY <1>2, <1>3

LEMMA ActiveNewer ==
  ASSUME NEW f, FlashOK(f), NEW s \in Sectors, f[Other(s)].ver < f[s].ver
  PROVE  ActiveSector(f) = s
<1>1. PICK a : a = ActiveSector(f)
  OBVIOUS
<1>2. a \in Sectors /\ f[Other(a)].ver <= f[a].ver
  BY <1>1, ActiveIs
<1>3. f[s].ver \in Int /\ f[Other(s)].ver \in Int
  BY VersionType, Opposite
<1>4. CASE a = s
  BY <1>1, <1>4
<1>5. CASE a = Other(s)
  <2>1. Other(a) = s
    BY <1>5, Opposite
  <2> QED BY <1>2, <1>3, <1>5, <2>1
<1> QED BY <1>2, <1>4, <1>5, Opposite

LEMMA BootedIs ==
  ASSUME NEW f, FlashOK(f), NEW a, a = ActiveSector(f)
  PROVE  /\ f[a].ver <= NORCOW_VERSION => Booted(f) = Content(f, a)
         /\ f[a].ver > NORCOW_VERSION => Booted(f) = Nothing
         /\ f[a].ver = NO_MAGIC => Booted(f) = Nothing /\ f[Other(a)].ver = NO_MAGIC
         /\ Booted(f) \in KV!Content
<1>1. a \in Sectors /\ f[Other(a)].ver <= f[a].ver /\ Other(a) \in Sectors
  BY ActiveIs
<1>2. f[a].ver \in Int /\ NORCOW_VERSION \in Nat \ {0} /\ NO_MAGIC = -1
      /\ f[Other(a)].ver \in Int /\ f[Other(a)].ver >= NO_MAGIC
  BY <1>1, VersionType
<1>3. Booted(f) = IF f[a].ver > NORCOW_VERSION THEN Nothing ELSE Content(f, a)
  BY DEF Booted, Nothing
<1>4. f[a].ver <= NORCOW_VERSION => Booted(f) = Content(f, a)
  BY <1>2, <1>3
<1>5. f[a].ver > NORCOW_VERSION => Booted(f) = Nothing
  BY <1>3
<1>6. f[a].ver = NO_MAGIC => Booted(f) = Nothing /\ f[Other(a)].ver = NO_MAGIC
  <2>1. f[a].ver = NO_MAGIC => f[a].ver <= NORCOW_VERSION
    BY <1>2
  <2>2. f[a].ver = NO_MAGIC => Content(f, a) = Nothing
    BY <1>1, ContentIs
  <2>3. f[a].ver = NO_MAGIC => f[Other(a)].ver = NO_MAGIC
    BY <1>1, <1>2
  <2> QED BY <1>4, <2>1, <2>2, <2>3
<1>7. Booted(f) \in KV!Content
  BY <1>1, <1>3, ContentIs, NothingIs
<1> QED BY <1>4, <1>5, <1>6, <1>7

(* The sector that a boot picks is in order: it takes it as it is.         *)
LEMMA SettledBoot ==
  ASSUME NEW f, FlashOK(f), NEW s \in Sectors, Settled(f, s), NEW p, NEW st, NEW lf,
         Allowed(p, st, lf, Content(f, s)),
         Leftover(p, st, lf, Content(f, Other(s)))
  PROVE  Bootable(f, p, st, lf)
<1>1. PICK a : a = ActiveSector(f)
  OBVIOUS
<1>2. a = s /\ f[a].ver = NORCOW_VERSION
  BY <1>1 DEF Settled
<1>3. NORCOW_VERSION \in Nat
  BY VersionType
<1>4. Booted(f) = Content(f, s) /\ 1 - a = Other(s)
  <2>1. f[a].ver <= NORCOW_VERSION
    BY <1>2, <1>3
  <2>2. Booted(f) = Content(f, a) /\ 1 - a = Other(a)
    BY <1>1, <2>1, BootedIs, ActiveIs
  <2> QED BY <1>2, <2>2
<1>5. ~(f[a].ver > NORCOW_VERSION) /\ ~(f[a].ver < NORCOW_VERSION)
  BY <1>2, <1>3
<1> QED BY <1>1, <1>4, <1>5 DEF Bootable

(* Nothing is left, whatever was cut short.                                *)
LEMMA NothingLeft ==
  ASSUME NEW p, NEW st, NEW lf
  PROVE  /\ Leftover(p, st, lf, Nothing)
         /\ Leftover(p, st, lf, lf)
         /\ \A x : Pieces(Nothing, x)
BY NothingIs, CopiedHas DEF Leftover, Pieces

LEMMA PiecesSelf ==
  ASSUME NEW x
  PROVE  Pieces(x, x)
BY CopiedHas DEF Pieces

(* A sector without items is booted.                                       *)
LEMMA EmptyUpgrade ==
  ASSUME NEW p, NEW st, NEW lf, Allowed(p, st, lf, Nothing)
  PROVE  Upgradable(p, st, lf, Nothing)
<1>1. ASSUME NEW y \in KV!Content, Pieces(y, Nothing)
      PROVE  y = Nothing
  <2>1. \A k \in Keys : y[k] = NONE
    BY <1>1, NothingIs, CopiedHas DEF Pieces
  <2> QED BY <2>1 DEF Nothing, KV!Content
<1> QED BY <1>1, NothingLeft DEF Upgradable

LEMMA UpgradeHas ==
  ASSUME NEW p, NEW st, NEW lf, NEW x \in KV!Content, Upgradable(p, st, lf, x)
  PROVE  /\ Allowed(p, st, lf, x) /\ Allowed(p, st, lf, Nothing)
         /\ Leftover(p, st, lf, x)
BY PiecesSelf, NothingLeft, NothingIs DEF Upgradable

(* The two sectors between calls.                                          *)
LEMMA IdleBoot ==
  ASSUME NEW f, FlashOK(f), NEW s \in Sectors, Settled(f, s),
         NEW st, st = Content(f, s), NEW lf, lf = Content(f, Other(s)), NEW p,
         p = NONE
  PROVE  Bootable(f, p, st, lf)
<1>1. Allowed(p, st, lf, Content(f, s))
  BY DEF Allowed
<1> QED BY <1>1, NothingLeft, SettledBoot

LEMMA SummaryIs ==
  ASSUME NEW c \in Calls, NEW p, p = Summary(c)
  PROVE  /\ p # NONE /\ p \in KV!Call /\ c # NONE
         /\ p.kind = c.kind /\ p.key = c.key /\ p.val = c.val /\ p.moves = c.moves
         /\ KV!Target(p) = KV!Target(c)
<1>1. c # NONE
  BY NoneAssumption
<1>2. p = [kind |-> c.kind, key |-> c.key, val |-> c.val, moves |-> c.moves]
  BY <1>1 DEF Summary
<1>3. p.kind = c.kind /\ p.key = c.key /\ p.val = c.val /\ p.moves = c.moves
  BY <1>2
<1>4. p \in [kind : {"set", "delete", "wipe", "init"}, key : Keys \cup {NONE},
             val : Value \cup {NONE}, moves : BOOLEAN]
  BY <1>2 DEF Calls
<1>5. p # NONE
  BY <1>4, NoneAssumption
<1>6. p \in KV!Call
  BY <1>4 DEF KV!Call, KV!Value, Value
<1>7. KV!Target(p) = KV!Target(c)
  BY <1>3 DEF KV!Target
<1> QED BY <1>1, <1>3, <1>5, <1>6, <1>7

(* A call that programs its own item was cut short.                        *)
LEMMA LocalBoot ==
  ASSUME NEW f, FlashOK(f), NEW st \in KV!Content, NEW lf,
         NEW c \in Calls, c.kind \in {"set", "delete"}, c.key \in Keys,
         Settled(f, c.wr), Keeps(f[c.wr].items, c, st),
         OwnVals(f[c.wr].items, c.plan, c.key, KV!Residue(st[c.key], KV!Target(c))),
         Content(f, Other(c.wr)) \in {lf, Nothing},
         NEW p, p = Summary(c)
  PROVE  Bootable(f, p, st, lf)
<1>1. c.wr \in Sectors /\ f[c.wr].ver # NO_MAGIC
  BY CallType, SettledMagic
<1>2. /\ p # NONE /\ p.kind = c.kind /\ p.key = c.key /\ KV!Target(p) = KV!Target(c)
      /\ p.kind # "wipe"
  BY SummaryIs
<1>3. Content(f, c.wr)[c.key] \in KV!Residue(st[c.key], KV!Target(c))
  BY <1>1, ResidueHas, OwnContent
<1>4. \A k \in Keys : k # c.key => Content(f, c.wr)[k] = st[k]
  BY <1>1, KeptContent
<1>5. Allowed(p, st, lf, Content(f, c.wr))
  BY <1>2, <1>3, <1>4 DEF Allowed
<1>6. Leftover(p, st, lf, Content(f, Other(c.wr)))
  BY NothingLeft
<1> QED BY <1>1, <1>5, <1>6, SettledBoot

(* A move of the items to the other sector was cut short.                  *)
LEMMA MoveBoot ==
  ASSUME NEW f, FlashOK(f), NEW st \in KV!Content, NEW lf,
         NEW c \in Calls, c.kind = "set", c.key \in Keys,
         NEW s, s = c.wr, NEW a, a = Other(s),
         a = 0 => c.moves, f[a].ver = NORCOW_VERSION,
         Fresh(f[a].items, c.key), Keeps(f[a].items, c, st),
         \/ ActiveSector(f) = a /\ Content(f, s) \in {lf, Nothing}
         \/ f[s].ver <= NORCOW_VERSION /\ Parts(f[s].items, f[a].items),
         NEW p, p = Summary(c)
  PROVE  Bootable(f, p, st, lf)
<1>1. /\ s \in Sectors /\ a \in Sectors /\ Other(a) = s /\ a # s
      /\ \A t \in Sectors : t = s \/ t = a
  BY CallType, Opposite
<1>2. /\ p # NONE /\ p.kind = "set" /\ p.key = c.key /\ p.moves = c.moves
  BY SummaryIs
<1>3. f[a].ver # NO_MAGIC /\ NORCOW_VERSION \in Nat \ {0} /\ NO_MAGIC = -1
      /\ f[s].ver \in Int
  BY <1>1, VersionType
<1>4. /\ \A k \in Keys : k # c.key => Content(f, a)[k] = st[k]
      /\ Content(f, a)[c.key] = NONE
  BY <1>1, <1>3, KeptContent, FreshContent
<1>5. ASSUME Parts(f[s].items, f[a].items), NEW k \in Keys
      PROVE  Content(f, s)[k] \in KV!Copied(st[k])
  <2>1. Content(f, s)[k] \in KV!Copied(Content(f, a)[k])
    BY <1>1, <1>3, <1>5, PartsContent DEF Pieces
  <2> QED BY <1>4, <2>1, CopiedHas
<1>6. Allowed(p, st, lf, Content(f, a))
  BY <1>2, <1>4, ResidueHas DEF Allowed
<1>7. CASE ActiveSector(f) = a
  <2>1. Settled(f, a)
    BY <1>7 DEF Settled
  <2>2. Leftover(p, st, lf, Content(f, s))
    <3>1. CASE Content(f, s) \in {lf, Nothing}
      BY <3>1, NothingLeft
    <3>2. CASE Parts(f[s].items, f[a].items)
      BY <1>2, <1>5, <3>2 DEF Leftover
    <3> QED BY <3>1, <3>2
  <2> QED BY <1>1, <1>6, <2>1, <2>2, SettledBoot
<1>8. CASE ActiveSector(f) # a
  <2>1. ActiveSector(f) = s
    BY <1>1, <1>8, ActiveIs
  <2>2. f[s].ver <= NORCOW_VERSION /\ Parts(f[s].items, f[a].items)
    BY <1>8
  <2>3. f[s].ver = NORCOW_VERSION /\ s = 1
    <3>1. f[a].ver <= f[s].ver /\ (f[a].ver = f[s].ver => s = 1 \/ f[s].ver = NO_MAGIC)
      BY <2>1, ActiveIs
    <3> QED BY <1>3, <2>2, <3>1
  <2>4. Settled(f, s)
    BY <2>1, <2>3 DEF Settled
  <2>5. p.moves
    BY <1>2, <2>3 DEF Other
  <2>6. Allowed(p, st, lf, Content(f, s))
    BY <1>2, <1>5, <2>2, <2>5 DEF Allowed
  <2>7. Leftover(p, st, lf, Content(f, a))
    BY <1>2, <1>4, CopiedHas DEF Leftover
  <2> QED BY <1>1, <2>4, <2>6, <2>7, SettledBoot
<1> QED BY <1>7, <1>8
(* The flash that a boot has to make something of, by its versions.        *)
LEMMA BootableIf ==
  ASSUME NEW f, FlashOK(f), NEW p, NEW st, NEW lf, NEW a, a = ActiveSector(f),
         f[a].ver <= NORCOW_VERSION,
         Allowed(p, st, lf, Content(f, a)),
         Leftover(p, st, lf, Content(f, Other(a))),
         f[a].ver # NO_MAGIC /\ f[a].ver < NORCOW_VERSION =>
           Upgradable(p, st, lf, Content(f, a))
  PROVE  Bootable(f, p, st, lf)
<1>1. Booted(f) = Content(f, a) /\ 1 - a = Other(a) /\ a \in Sectors
  BY BootedIs, ActiveIs
<1>2. ~(f[a].ver > NORCOW_VERSION)
  BY <1>1, VersionType
<1> QED BY <1>1, <1>2 DEF Bootable

(* A wipe was cut short.                                                   *)
LEMMA WipeBoot ==
  ASSUME NEW f, FlashOK(f), NEW st, NEW lf,
         NEW c \in Calls, c.kind = "wipe", NEW s, s = c.wr,
         Content(f, Other(s)) \in {lf, Nothing}, f[Other(s)].ver <= NORCOW_VERSION,
         f[s].ver <= NORCOW_VERSION,
         Content(f, s) = Nothing \/ (Settled(f, s) /\ Content(f, s) = st),
         NEW p, p = Summary(c)
  PROVE  Bootable(f, p, st, lf)
<1>1. /\ s \in Sectors /\ Other(s) \in Sectors /\ Other(Other(s)) = s
      /\ \A t \in Sectors : t = s \/ t = Other(s)
  BY CallType, Opposite
<1>2. p # NONE /\ p.kind = "wipe"
  BY SummaryIs
<1>3. \A y : Pieces(y, lf) => Allowed(p, st, lf, y)
  BY <1>2 DEF Allowed, Pieces
<1>4. Allowed(p, st, lf, Nothing) /\ Allowed(p, st, lf, lf)
  BY <1>3, NothingLeft, PiecesSelf
<1>5. Allowed(p, st, lf, st)
  BY <1>2 DEF Allowed
<1>6. Upgradable(p, st, lf, Nothing)
  BY <1>4, EmptyUpgrade
<1>7. Upgradable(p, st, lf, lf)
  BY <1>3, NothingLeft DEF Upgradable
<1>8. CASE Settled(f, s) /\ Content(f, s) = st
  BY <1>1, <1>5, <1>8, NothingLeft, SettledBoot
<1>9. CASE Content(f, s) = Nothing
  <2>1. \A t \in Sectors :
          /\ f[t].ver <= NORCOW_VERSION
          /\ Content(f, t) \in {lf, Nothing} /\ Content(f, Other(t)) \in {lf, Nothing}
    BY <1>1, <1>9
  <2>2. PICK a : a = ActiveSector(f)
    OBVIOUS
  <2>3. a \in Sectors
    BY <2>2, ActiveIs
  <2>4. /\ Allowed(p, st, lf, Content(f, a)) /\ Upgradable(p, st, lf, Content(f, a))
        /\ Leftover(p, st, lf, Content(f, Other(a)))
    BY <1>4, <1>6, <1>7, <2>1, <2>3, NothingLeft
  <2> QED BY <2>1, <2>2, <2>3, <2>4, BootableIf
<1> QED BY <1>8, <1>9

(* The copying of an upgrade was cut short.                                *)
LEMMA UpgradeBoot ==
  ASSUME NEW f, FlashOK(f), ZeroEmpty(f), NEW p, NEW st, NEW lf,
         NEW s \in Sectors, NEW a, a = Other(s),
         f[a].ver \in 0..(NORCOW_VERSION - 1),
         Upgradable(p, st, lf, Content(f, a)),
         \/ ActiveSector(f) = a /\ Leftover(p, st, lf, Content(f, s))
         \/ f[s].items = <<>> /\ f[s].ver <= NORCOW_VERSION
         \/ f[s].ver = NORCOW_VERSION /\ Parts(f[s].items, f[a].items)
  PROVE  Bootable(f, p, st, lf)
<1>1. /\ a \in Sectors /\ Other(a) = s /\ \A t \in Sectors : t = s \/ t = a
  BY Opposite
<1>2. /\ NORCOW_VERSION \in Nat \ {0} /\ NO_MAGIC = -1 /\ f[a].ver \in Int
      /\ f[s].ver \in Int
  BY <1>1, VersionType
<1>3. f[a].ver <= NORCOW_VERSION /\ f[a].ver # NO_MAGIC
  BY <1>2
<1>4. Content(f, a) \in KV!Content /\ Content(f, s) \in KV!Content
  BY <1>1, ContentIs
<1>5. /\ Allowed(p, st, lf, Content(f, a)) /\ Allowed(p, st, lf, Nothing)
      /\ Leftover(p, st, lf, Content(f, a))
  BY <1>4, UpgradeHas
<1>6. Upgradable(p, st, lf, Nothing)
  BY <1>5, EmptyUpgrade
<1>7. CASE ActiveSector(f) = a /\ Leftover(p, st, lf, Content(f, s))
  BY <1>1, <1>3, <1>5, <1>7, BootableIf
<1>8. CASE f[s].items = <<>> /\ f[s].ver <= NORCOW_VERSION
  <2>1. Content(f, s) = Nothing
    BY <1>8, ContentIs
  <2>2. PICK b : b = ActiveSector(f)
    OBVIOUS
  <2>3. CASE b = a
    BY <1>1, <1>3, <1>5, <2>1, <2>2, <2>3, NothingLeft, BootableIf
  <2>4. CASE b = s
    BY <1>5, <1>6, <1>8, <2>1, <2>2, <2>4, BootableIf
  <2> QED BY <1>1, <2>2, <2>3, <2>4, ActiveIs
<1>9. CASE f[s].ver = NORCOW_VERSION /\ Parts(f[s].items, f[a].items)
  <2>1. Pieces(Content(f, s), Content(f, a))
    BY <1>1, <1>3, <1>9, PartsContent
  <2>2. Allowed(p, st, lf, Content(f, s))
    BY <1>4, <2>1 DEF Upgradable
  <2>3. ActiveSector(f) = s
    <3>1. f[a].ver < f[s].ver
      BY <1>2, <1>9
    <3> QED BY <3>1, ActiveNewer
  <2>4. Settled(f, s)
    BY <1>9, <2>3 DEF Settled
  <2> QED BY <1>5, <2>2, <2>4, SettledBoot
<1> QED BY <1>7, <1>8, <1>9

(* The wiping of a boot was cut short.                                     *)
LEMMA CleanBoot ==
  ASSUME NEW f, FlashOK(f), ZeroEmpty(f), NEW p, NEW st, NEW lf, NEW s \in Sectors,
         f[Other(s)].ver = NO_MAGIC, Booted(f) = Nothing, Allowed(p, st, lf, Nothing)
  PROVE  Bootable(f, p, st, lf)
<1>1. PICK a : a = ActiveSector(f)
  OBVIOUS
<1>2. /\ a \in Sectors /\ Other(a) \in Sectors /\ 1 - a = Other(a)
      /\ f[Other(a)].ver <= f[a].ver
  BY <1>1, ActiveIs
<1>3. /\ NORCOW_VERSION \in Nat \ {0} /\ NO_MAGIC = -1 /\ f[a].ver \in Int
      /\ f[Other(a)].ver \in Int /\ f[Other(a)].ver >= NO_MAGIC
  BY <1>2, VersionType
<1>4. f[Other(a)].ver = NO_MAGIC
  <2>1. CASE a = s
    BY <2>1
  <2>2. CASE a = Other(s)
    BY <1>2, <1>3, <2>2
  <2> QED BY <1>2, <2>1, <2>2, Opposite
<1>5. Content(f, Other(a)) = Nothing
  BY <1>2, <1>4, ContentIs
<1>6. Leftover(p, st, lf, Content(f, Other(a)))
  BY <1>5, NothingLeft
<1>7. f[a].ver < NORCOW_VERSION => Upgradable(p, st, lf, Content(f, a))
  <2>1. f[a].ver < NORCOW_VERSION => Content(f, a) = Nothing
    BY <1>1, <1>2, <1>3, BootedIs
  <2> QED BY <2>1, EmptyUpgrade
<1> QED BY <1>1, <1>2, <1>4, <1>6, <1>7 DEF Bootable

LEMMA NoItems ==
  ASSUME NEW q, NEW from, NEW s, NEW t,
         \A n \in DOMAIN q : q[n] \in {Erase(s), Header(s, 0), Header(s, NORCOW_VERSION), Erase(t)}
  PROVE  PlanParts(q, from)
<1>1. /\ Erase(s).op = "erase" /\ Erase(t).op = "erase" /\ Header(s, 0).op = "header"
      /\ Header(s, NORCOW_VERSION).op = "header"
  BY DEF Erase, Header
<1>2. \A n \in DOMAIN q : q[n].op \in {"erase", "header"}
  BY <1>1, Zenon
<1> QED BY <1>2 DEF PlanParts, ItemOp

LEMMA PrepareNoItems ==
  ASSUME build \in Builds, NEW f, NEW s \in Sectors, NEW q, Preparing(f, q, s), NEW from
  PROVE  PlanParts(q, from)
<1> DEFINE e == Erase(s)
           h == Header(s, 0)
           v == Header(s, NORCOW_VERSION)
<1>1. q \in {<<e, h, v>>, <<e, v>>, <<h, v>>, <<v>>}
  BY EraseSectorIs, BuildType DEF Preparing
<1> HIDE DEF e, h, v
<1>2. \A n \in DOMAIN q : q[n] \in {e, h, v}
  <2>1. CASE q = <<e, h, v>>
    BY <2>1
  <2>2. CASE q = <<e, v>>
    BY <2>2
  <2>3. CASE q = <<h, v>>
    BY <2>3
  <2>4. CASE q = <<v>>
    BY <2>4
  <2> QED BY <1>1, <2>1, <2>2, <2>3, <2>4
<1>3. \A n \in DOMAIN q : q[n] \in {Erase(s), Header(s, 0), Header(s, NORCOW_VERSION), Erase(s)}
  BY <1>2 DEF e, h, v
<1> QED BY <1>3, NoItems

(* What a boot does about a flash: it takes it as it is, wipes or copies.  *)
LEMMA BootStarts ==
  ASSUME build \in Builds, NEW f, FlashOK(f), NEW p, NEW st, NEW lf,
         Bootable(f, p, st, lf), NEW c, c = norcow_init(f)
  PROVE  BootSafe(f, c, p, st, lf)
<1>1. PICK a : a = ActiveSector(f)
  OBVIOUS
<1>2. /\ a \in Sectors /\ Other(a) \in Sectors /\ 1 - a = Other(a) /\ Other(Other(a)) = a
      /\ 1 - Other(a) = a
  BY <1>1, ActiveIs, Opposite
<1>3. PICK ver : ver = f[a].ver
  OBVIOUS
<1>4. /\ ver \in Int /\ NORCOW_VERSION \in Nat \ {0} /\ NO_MAGIC = -1
      /\ (ver # NO_MAGIC => ver \in Nat)
  BY <1>2, <1>3, VersionType
<1>5. /\ Allowed(p, st, lf, Booted(f)) /\ Leftover(p, st, lf, Content(f, Other(a)))
      /\ ver > NORCOW_VERSION => f[Other(a)].ver = NO_MAGIC
      /\ ver < NORCOW_VERSION /\ ver # NO_MAGIC => Upgradable(p, st, lf, Content(f, a))
  BY <1>1, <1>2, <1>3 DEF Bootable
<1>6. CASE ver = NO_MAGIC \/ ver > NORCOW_VERSION
  <2>1. /\ c.plan = norcow_wipe(a) /\ c.next = "return" /\ c.wr = a /\ c.moves = FALSE
    BY <1>1, <1>3, <1>6 DEF norcow_init
  <2>2. PICK q : q = norcow_wipe(a)
    OBVIOUS
  <2>3. c.plan # <<>>
    BY <1>2, <2>1, <2>2, WipePlanType
  <2>4. Booted(f) = Nothing /\ f[Other(a)].ver = NO_MAGIC
    BY <1>1, <1>3, <1>5, <1>6, BootedIs
  <2> QED BY <1>2, <1>5, <2>1, <2>3, <2>4 DEF BootSafe
<1>7. CASE ver # NO_MAGIC /\ ver < NORCOW_VERSION
  <2>0. ~(ver = NO_MAGIC \/ ver > NORCOW_VERSION)
    BY <1>4, <1>7
  <2>1. /\ c.plan = compact_prepare(1 - a) /\ c.next = "copy" /\ c.wr = 1 - a
        /\ c.moves = TRUE
    BY <1>1, <1>3, <1>7, <2>0 DEF norcow_init
  <2>2. PICK q : q = compact_prepare(Other(a))
    OBVIOUS
  <2>3. q # <<>> /\ Preparing(f, q, Other(a))
    BY <1>2, <2>2, PreparePlan
  <2>4. c.plan = q /\ c.wr = Other(a) /\ 1 - c.wr = a
    BY <1>2, <2>1, <2>2
  <2>5. PlanParts(q, f[a].items)
    BY <1>2, <2>3, PrepareNoItems
  <2>6. f[a].ver \in 0..(NORCOW_VERSION - 1)
    BY <1>3, <1>4, <1>7
  <2>7. Upgradable(p, st, lf, Content(f, a))
    BY <1>5, <1>7
  <2> QED BY <1>1, <1>5, <2>1, <2>3, <2>4, <2>5, <2>6, <2>7 DEF BootSafe
<1>8. CASE ver = NORCOW_VERSION
  <2>0. ver # NO_MAGIC /\ ~(ver > NORCOW_VERSION) /\ ~(ver < NORCOW_VERSION)
    BY <1>4, <1>8
  <2>1. c.plan = <<>> /\ c.next = "return"
    BY <1>1, <1>3, <2>0 DEF norcow_init
  <2> QED BY <2>1 DEF BootSafe
<1> QED BY <1>4, <1>6, <1>7, <1>8

-----------------------------------------------------------------------------
(* What the flash operations of a call program.                            *)

(* The operations q give the key k no value but those in R.                *)
OwnOps(q, k, R) ==
  \A n \in DOMAIN q : ItemOp(q[n]) /\ q[n].item.key = k => q[n].item.val \in R

(* The operations q write (a part of) the value v under the key k.         *)
WriteOps(q, k, v) ==
  \A n \in DOMAIN q : q[n].item.key = k /\ q[n].item.val \in KV!Written(v)

Joined(r, p, q) ==
  \A n \in DOMAIN r : \/ \E l \in DOMAIN p : r[n] = p[l]
                      \/ \E l \in DOMAIN q : r[n] = q[l]

LEMMA JoinedIs ==
  ASSUME NEW S, NEW p \in Seq(S), NEW q \in Seq(S), NEW r, r = p \o q
  PROVE  r \in Seq(S) /\ Joined(r, p, q)
<1>1. /\ p \o q \in Seq(S) /\ Len(p \o q) = Len(p) + Len(q)
      /\ \A l \in 1..(Len(p) + Len(q)) :
           (p \o q)[l] = IF l <= Len(p) THEN p[l] ELSE q[l - Len(p)]
  BY ConcatProperties, Zenon
<1>2. /\ r \in Seq(S) /\ Len(r) = Len(p) + Len(q)
      /\ \A l \in 1..(Len(p) + Len(q)) :
           r[l] = IF l <= Len(p) THEN p[l] ELSE q[l - Len(p)]
  BY <1>1, Zenon
<1>3. /\ Len(p) \in Nat /\ Len(q) \in Nat /\ DOMAIN p = 1..Len(p)
      /\ DOMAIN q = 1..Len(q) /\ DOMAIN r = 1..Len(r)
  BY <1>2, LenProperties
<1>4. ASSUME NEW n \in DOMAIN r
      PROVE  \/ \E l \in DOMAIN p : r[n] = p[l]
             \/ \E l \in DOMAIN q : r[n] = q[l]
  <2>1. n \in 1..(Len(p) + Len(q))
    BY <1>2, <1>3
  <2>2. CASE n <= Len(p)
    <3>1. n \in DOMAIN p /\ r[n] = p[n]
      BY <1>2, <1>3, <2>1, <2>2
    <3> QED BY <3>1
  <2>3. CASE ~(n <= Len(p))
    <3>1. n - Len(p) \in DOMAIN q /\ r[n] = q[n - Len(p)]
      BY <1>2, <1>3, <2>1, <2>3
    <3> QED BY <3>1
  <2> QED BY <2>2, <2>3
<1> QED BY <1>2, <1>4 DEF Joined

LEMMA PutsItems ==
  ASSUME NEW s, NEW i, NEW states, NEW q, q = Puts(s, i, states)
  PROVE  /\ DOMAIN q = 1..Len(states)
         /\ \A n \in DOMAIN q : q[n].item = states[n] /\ q[n].op = "put"
BY DEF Puts

LEMMA WriteVals ==
  ASSUME NEW s \in Sectors, NEW i \in Nat, NEW k \in Keys, NEW v \in Value,
         NEW fill \in BOOLEAN, NEW q, q = write_item(s, i, k, v, fill)
  PROVE  WriteOps(q, k, v)
<1> DEFINE n == Len(v)
           Item(m) == [key |-> k, val |-> Splice(v, Ones(n), m)]
           A(it) == [op |-> "append", sec |-> s, item |-> it]
           states == [m \in 1..n |-> Item(m)]
           Good(it) == it \in Items /\ it.key = k /\ it.val \in KV!Written(v)
<1>1. /\ n \in Lens /\ n \in Nat \ {0} /\ Ones(n) \in Value /\ Len(Ones(n)) = n
  BY ValueType, ConstantType
<1>2. q = IF IsSmall(n) THEN <<A(Item(n))>>
          ELSE <<A(Item(0))>> \o (IF fill THEN Puts(s, i, states) ELSE <<>>)
  BY DEF write_item
<1>3. ASSUME NEW m \in 0..n
      PROVE  Good(Item(m))
  <2>1. PICK z : z = Splice(v, Ones(n), m)
    OBVIOUS
  <2>2. z \in Value
    <3>1. m \in Int /\ Len(v) = Len(Ones(n))
      BY <1>1
    <3> QED BY <1>1, <2>1, <3>1, SpliceType
  <2>3. z \in KV!Written(v)
    BY <2>1, WrittenHas
  <2>4. Item(m) = [key |-> k, val |-> z]
    BY <2>1
  <2> HIDE DEF Item
  <2> QED BY <2>2, <2>3, <2>4 DEF Items
<1> HIDE DEF n, Item
<1>5. ASSUME NEW it, Good(it)
      PROVE  A(it) \in FlashOps /\ A(it).item = it
  BY <1>5 DEF FlashOps
<1>6. ASSUME NEW it, Good(it), NEW p, p = <<A(it)>>
      PROVE  p \in Seq(FlashOps) /\ WriteOps(p, k, v)
  <2>1. PICK a : a = A(it)
    OBVIOUS
  <2>2. a \in FlashOps /\ a.item = it
    BY <1>5, <1>6, <2>1
  <2>3. p = <<a>>
    BY <1>6, <2>1
  <2>4. p \in Seq(FlashOps) /\ \A l \in DOMAIN p : p[l] = a
    BY <2>2, <2>3
  <2> QED BY <1>6, <2>2, <2>4 DEF WriteOps
<1> HIDE DEF A, Good
<1>7. CASE IsSmall(n)
  <2>1. q = <<A(Item(n))>> /\ n \in 0..n
    BY <1>1, <1>2, <1>7
  <2> QED BY <1>3, <1>6, <2>1
<1>8. PICK a : a = <<A(Item(0))>>
  OBVIOUS
<1>9. a \in Seq(FlashOps) /\ WriteOps(a, k, v)
  <2>1. 0 \in 0..n
    BY <1>1
  <2> QED BY <1>3, <1>6, <1>8, <2>1
<1>10. CASE ~IsSmall(n) /\ ~fill
  <2>1. q = a \o <<>>
    BY <1>2, <1>8, <1>10, Zenon
  <2>2. a \o <<>> = a
    BY <1>9, ConcatEmptySeq
  <2> QED BY <1>9, <2>1, <2>2
<1>11. CASE ~IsSmall(n) /\ fill
  <2>0. PICK t : t = states
    OBVIOUS
  <2>1. \A l \in 1..n : t[l] = Item(l) /\ Good(t[l])
    BY <1>1, <1>3, <2>0
  <2>2. t \in Seq(Items) /\ Len(t) = n
    <3>1. t = [l \in 1..n |-> t[l]]
      BY <2>0
    <3>2. \A l \in 1..n : t[l] \in Items
      BY <2>1 DEF Good
    <3> QED BY <1>1, <3>1, <3>2
  <2>3. PICK p : p = Puts(s, i, t)
    OBVIOUS
  <2>4. p \in Seq(FlashOps)
    BY <2>2, <2>3, PutsAre
  <2>5. DOMAIN p = 1..n /\ \A l \in DOMAIN p : p[l].item = t[l]
    BY <2>2, <2>3, PutsItems
  <2>6. WriteOps(p, k, v)
    BY <2>1, <2>5 DEF WriteOps, Good
  <2>7. q = a \o p
    BY <1>2, <1>8, <1>11, <2>0, <2>3, Zenon
  <2>8. Joined(q, a, p)
    BY <1>9, <2>4, <2>7, JoinedIs
  <2> QED BY <1>9, <2>6, <2>8 DEF Joined, WriteOps
<1> QED BY <1>7, <1>10, <1>11

(* norcow_delete_item clears the value before it clears the key, or after. *)
LEMMA DeleteVals ==
  ASSUME build \in Builds, NEW s \in Sectors, NEW i \in Nat,
         NEW it \in Items, it.key \in Keys, it.val \in Value,
         NEW q, q = norcow_delete_item(s, i, it), NEW R
  PROVE  /\ BIT_ACCESS => OwnOps(q, it.key, R)
         /\ OwnOps(q, it.key, KV!Cleared(it.val))
<1> DEFINE n == Len(it.val)
           D == NORCOW_KEY_DELETED
<1>1. n \in Nat \ {0} /\ it = [key |-> it.key, val |-> it.val]
      /\ D # it.key
  BY ValueType, ItemType, KeyTypes
<1>2. CASE BIT_ACCESS
  <2>1. PICK t : t = DeleteBitwise(it)
    OBVIOUS
  <2>2. q = Puts(s, i, t)
    BY <1>2, <2>1 DEF norcow_delete_item
  <2>3. \A m \in 1..(n + 1) : t[m].key = D
    BY <2>1 DEF DeleteBitwise
  <2>4. Len(t) = n + 1
    <3>1. DOMAIN t = 1..(n + 1) /\ n + 1 \in Nat
      BY <1>1, <2>1 DEF DeleteBitwise
    <3>2. t \in Seq(Items)
      BY <2>1, DeleteBitwiseOK DEF Lowering
    <3> QED BY <3>1, <3>2, LenProperties
  <2> HIDE DEF n, D
  <2>5. \A m \in DOMAIN q : q[m].item.key = D
    BY <2>2, <2>3, <2>4, PutsItems
  <2> QED BY <1>1, <2>5 DEF OwnOps
<1>3. CASE ~BIT_ACCESS
  <2>1. PICK t : t = DeleteBlockwise(it)
    OBVIOUS
  <2>2. q = Puts(s, i, t)
    BY <1>3, <2>1 DEF norcow_delete_item
  <2>3. CASE IsSmall(n)
    <3>1. PICK x : x = [key |-> D, val |-> <<>>]
      OBVIOUS
    <3>2. t = <<x>>
      BY <2>1, <2>3, <3>1 DEF DeleteBlockwise
    <3>3. Len(t) = 1 /\ t[1] = x /\ x.key = D
      BY <3>1, <3>2
    <3> HIDE DEF n, D
    <3>4. \A m \in DOMAIN q : q[m].item.key = D
      BY <2>2, <3>3, PutsItems
    <3> QED BY <1>1, <1>3, <3>4 DEF OwnOps
  <2>4. CASE ~IsSmall(n)
    <3>1. t = [m \in 1..n |->
                 IF m < n THEN [it EXCEPT !.val = Splice(Zeros(n), it.val, m)]
                 ELSE [key |-> D, val |-> Zeros(n)]]
      BY <2>1, <2>4 DEF DeleteBlockwise
    <3>2. Len(t) = n
      <4>1. DOMAIN t = 1..n
        BY <3>1
      <4>2. t \in Seq(Items)
        BY <2>1, DeleteBlockwiseOK DEF Lowering
      <4> QED BY <1>1, <4>1, <4>2, LenProperties
    <3>3. ASSUME NEW m \in 1..n
          PROVE  t[m].key = it.key => t[m].val \in KV!Cleared(it.val)
      <4>1. CASE m < n
        <5>1. PICK z : z = Splice(Zeros(n), it.val, m)
          OBVIOUS
        <5>2. m \in 0..n
          BY <1>1
        <5>3. z \in KV!Cleared(it.val)
          BY <5>1, <5>2, ClearedHas
        <5>4. t[m] = [it EXCEPT !.val = z]
          BY <3>1, <4>1, <5>1
        <5>5. t[m].val = z
          BY <1>1, <5>4
        <5> QED BY <5>3, <5>5
      <4>2. CASE ~(m < n)
        <5>1. t[m] = [key |-> D, val |-> Zeros(n)]
          BY <3>1, <4>2
        <5> QED BY <1>1, <5>1
      <4> QED BY <4>1, <4>2
    <3> HIDE DEF n, D
    <3>4. \A m \in DOMAIN q : m \in 1..n /\ q[m].item = t[m]
      BY <2>2, <3>2, PutsItems
    <3> QED BY <1>3, <3>3, <3>4 DEF OwnOps
  <2> QED BY <2>3, <2>4
<1> QED BY <1>2, <1>3

LEMMA InPlaceVals ==
  ASSUME build \in Builds, NEW s \in Sectors, NEW i \in Nat,
         NEW old \in Items, old.key \in Keys, old.val \in Value,
         NEW v \in Value, NEW m, m = 0 \/ m = Writable(old.val, v),
         NEW q, q = InPlace(s, i, old, v, m)
  PROVE  /\ q \in Seq(FlashOps)
         /\ OwnOps(q, old.key, KV!Residue(old.val, v))
<1>1. CASE ~(BIT_ACCESS /\ m > 0)
  <2>1. q = <<>>
    BY <1>1 DEF InPlace
  <2> QED BY <2>1 DEF OwnOps
<1>2. CASE BIT_ACCESS /\ m > 0
  <2>1. m = Writable(old.val, v)
    BY <1>2
  <2>2. PutChain(q, s, i, old)
    BY <1>2, <2>1, InPlaceOK
  <2>3. /\ m \in 0..Len(v) /\ Len(old.val) = Len(v) /\ Len(v) \in Nat
    BY <1>2, <2>1, WritableIs, ValueType
  <2>4. PICK t : t = [j \in 1..m |-> [old EXCEPT !.val = Splice(v, old.val, j)]]
    OBVIOUS
  <2>5. q = Puts(s, i, t)
    BY <1>2, <2>4 DEF InPlace
  <2>6. ASSUME NEW j \in 1..m
        PROVE  t[j].val \in KV!Residue(old.val, v)
    <3>1. PICK z : z = Splice(v, old.val, j)
      OBVIOUS
    <3>2. j \in 0..Len(old.val)
      BY <2>3
    <3>3. z \in KV!Residue(old.val, v)
      BY <2>3, <3>1, <3>2, ResidueSplice
    <3>4. t[j] = [old EXCEPT !.val = z] /\ old = [key |-> old.key, val |-> old.val]
      BY <2>4, <3>1, ItemType
    <3>5. t[j].val = z
      BY <3>4
    <3> QED BY <3>3, <3>5
  <2>7. Len(t) = m
    <3>1. \A j \in 1..m : t[j] = [key |-> old.key, val |-> Splice(v, old.val, j)]
      BY <2>4, ItemType
    <3>2. t = [j \in 1..m |-> t[j]] /\ m \in Nat
      BY <2>3, <2>4
    <3> QED BY <3>2
  <2>8. \A j \in DOMAIN q : j \in 1..m /\ q[j].item = t[j]
    BY <2>5, <2>7, PutsItems
  <2> QED BY <2>2, <2>6, <2>8 DEF OwnOps, PutChain
<1> QED BY <1>1, <1>2

LEMMA OwnOpsMore ==
  ASSUME NEW q, NEW k, NEW R, NEW T, OwnOps(q, k, R), \A w \in R : w \in T
  PROVE  OwnOps(q, k, T)
BY DEF OwnOps

LEMMA RewriteVals ==
  ASSUME build \in Builds, NEW s \in Sectors, NEW i \in Nat \ {0},
         NEW old \in Items, old.key \in Keys, old.val \in Value,
         NEW v \in Value, NEW m, m = 0 \/ m = Writable(old.val, v),
         NEW updated \in BOOLEAN, updated \/ m # Len(v),
         NEW q, q = Rewrite(s, i, old, v, m, updated)
  PROVE  OwnOps(q, old.key, KV!Residue(old.val, v))
<1> DEFINE R == KV!Residue(old.val, v)
<1>1. PICK u : u = InPlace(s, i, old, v, m)
  OBVIOUS
<1>2. u \in Seq(FlashOps) /\ OwnOps(u, old.key, R)
  BY <1>1, InPlaceVals
<1>3. CASE updated
  BY <1>1, <1>2, <1>3 DEF Rewrite
<1>4. CASE ~updated
  <2>1. PICK t : t = Torn(old, v, m)
    OBVIOUS
  <2>2. t \in Items /\ t.key = old.key /\ t.val \in Value /\ (m = 0 => t = old)
    BY <2>1, TornIs
  <2>3. PICK p : p = norcow_delete_item(s, i, t)
    OBVIOUS
  <2>4. i > 0
    OBVIOUS
  <2>5. q = u \o p
    BY <1>1, <1>4, <2>1, <2>3, <2>4, Zenon DEF Rewrite
  <2>6. p \in Seq(FlashOps)
    BY <2>2, <2>3, DeleteItemOK DEF PutChain
  <2>7. OwnOps(p, old.key, R)
    <3>1. CASE BIT_ACCESS
      BY <2>2, <2>3, <3>1, DeleteVals
    <3>2. CASE ~BIT_ACCESS
      <4>1. m = 0
        <5>1. m \in 0..Len(v) /\ (m > 0 => m = Len(v)) /\ Len(v) \in Nat
          BY <3>2, WritableIs, ValueType
        <5> QED BY <1>4, <5>1
      <4>2. OwnOps(p, t.key, KV!Cleared(t.val)) /\ t = old
        BY <2>2, <2>3, <4>1, DeleteVals
      <4>3. \A w \in KV!Cleared(old.val) : w \in R
        BY ResidueHas
      <4> QED BY <4>2, <4>3, OwnOpsMore
    <3> QED BY <3>1, <3>2
  <2>8. Joined(q, u, p)
    BY <1>2, <2>5, <2>6, JoinedIs
  <2> HIDE DEF R
  <2>9. OwnOps(q, old.key, R)
    BY <1>2, <2>7, <2>8 DEF Joined, OwnOps
  <2> QED BY <2>9 DEF R
<1> QED BY <1>3, <1>4

-----------------------------------------------------------------------------
(* One flash operation keeps the flash bootable.                           *)

LEMMA ExceptMoves ==
  ASSUME NEW c \in Calls, NEW plan, NEW next, NEW pos, NEW act, NEW wr, NEW fr
  PROVE  /\ [c EXCEPT !.plan = plan].moves = c.moves
         /\ [c EXCEPT !.plan = plan, !.wr = wr, !.next = next].moves = c.moves
         /\ [c EXCEPT !.plan = plan, !.pos = pos].moves = c.moves
         /\ [c EXCEPT !.plan = plan, !.act = act, !.fr = fr, !.next = next].moves
              = c.moves
         /\ [c EXCEPT !.plan = plan, !.fr = fr, !.next = next].moves = c.moves
BY CallType

LEMMA WriteNewIs ==
  ASSUME NEW g, NEW e \in Calls, NEW d, d = WriteNew(g, e)
  PROVE  /\ d.moves = e.moves
         /\ \/ d.plan = <<>>
            \/ d.plan = write_item(e.wr, Len(g[e.wr].items) + 1, e.key, e.val, e.fill)
<1> DEFINE fits == e.fr + ItemSize(Len(e.val)) <= SECTOR_SIZE
<1>1. PICK plan : plan = IF fits THEN write_item(e.wr, Len(g[e.wr].items) + 1,
                                                e.key, e.val, e.fill)
                         ELSE <<>>
  OBVIOUS
<1>2. PICK fr : fr = IF fits THEN e.fr + ItemSize(Len(e.val)) ELSE e.fr
  OBVIOUS
<1>3. d = [e EXCEPT !.plan = plan, !.fr = fr, !.next = "return"]
  BY <1>1, <1>2 DEF WriteNew
<1>4. d.moves = e.moves
  BY <1>3, ExceptMoves
<1>5. d.plan = plan
  BY <1>3, CallType
<1> QED BY <1>1, <1>4, <1>5

(* One turn of compact: the next item is copied, or the old sector erased.  *)
CopyTurn(g, e, d, from) ==
  \/ /\ Alive(from, e.pos) # {} /\ d.next = e.next
     /\ d.plan = write_item(e.wr, Len(g[e.wr].items) + 1,
                            from[Min(Alive(from, e.pos))].key,
                            from[Min(Alive(from, e.pos))].val, TRUE)
  \/ d.plan = erase_sector(1 - e.wr, FALSE) /\ d.next # "copy"

LEMMA CompactIs ==
  ASSUME NEW g, NEW e \in Calls, NEW d, d = compact(g, e), NEW from,
         from = g[1 - e.wr].items
  PROVE  d.moves = e.moves /\ d.wr = e.wr /\ CopyTurn(g, e, d, from)
<1>1. PICK a : a = 1 - e.wr
  OBVIOUS
<1>2. PICK i : i = Min(Alive(from, e.pos))
  OBVIOUS
<1>3. CASE Alive(from, e.pos) # {}
  <2>1. PICK plan : plan = write_item(e.wr, Len(g[e.wr].items) + 1,
                                      from[i].key, from[i].val, TRUE)
    OBVIOUS
  <2>2. d = [e EXCEPT !.plan = plan, !.pos = i + 1]
    BY <1>2, <1>3, <2>1 DEF compact, Alive
  <2>3. d.moves = e.moves /\ d.wr = e.wr /\ d.next = e.next /\ d.plan = plan
    BY <2>2, CallType
  <2> QED BY <1>2, <1>3, <2>1, <2>3 DEF CopyTurn
<1>4. CASE Alive(from, e.pos) = {}
  <2>1. PICK plan, fr, next :
          /\ plan = erase_sector(a, FALSE) /\ fr = find_free_offset(g[e.wr])
          /\ next = IF e.kind = "set" THEN "write" ELSE "return"
    OBVIOUS
  <2>2. d = [e EXCEPT !.plan = plan, !.act = e.wr, !.fr = fr, !.next = next]
    BY <1>1, <1>4, <2>1 DEF compact, Alive
  <2>3. d.moves = e.moves /\ d.wr = e.wr /\ d.next = next /\ d.plan = plan
    BY <2>2, CallType
  <2> QED BY <1>1, <2>1, <2>3 DEF CopyTurn
<1> QED BY <1>3, <1>4

LEMMA ResumeMoves ==
  ASSUME NEW g, NEW e \in Calls, NEW d, d = Resume(g, e)
  PROVE  d.moves = e.moves
<1>1. CASE e.plan # <<>> \/ e.next = "return"
  BY <1>1, ResumeLater
<1>2. CASE e.plan = <<>> /\ e.next = "write"
  <2>1. d = WriteNew(g, e)
    BY <1>2, ResumeWrite
  <2> QED BY <2>1, WriteNewIs
<1>3. CASE e.plan = <<>> /\ e.next = "copy"
  <2>1. d = compact(g, e)
    BY <1>3, ResumeCopy
  <2>2. PICK from : from = g[1 - e.wr].items
    OBVIOUS
  <2> QED BY <2>1, <2>2, CompactIs
<1>4. CASE e.plan = <<>> /\ e.next = "compact"
  <2>1. d = Compacting(e)
    BY <1>4, ResumeCompact
  <2> QED BY <2>1, ExceptMoves DEF Compacting
<1> QED BY <1>1, <1>2, <1>3, <1>4, CallType

LEMMA AdvanceMoves ==
  ASSUME NEW c \in Calls, NEW d, d = Advance(c)
  PROVE  d.moves = c.moves
BY ExceptMoves DEF Advance

LEMMA RangeSame ==
  ASSUME NEW c, NEW d, Same(c, d), NEW st
  PROVE  OwnRange(d, st) = OwnRange(c, st)
BY DEF Same, OwnRange, KV!Target

LEMMA EmptyStays ==
  ASSUME NEW f, NEW g, NEW s \in Sectors, ZeroEmpty(f), g[Other(s)] = f[Other(s)],
         g[s].ver = 0 => g[s].items = <<>>
  PROVE  ZeroEmpty(g)
BY Opposite DEF ZeroEmpty

(* A set or a delete moves no items while it programs its own.             *)
LEMMA LocalStays ==
  ASSUME NEW f, NEW c, NEW st, Local(f, c, st), c.kind \in {"set", "delete"}
  PROVE  ~Moves(c)
<1>1. c.plan # <<>> => Head(c.plan).op \in {"put", "append"}
  BY DEF Local, OwnItem, Writing
<1> QED BY <1>1 DEF Local, Moves

LEMMA ReturnsLocal ==
  ASSUME NEW f, NEW c, NEW st, CallOK(f, c, st), c.kind \in {"set", "delete"},
         c.next = "return"
  PROVE  Local(f, c, st)
BY DEF CallOK, Moving, Copying, Source, Moved, Wiping

LEMMA CopiesFrom ==
  ASSUME NEW f, NEW c, NEW st, CallOK(f, c, st), c.next = "copy"
  PROVE  Source(f, c, st) /\ (Moving(f, c, st) \/ Copying(f, c, st))
BY DEF CallOK, Local, Moving, Copying, Moved, Wiping

(* The end of norcow_set_ex.                                               *)
LEMMA WriteNewSafe ==
  ASSUME NEW g, FlashOK(g), NEW st, NEW lf, NEW e \in Calls, Asks(e),
         e.kind = "set", NEW q, OwnVals(g[e.wr].items, q, e.key, OwnRange(e, st)),
         Content(g, Other(e.wr)) \in {lf, Nothing},
         NEW d, d = WriteNew(g, e), Ran(g, e, d, st), d.wr = e.wr, d.next = "return"
  PROVE  SetSafe(g, d, st, lf)
<1>1. /\ e.wr \in Sectors /\ e.key \in Keys /\ e.val \in Value /\ e.fill \in BOOLEAN
      /\ 1 - e.wr = Other(e.wr)
  BY CallType, Opposite DEF Asks
<1>2. CallOK(g, d, st) /\ Same(e, d) /\ d.kind = "set" /\ d.key = e.key
  BY DEF Ran, Same
<1>3. ~Moves(d)
  BY <1>2, ReturnsLocal, LocalStays
<1>4. KV!Target(e) = e.val
  BY DEF KV!Target
<1>5. OwnOps(d.plan, e.key, OwnRange(e, st))
  <2>1. CASE d.plan = <<>>
    BY <2>1 DEF OwnOps
  <2>2. CASE d.plan = write_item(e.wr, Len(g[e.wr].items) + 1, e.key, e.val, e.fill)
    <3>1. PICK i, p : i = Len(g[e.wr].items) + 1 /\ p = d.plan
      OBVIOUS
    <3>2. i \in Nat
      BY <1>1, <3>1, SectorIs
    <3>3. p = write_item(e.wr, i, e.key, e.val, e.fill)
      BY <2>2, <3>1
    <3>4. WriteOps(p, e.key, e.val)
      BY <1>1, <3>2, <3>3, WriteVals
    <3>5. \A w \in KV!Written(e.val) : w \in OwnRange(e, st)
      BY <1>4, ResidueHas DEF OwnRange
    <3> QED BY <3>1, <3>4, <3>5 DEF WriteOps, OwnOps
  <2> QED BY <2>1, <2>2, WriteNewIs
<1>6. OwnRange(d, st) = OwnRange(e, st)
  BY <1>2, RangeSame
<1>7. OwnVals(g[d.wr].items, d.plan, d.key, OwnRange(d, st))
  BY <1>2, <1>5, <1>6 DEF OwnVals, OwnOps
<1> QED BY <1>1, <1>3, <1>7 DEF SetSafe

(* The sector is full: a set turns to the other one.                       *)
LEMMA CompactingSafe ==
  ASSUME build \in Builds, NEW g, FlashOK(g), NEW st, NEW lf, NEW e \in Calls,
         e.kind = "set", NEW s \in Sectors, e.act = s, Settled(g, s),
         Content(g, Other(s)) \in {lf, Nothing}, s = 0 => e.moves,
         NEW d, d = Compacting(e), Ran(g, e, d, st)
  PROVE  SetSafe(g, d, st, lf)
<1>1. PICK w, p : w = Other(s) /\ p = compact_prepare(1 - e.act)
  OBVIOUS
<1>2. w \in Sectors /\ 1 - e.act = w /\ 1 - w = s
  BY <1>1, Opposite
<1>3. d.wr = w /\ d.next = "copy" /\ d.plan = p /\ d.moves = e.moves /\ d.key = e.key
  BY <1>1, <1>2, CallType DEF Compacting
<1>4. PlanParts(p, g[s].items)
  <2>1. p = compact_prepare(w)
    BY <1>1, <1>2
  <2>2. Preparing(g, p, w)
    BY <1>2, <2>1, PreparePlan
  <2> QED BY <1>2, <2>2, PrepareNoItems
<1>5. CallOK(g, d, st) /\ d.kind = "set"
  BY DEF Ran, Same
<1>6. Fresh(g[s].items, d.key) /\ Keeps(g[s].items, d, st)
  <2>1. Source(g, d, st)
    BY <1>3, <1>5, CopiesFrom
  <2> QED BY <1>2, <1>3, <1>5, <2>1 DEF Source
<1>7. s = 0 => d.moves
  BY <1>3
<1>8. g[s].ver = NORCOW_VERSION /\ ActiveSector(g) = s
  BY DEF Settled
<1>9. Content(g, w) \in {lf, Nothing}
  BY <1>1
<1>10. Moves(d)
  BY <1>3 DEF Moves
<1>11. 1 - d.wr = s
  BY <1>2, <1>3
<1> QED BY <1>3, <1>4, <1>6, <1>7, <1>8, <1>9, <1>10, <1>11 DEF SetSafe

(* A set or delete programs its own item.                                  *)
LEMMA LocalStepSafe ==
  ASSUME build \in Builds, NEW f, FlashOK(f), ZeroEmpty(f), NEW st, NEW lf,
         NEW c \in Calls, Asks(c), Local(f, c, st), c.plan # <<>>,
         SetSafe(f, c, st, lf),
         NEW g, g = ApplyOp(f, Head(c.plan)),
         NEW d, d = Resume(g, Advance(c))
  PROVE  ZeroEmpty(g) /\ SetSafe(g, d, st, lf)
<1> DEFINE s == c.wr
           items == f[s].items
           more == g[s].items
           q == c.plan
<1>1. /\ s \in Sectors /\ c.act = s /\ Settled(f, s) /\ 1 - c.wr = Other(s)
      /\ c.next \in {"compact", "write", "return"}
      /\ c.kind \in {"set", "delete"} /\ q \in Seq(FlashOps)
      /\ c.next # "return" => c.kind = "set"
  <2>1. c.kind \in {"set", "delete", "wipe", "init"} /\ c.wr \in Sectors
        /\ c.plan \in Seq(FlashOps)
    BY CallType
  <2> QED BY <2>1, Opposite DEF Local
<1>2. PICK i : Writing(f, q, s, i)
  BY <1>1 DEF Local, OwnItem
<1>3. FlashOK(g) /\ Ran(g, c, d, st)
  BY LocalStep
<1>4. Stepped(f, g, q, s, i)
  <2>1. g = ApplyOp(f, Head(q))
    OBVIOUS
  <2> HIDE DEF q, s
  <2> QED BY <1>1, <1>2, <2>1, WriteStep
<1>5. ~Moves(c)
  BY <1>1, LocalStays
<1>6. /\ OwnVals(items, q, c.key, OwnRange(c, st))
      /\ Content(f, Other(s)) \in {lf, Nothing}
      /\ c.next = "compact" /\ c.act = 0 => c.moves
  BY <1>1, <1>5 DEF SetSafe
<1>7. PICK e : e = Advance(c)
  OBVIOUS
<1>8. /\ e \in Calls /\ Same(c, e) /\ e.plan = Tail(q) /\ e.next = c.next
      /\ e.act = s /\ e.wr = s /\ e.kind = c.kind /\ e.key = c.key
      /\ e.moves = c.moves /\ Asks(e)
  BY <1>1, <1>7, TailCall, AdvanceMoves, AsksSame DEF Become, Same
<1>9. d = Resume(g, e) /\ Ran(g, e, d, st)
  BY <1>3, <1>7, <1>8 DEF Ran, Same
<1>10. g[Other(s)] = f[Other(s)] /\ g[s].ver = f[s].ver
  BY <1>4 DEF Stepped
<1>11. Content(g, Other(s)) \in {lf, Nothing}
  BY <1>6, <1>10, ContentSame
<1>12. Settled(g, s)
  <2>1. \A t \in Sectors : g[t].ver = f[t].ver
    BY <1>1, <1>10, Opposite
  <2> QED BY <1>1, <2>1, SettledSame DEF Sectors
<1>13. ZeroEmpty(g)
  <2>1. g[s].ver # 0
    BY <1>12, NorcowAssumption DEF Settled
  <2> QED BY <1>1, <1>10, <2>1, EmptyStays
<1>14. /\ Head(q) = q[1] /\ 1 \in DOMAIN q /\ ItemOp(Head(q))
       /\ \A n \in DOMAIN Tail(q) : n + 1 \in DOMAIN q /\ Tail(q)[n] = q[n + 1]
  <2>1. /\ Head(q) = q[1] /\ Len(q) \in Nat \ {0} /\ Len(Tail(q)) = Len(q) - 1
        /\ Tail(q) \in Seq(FlashOps)
        /\ \A n \in 1..(Len(q) - 1) : Tail(q)[n] = q[n + 1]
    BY <1>1, SeqTail
  <2>2. DOMAIN q = 1..Len(q) /\ DOMAIN Tail(q) = 1..(Len(q) - 1)
    BY <1>1, <2>1, LenProperties
  <2>3. ItemOp(Head(q))
    BY <1>2 DEF Writing, ItemOp
  <2> QED BY <2>1, <2>2, <2>3
<1>15. OwnVals(more, Tail(q), c.key, OwnRange(c, st))
  <2> DEFINE R == OwnRange(c, st)
             k == c.key
  <2>1. /\ \A j \in DOMAIN items : items[j].key = k => items[j].val \in R
        /\ \A n \in DOMAIN q : ItemOp(q[n]) /\ q[n].item.key = k => q[n].item.val \in R
    BY <1>6 DEF OwnVals
  <2>2. /\ DOMAIN more = DOMAIN items \cup {i} /\ more[i] = Head(q).item
        /\ \A j \in DOMAIN items : j # i => more[j] = items[j]
    BY <1>4 DEF Stepped
  <2> HIDE DEF R, k, items, more, q
  <2>3. \A j \in DOMAIN more : more[j].key = k => more[j].val \in R
    BY <1>14, <2>1, <2>2
  <2>4. \A n \in DOMAIN Tail(q) :
          ItemOp(Tail(q)[n]) /\ Tail(q)[n].item.key = k => Tail(q)[n].item.val \in R
    BY <1>14, <2>1
  <2> QED BY <2>3, <2>4 DEF OwnVals, R, k
<1>16. OwnVals(g[e.wr].items, e.plan, e.key, OwnRange(e, st))
  <2>1. OwnRange(e, st) = OwnRange(c, st)
    BY <1>8, RangeSame
  <2> QED BY <1>8, <1>15, <2>1
<1> HIDE DEF s, items, more, q
<1>17. CASE e.plan # <<>> \/ e.next = "return"
  <2>1. d = e
    BY <1>9, <1>17, ResumeLater
  <2>2. ~Moves(e)
    <3>1. CASE e.plan = <<>>
      BY <1>8, <1>17, <3>1 DEF Moves
    <3>2. CASE e.plan # <<>>
      <4>1. Writing(g, Tail(q), s, i)
        BY <1>4, <1>8, <3>2 DEF Stepped
      <4>2. Head(e.plan).op \in {"put", "append"}
        BY <1>8, <4>1 DEF Writing
      <4> QED BY <1>1, <1>8, <4>2 DEF Moves
    <3> QED BY <3>1, <3>2
  <2>3. 1 - e.wr = Other(s)
    BY <1>1, <1>8 DEF s
  <2>4. SetSafe(g, e, st, lf)
    BY <1>1, <1>6, <1>8, <1>11, <1>16, <2>2, <2>3 DEF SetSafe
  <2> QED BY <1>13, <2>1, <2>4
<1>18. CASE e.plan = <<>> /\ e.next = "write"
  <2>1. d = WriteNew(g, e)
    BY <1>9, <1>18, ResumeWrite
  <2>2. d.wr = e.wr /\ d.next = "return"
    BY <1>8, <2>1, CallType DEF WriteNew
  <2>3. e.kind = "set"
    BY <1>1, <1>8, <1>18
  <2>4. Content(g, Other(e.wr)) \in {lf, Nothing}
    BY <1>8, <1>11
  <2>5. SetSafe(g, d, st, lf)
    BY <1>3, <1>8, <1>9, <1>16, <2>1, <2>2, <2>3, <2>4, WriteNewSafe
  <2> QED BY <1>13, <2>5
<1>19. CASE e.plan = <<>> /\ e.next = "compact"
  <2>1. d = Compacting(e)
    BY <1>9, <1>19, ResumeCompact
  <2>2. e.kind = "set"
    BY <1>1, <1>8, <1>19
  <2>3. Content(g, Other(s)) \in {lf, Nothing} /\ e.act = s
    BY <1>8, <1>11
  <2>4. s = 0 => e.moves
    BY <1>1, <1>6, <1>8, <1>19
  <2>5. SetSafe(g, d, st, lf)
    BY <1>1, <1>3, <1>8, <1>9, <1>12, <2>1, <2>2, <2>3, <2>4, CompactingSafe
  <2> QED BY <1>13, <2>5
<1> QED BY <1>1, <1>8, <1>17, <1>18, <1>19

(* One turn of compact programs parts of the items it copies.              *)
LEMMA TurnParts ==
  ASSUME build \in Builds, NEW g, FlashOK(g), NEW e \in Calls, e.next = "copy",
         NEW s, s = e.wr, NEW a, a = Other(s), NEW d, d = compact(g, e)
  PROVE  /\ d.wr = s /\ d.moves = e.moves /\ PlanParts(d.plan, g[a].items)
         /\ d.next # "copy" => d.plan = <<Erase(a)>>
<1>1. s \in Sectors /\ a \in Sectors /\ 1 - e.wr = a
  BY CallType, Opposite
<1>2. PICK from : from = g[a].items
  OBVIOUS
<1>3. d.moves = e.moves /\ d.wr = e.wr /\ CopyTurn(g, e, d, from)
  <2>1. from = g[1 - e.wr].items
    BY <1>1, <1>2
  <2> QED BY <2>1, CompactIs
<1>4. CASE d.plan = erase_sector(1 - e.wr, FALSE) /\ d.next # "copy"
  <2>1. d.plan = <<Erase(a)>>
    BY <1>1, <1>4, EraseSectorIs
  <2>2. \A n \in DOMAIN d.plan : d.plan[n] = Erase(a)
    BY <2>1
  <2>3. PlanParts(d.plan, from)
    BY <2>2, NoItems, Zenon
  <2> QED BY <1>2, <1>3, <2>1, <2>3
<1>5. CASE /\ Alive(from, e.pos) # {} /\ d.next = e.next
           /\ d.plan = write_item(e.wr, Len(g[e.wr].items) + 1,
                                  from[Min(Alive(from, e.pos))].key,
                                  from[Min(Alive(from, e.pos))].val, TRUE)
  <2>1. PICK i : i = Min(Alive(from, e.pos))
    OBVIOUS
  <2>2. /\ SectorOK(g[a]) /\ from \in Seq(Items) /\ DOMAIN from = 1..Len(from)
        /\ Len(from) \in Nat /\ \A j \in 1..Len(from) : from[j] \in Items
    BY <1>1, <1>2, SectorIs
  <2>3. i \in Alive(from, e.pos)
    <3>1. Alive(from, e.pos) \subseteq Nat
      BY <2>2 DEF Alive
    <3> QED BY <1>5, <2>1, <3>1, MinIs
  <2>4. i \in DOMAIN from /\ from[i].key # NORCOW_KEY_DELETED
    BY <2>3 DEF Alive
  <2>5. from[i].key \in Keys /\ from[i].val \in Value
    <3>1. HasValue(from[i])
      BY <1>2, <2>2, <2>4 DEF SectorOK
    <3> QED BY <2>2, <2>4, <3>1, LiveItem
  <2>6. PICK k, v, fill, l, q :
          /\ k = from[i].key /\ v = from[i].val /\ fill = TRUE
          /\ l = Len(g[e.wr].items) + 1 /\ q = d.plan
    OBVIOUS
  <2>7. q = write_item(s, l, k, v, fill)
    BY <1>5, <2>1, <2>6
  <2>8. l \in Nat /\ k \in Keys /\ v \in Value /\ fill \in BOOLEAN
    BY <1>1, <2>5, <2>6, SectorIs
  <2>9. WriteOps(q, k, v)
    BY <1>1, <2>7, <2>8, WriteVals
  <2>10. PlanParts(q, from)
    BY <2>4, <2>6, <2>9 DEF WriteOps, PlanParts, PartItem
  <2>11. d.next # "copy" => d.plan = <<Erase(a)>>
    BY <1>5
  <2> QED BY <1>2, <1>3, <2>6, <2>10, <2>11
<1> QED BY <1>3, <1>4, <1>5 DEF CopyTurn

LEMMA PrepareEmpties ==
  ASSUME build \in Builds, NEW f, FlashOK(f), NEW s \in Sectors,
         NEW q, Preparing(f, q, s), NEW g, g = ApplyOp(f, Head(q))
  PROVE  g[s].items = <<>> /\ g[s].ver \in {NO_MAGIC, 0, NORCOW_VERSION}
<1> DEFINE e == Erase(s)
           h == Header(s, 0)
           v == Header(s, NORCOW_VERSION)
<1>1. CASE q = erase_sector(s, TRUE)
  <2>1. q = <<e, h, v>> \/ q = <<e, v>>
    BY <1>1, EraseSectorIs, BuildType
  <2> HIDE DEF e, h, v
  <2>2. Head(q) = e
    BY <2>1
  <2>3. g[s] = Erased
    BY <2>2, EraseStep DEF e
  <2> QED BY <2>3 DEF Erased
<1>2. CASE q = <<h, v>> /\ f[s] = Erased
  <2> HIDE DEF e, h, v
  <2>1. Head(q) = h
    BY <1>2
  <2>2. f[s].items = <<>> /\ f[s].ver \in {NO_MAGIC, 0}
    BY <1>2 DEF Erased
  <2>3. g[s] = [ver |-> 0, items |-> <<>>]
    BY <2>1, <2>2, HeaderStep DEF h
  <2> QED BY <2>3
<1>3. CASE q = <<v>> /\ f[s].ver \in {NO_MAGIC, 0} /\ f[s].items = <<>>
  <2> HIDE DEF e, h, v
  <2>1. Head(q) = v
    BY <1>3
  <2>2. g[s] = [ver |-> NORCOW_VERSION, items |-> <<>>]
    BY <1>3, <2>1, HeaderStep DEF v
  <2> QED BY <2>2
<1> QED BY <1>1, <1>2, <1>3 DEF Preparing

(* After a step of a move the new sector holds parts of the old one.       *)
Partial(f, g, c, d, s, a) ==
  /\ g[a] = f[a] /\ Parts(g[s].items, g[a].items)
  /\ \/ g[s].ver = NORCOW_VERSION
     \/ g[s].ver \in {NO_MAGIC, 0} /\ g[s].items = <<>>
  /\ d.wr = s /\ d.moves = c.moves /\ PlanParts(d.plan, g[a].items)
  /\ d.next # "copy" => d.plan = <<Erase(a)>>

LEMMA MovingParts ==
  ASSUME build \in Builds, NEW f, FlashOK(f), NEW st,
         NEW c \in Calls, Asks(c), Moving(f, c, st),
         NEW s, s = c.wr, NEW a, a = Other(s),
         NEW g, g = ApplyOp(f, Head(c.plan)),
         NEW d, d = Resume(g, Advance(c))
  PROVE  Partial(f, g, c, d, s, a)
<1>1. /\ s \in Sectors /\ a \in Sectors /\ Preparing(f, c.plan, s) /\ c.next = "copy"
  BY CallType, Opposite DEF Moving, Source
<1>2. PICK q : q = c.plan
  OBVIOUS
<1>3. /\ q \in Seq(FlashOps) /\ q # <<>> /\ FlashOK(g) /\ g[a] = f[a]
      /\ Tail(q) # <<>> => Preparing(g, Tail(q), s)
      /\ Tail(q) = <<>> => g[s] = [ver |-> NORCOW_VERSION, items |-> <<>>]
  <2>1. Preparing(f, q, s) /\ g = ApplyOp(f, Head(q))
    BY <1>1, <1>2
  <2>2. g[Other(s)] = f[Other(s)]
    BY <1>1, <2>1, PrepareStep
  <2>3. q \in Seq(FlashOps) /\ q # <<>> /\ FlashOK(g)
    BY <1>1, <2>1, PrepareStep
  <2>4. Tail(q) # <<>> => Preparing(g, Tail(q), s)
    BY <1>1, <2>1, PrepareStep
  <2>5. Tail(q) = <<>> => g[s] = [ver |-> NORCOW_VERSION, items |-> <<>>]
    BY <1>1, <2>1, PrepareStep
  <2> QED BY <2>2, <2>3, <2>4, <2>5
<1>4. g[s].items = <<>> /\ g[s].ver \in {NO_MAGIC, 0, NORCOW_VERSION}
  BY <1>1, <1>2, PrepareEmpties
<1>5. Parts(g[s].items, g[a].items)
  BY <1>4 DEF Parts
<1>6. PICK e : e = Advance(c)
  OBVIOUS
<1>7. /\ e \in Calls /\ e.plan = Tail(q) /\ e.next = "copy" /\ e.wr = s
      /\ e.moves = c.moves
  <2>1. c.plan # <<>>
    BY <1>2, <1>3
  <2>2. Become(c, e, Tail(c.plan), c.next, c.pos, c.act, c.wr, c.fr)
    BY <1>6, <2>1, TailCall
  <2>3. e.moves = c.moves
    BY <1>6, AdvanceMoves
  <2> QED BY <1>1, <1>2, <2>2, <2>3 DEF Become
<1>8. d = Resume(g, e)
  BY <1>6
<1>9. CASE Tail(q) # <<>>
  <2>1. d = e
    BY <1>7, <1>8, <1>9, ResumeLater
  <2>2. PlanParts(e.plan, g[a].items)
    <3>1. PICK p : p = Tail(q)
      OBVIOUS
    <3>2. Preparing(g, p, s)
      BY <1>3, <1>9, <3>1
    <3>3. PlanParts(p, g[a].items)
      BY <1>1, <3>2, PrepareNoItems
    <3> QED BY <1>7, <3>1, <3>3
  <2> QED BY <1>3, <1>4, <1>5, <1>7, <2>1, <2>2 DEF Partial
<1>10. CASE Tail(q) = <<>>
  <2>1. d = compact(g, e)
    BY <1>7, <1>8, <1>10, ResumeCopy
  <2>2. /\ d.wr = s /\ d.moves = e.moves /\ PlanParts(d.plan, g[a].items)
        /\ d.next # "copy" => d.plan = <<Erase(a)>>
    BY <1>3, <1>7, <2>1, TurnParts
  <2> QED BY <1>3, <1>4, <1>5, <1>7, <2>2 DEF Partial
<1> QED BY <1>9, <1>10

LEMMA CopyingParts ==
  ASSUME build \in Builds, NEW f, FlashOK(f), NEW st,
         NEW c \in Calls, Asks(c), Copying(f, c, st),
         NEW s, s = c.wr, NEW a, a = Other(s), PlanParts(c.plan, f[a].items),
         NEW g, g = ApplyOp(f, Head(c.plan)),
         NEW d, d = Resume(g, Advance(c))
  PROVE  Partial(f, g, c, d, s, a)
<1>1. /\ s \in Sectors /\ a \in Sectors /\ 1 - c.wr = a /\ c.plan \in Seq(FlashOps)
      /\ c.pos \in Nat
  BY CallType, Opposite
<1>2. PICK q, from, to, n : /\ q = c.plan /\ from = f[a].items /\ to = f[s].items
                            /\ n = c.pos - 1
  OBVIOUS
<1>3. /\ f[s].ver = NORCOW_VERSION /\ n \in DOMAIN from /\ c.next = "copy"
  BY <1>1, <1>2 DEF Copying, Source
<1>4. PICK i : Writing(f, q, s, i) /\ CopiedTo(from, to, n, i)
  BY <1>1, <1>2 DEF Copying
<1>5. Stepped(f, g, q, s, i) /\ q \in Seq(FlashOps)
  BY <1>1, <1>2, <1>4, WriteStep
<1>6. PICK more : more = g[s].items
  OBVIOUS
<1>7. /\ FlashOK(g) /\ g[a] = f[a] /\ g[s].ver = f[s].ver
      /\ DOMAIN more = DOMAIN to \cup {i} /\ more[i] = Head(q).item
      /\ \A j \in DOMAIN to : j # i => more[j] = to[j]
  BY <1>2, <1>5, <1>6 DEF Stepped
<1>8. /\ Head(q) = q[1] /\ 1 \in DOMAIN q /\ ItemOp(Head(q)) /\ q # <<>>
      /\ \A l \in DOMAIN Tail(q) : l + 1 \in DOMAIN q /\ Tail(q)[l] = q[l + 1]
  <2>0. q # <<>>
    BY <1>4 DEF Writing
  <2>1. /\ Head(q) = q[1] /\ Len(q) \in Nat \ {0} /\ Len(Tail(q)) = Len(q) - 1
        /\ Tail(q) \in Seq(FlashOps)
        /\ \A l \in 1..(Len(q) - 1) : Tail(q)[l] = q[l + 1]
    BY <1>5, <2>0, SeqTail
  <2>2. DOMAIN q = 1..Len(q) /\ DOMAIN Tail(q) = 1..(Len(q) - 1)
    BY <1>5, <2>1, LenProperties
  <2>3. ItemOp(Head(q))
    BY <1>4 DEF Writing, ItemOp
  <2> QED BY <2>0, <2>1, <2>2, <2>3
<1>9. \A l \in DOMAIN q : ItemOp(q[l]) => PartItem(q[l].item, from)
  BY <1>2 DEF PlanParts
<1>10. ASSUME NEW p \in 1..(n - 1), from[p].key # NORCOW_KEY_DELETED
       PROVE  PartItem(from[p], from)
  <2>1. /\ SectorOK(f[a]) /\ DOMAIN from = 1..Len(from) /\ Len(from) \in Nat
        /\ \A j \in 1..Len(from) : from[j] \in Items
    BY <1>1, <1>2, SectorIs
  <2>2. p \in DOMAIN from
    BY <1>3, <2>1
  <2>3. HasValue(from[p])
    BY <1>2, <2>1, <2>2 DEF SectorOK
  <2>4. from[p].val \in Value
    BY <1>10, <2>3 DEF HasValue
  <2> QED BY <2>2, <2>4, WrittenWhole DEF PartItem
<1>11. Parts(more, from)
  <2> SUFFICES ASSUME NEW j \in DOMAIN more, more[j].key # NORCOW_KEY_DELETED
               PROVE  PartItem(more[j], from)
    BY DEF Parts
  <2>1. CASE j = i
    BY <1>7, <1>8, <1>9, <2>1
  <2>2. CASE j # i
    <3>1. j \in DOMAIN to /\ more[j] = to[j]
      BY <1>7, <2>2
    <3>2. PICK p \in 1..(n - 1) : to[j] = from[p]
      BY <1>4, <2>2, <3>1 DEF CopiedTo
    <3> QED BY <1>10, <3>1, <3>2
  <2> QED BY <2>1, <2>2
<1>12. Parts(g[s].items, g[a].items) /\ g[s].ver = NORCOW_VERSION
  BY <1>2, <1>3, <1>6, <1>7, <1>11
<1>13. PICK e : e = Advance(c)
  OBVIOUS
<1>14. /\ e \in Calls /\ e.plan = Tail(q) /\ e.next = "copy" /\ e.wr = s
       /\ e.moves = c.moves
  <2>1. c.plan # <<>>
    BY <1>2, <1>8
  <2>2. Become(c, e, Tail(c.plan), c.next, c.pos, c.act, c.wr, c.fr)
    BY <1>13, <2>1, TailCall
  <2>3. e.moves = c.moves
    BY <1>13, AdvanceMoves
  <2> QED BY <1>2, <1>3, <2>2, <2>3 DEF Become
<1>15. d = Resume(g, e)
  BY <1>13
<1>16. CASE Tail(q) # <<>>
  <2>1. d = e
    BY <1>14, <1>15, <1>16, ResumeLater
  <2>2. PlanParts(Tail(q), from)
    BY <1>8, <1>9 DEF PlanParts
  <2>3. PlanParts(e.plan, g[a].items)
    BY <1>2, <1>7, <1>14, <2>2
  <2>4. /\ d.wr = s /\ d.moves = c.moves /\ PlanParts(d.plan, g[a].items)
        /\ d.next = "copy"
    BY <1>14, <2>1, <2>3
  <2>5. g[a] = f[a]
    BY <1>7
  <2> QED BY <1>12, <2>4, <2>5, Zenon DEF Partial
<1>17. CASE Tail(q) = <<>>
  <2>1. d = compact(g, e)
    BY <1>14, <1>15, <1>17, ResumeCopy
  <2>2. /\ d.wr = s /\ d.moves = e.moves /\ PlanParts(d.plan, g[a].items)
        /\ d.next # "copy" => d.plan = <<Erase(a)>>
    BY <1>7, <1>14, <2>1, TurnParts
  <2>3. d.moves = c.moves
    BY <1>14, <2>2
  <2>4. g[a] = f[a]
    BY <1>7
  <2> QED BY <1>12, <2>2, <2>3, <2>4, Zenon DEF Partial
<1> QED BY <1>16, <1>17

LEMMA CopyHasPlan ==
  ASSUME build \in Builds, NEW f, FlashOK(f), NEW st, NEW c, CallOK(f, c, st),
         c.next = "copy"
  PROVE  c.plan # <<>>
<1>1. c \in Calls /\ (Moving(f, c, st) \/ Copying(f, c, st))
  BY CopiesFrom DEF CallOK
<1>2. CASE Moving(f, c, st)
  <2>1. PICK s, q : s = c.wr /\ q = c.plan
    OBVIOUS
  <2>2. s \in Sectors /\ Preparing(f, q, s)
    BY <1>1, <1>2, <2>1, CallType DEF Moving
  <2>3. PICK g : g = ApplyOp(f, Head(q))
    OBVIOUS
  <2>4. q # <<>>
    BY <2>2, <2>3, PrepareStep
  <2> QED BY <2>1, <2>4
<1>3. CASE Copying(f, c, st)
  BY <1>3 DEF Copying, Writing
<1> QED BY <1>1, <1>2, <1>3

(* One flash operation of a move.                                          *)
LEMMA CopyStep ==
  ASSUME build \in Builds, NEW f, FlashOK(f), NEW st, NEW c, CallOK(f, c, st),
         c.next = "copy", NEW s, s = c.wr, NEW a, a = Other(s),
         PlanParts(c.plan, f[a].items),
         NEW g, g = ApplyOp(f, Head(c.plan)),
         NEW d, d = Resume(g, Advance(c))
  PROVE  /\ c.plan # <<>> /\ FlashOK(g) /\ Ran(g, c, d, st)
         /\ Partial(f, g, c, d, s, a)
<1>1. c \in Calls /\ Asks(c) /\ (Moving(f, c, st) \/ Copying(f, c, st))
  BY CopiesFrom DEF CallOK
<1>2. c.plan # <<>>
  BY CopyHasPlan
<1>3. FlashOK(g) /\ Ran(g, c, d, st)
  BY <1>2, StepOK
<1>4. CASE Moving(f, c, st)
  BY <1>1, <1>2, <1>3, <1>4, MovingParts
<1>5. CASE Copying(f, c, st)
  BY <1>1, <1>2, <1>3, <1>5, CopyingParts
<1> QED BY <1>1, <1>2, <1>3, <1>4, <1>5

LEMMA PartialIs ==
  ASSUME NEW f, FlashOK(f), NEW s \in Sectors, NEW a, a = Other(s), ZeroEmpty(f),
         NEW g, NEW c, NEW d, Partial(f, g, c, d, s, a)
  PROVE  /\ ZeroEmpty(g) /\ g[s].ver <= NORCOW_VERSION /\ 1 - d.wr = a
         /\ g[s].ver # NORCOW_VERSION => g[s].items = <<>>
         /\ Content(g, a) = Content(f, a)
         /\ d.next # "copy" => d.plan # <<>> /\ Len(d.plan) = 1 /\ Moves(d)
<1>1. NORCOW_VERSION \in Nat \ {0} /\ NO_MAGIC = -1
  BY NorcowAssumption DEF NO_MAGIC
<1>2. /\ g[a] = f[a] /\ d.wr = s
      /\ \/ g[s].ver = NORCOW_VERSION
         \/ g[s].ver \in {NO_MAGIC, 0} /\ g[s].items = <<>>
      /\ d.next # "copy" => d.plan = <<Erase(a)>>
  BY DEF Partial
<1>3. g[s].ver <= NORCOW_VERSION
  BY <1>1, <1>2
<1>4. g[s].ver = 0 => g[s].items = <<>>
  BY <1>1, <1>2
<1>5. ZeroEmpty(g)
  BY <1>2, <1>4, EmptyStays
<1>6. Content(g, a) = Content(f, a)
  BY <1>2, ContentSame
<1>7. 1 - d.wr = a
  BY <1>2, Opposite
<1>8. ASSUME d.next # "copy" PROVE d.plan # <<>> /\ Len(d.plan) = 1 /\ Moves(d)
  <2>1. PICK x : x = Erase(a)
    OBVIOUS
  <2>2. d.plan = <<x>> /\ x.op = "erase"
    BY <1>2, <1>8, <2>1 DEF Erase
  <2>3. d.plan # <<>> /\ Head(d.plan) = x /\ Len(d.plan) = 1
    BY <2>2
  <2> QED BY <2>2, <2>3 DEF Moves
<1> QED BY <1>2, <1>3, <1>5, <1>6, <1>7, <1>8

(* The set that moves the items: what its own item may read as.            *)
LEMMA SetCopySafe ==
  ASSUME build \in Builds, NEW f, FlashOK(f), ZeroEmpty(f), NEW st, NEW lf,
         NEW c, CallOK(f, c, st), c.next = "copy", c.kind = "set",
         SetSafe(f, c, st, lf),
         NEW g, g = ApplyOp(f, Head(c.plan)),
         NEW d, d = Resume(g, Advance(c))
  PROVE  ZeroEmpty(g) /\ SetSafe(g, d, st, lf)
<1>1. PICK s, a : s = c.wr /\ a = Other(s)
  OBVIOUS
<1>2. /\ c \in Calls /\ s \in Sectors /\ a \in Sectors /\ 1 - c.wr = a
  <2>1. c \in Calls
    BY DEF CallOK
  <2> QED BY <1>1, <2>1, CallType, Opposite
<1>3. Moves(c)
  BY DEF Moves
<1>4. /\ a = 0 => c.moves
      /\ f[a].ver = NORCOW_VERSION
      /\ Fresh(f[a].items, c.key) /\ Keeps(f[a].items, c, st)
      /\ PlanParts(c.plan, f[a].items)
  BY <1>2, <1>3 DEF SetSafe
<1>5. FlashOK(g) /\ Ran(g, c, d, st) /\ Partial(f, g, c, d, s, a)
  BY <1>1, <1>4, CopyStep
<1>6. /\ ZeroEmpty(g) /\ g[s].ver <= NORCOW_VERSION /\ 1 - d.wr = a
      /\ d.next # "copy" => d.plan # <<>> /\ Len(d.plan) = 1 /\ Moves(d)
  BY <1>1, <1>2, <1>5, PartialIs
<1>7. Moves(d)
  BY <1>6 DEF Moves
<1>8. CallOK(g, d, st) /\ d.kind = "set" /\ d.key = c.key
  BY <1>5 DEF Ran, Same
<1>9. /\ g[a] = f[a] /\ Parts(g[s].items, g[a].items) /\ d.wr = s
      /\ d.moves = c.moves /\ PlanParts(d.plan, g[a].items)
      /\ d.next # "copy" => d.plan = <<Erase(a)>>
  BY <1>5 DEF Partial
<1>10. ASSUME d.next # "copy"
       PROVE  OwnVals(g[d.wr].items, d.plan, d.key, OwnRange(d, st))
  <2>1. Moved(g, d, st)
    <3>1. ~Local(g, d, st)
      BY <1>7, <1>8, LocalStays
    <3>2. ~Moving(g, d, st) /\ ~Copying(g, d, st)
      BY <1>10 DEF Moving, Copying, Source
    <3>3. ~Wiping(g, d)
      BY <1>8 DEF Wiping
    <3> QED BY <1>8, <3>1, <3>2, <3>3 DEF CallOK
  <2>2. Fresh(g[d.wr].items, d.key)
    BY <1>8, <2>1 DEF Moved
  <2>3. PICK x : x = Erase(a)
    OBVIOUS
  <2>4. d.plan = <<x>> /\ ~ItemOp(x)
    BY <1>9, <1>10, <2>3 DEF Erase, ItemOp
  <2>5. \A n \in DOMAIN d.plan : ~ItemOp(d.plan[n])
    BY <2>4
  <2> QED BY <2>2, <2>5 DEF OwnVals, Fresh
<1>11. Fresh(g[a].items, d.key) /\ Keeps(g[a].items, d, st)
       /\ g[a].ver = NORCOW_VERSION
  BY <1>4, <1>8, <1>9 DEF Keeps
<1>12. a = 0 => d.moves
  BY <1>4, <1>9
<1>13. d.next # "compact"
  <2>1. CASE d.next = "copy"
    BY <2>1
  <2>2. CASE d.next # "copy"
    <3>1. d.next = "write"
      <4>1. ~Local(g, d, st)
        BY <1>7, <1>8, LocalStays
      <4>2. ~Moving(g, d, st) /\ ~Copying(g, d, st)
        BY <2>2 DEF Moving, Copying, Source
      <4>3. ~Wiping(g, d)
        BY <1>8 DEF Wiping
      <4>4. Moved(g, d, st)
        BY <1>8, <4>1, <4>2, <4>3 DEF CallOK
      <4> QED BY <1>8, <4>4 DEF Moved
    <3> QED BY <3>1
  <2> QED BY <2>1, <2>2
<1>14. /\ g[d.wr].ver <= NORCOW_VERSION /\ Parts(g[d.wr].items, g[1 - d.wr].items)
       /\ PlanParts(d.plan, g[1 - d.wr].items)
  BY <1>6, <1>9
<1>15. /\ 1 - d.wr = 0 => d.moves
       /\ g[1 - d.wr].ver = NORCOW_VERSION
       /\ Fresh(g[1 - d.wr].items, d.key) /\ Keeps(g[1 - d.wr].items, d, st)
  BY <1>6, <1>11, <1>12
<1> QED BY <1>6, <1>7, <1>10, <1>13, <1>14, <1>15 DEF SetSafe

(* The upgrade of a boot, item by item.                                    *)
LEMMA BootCopySafe ==
  ASSUME build \in Builds, NEW f, FlashOK(f), ZeroEmpty(f), NEW st, NEW lf, NEW p,
         NEW c, CallOK(f, c, st), c.next = "copy", c.kind = "init",
         BootSafe(f, c, p, st, lf),
         NEW g, g = ApplyOp(f, Head(c.plan)),
         NEW d, d = Resume(g, Advance(c))
  PROVE  ZeroEmpty(g) /\ BootSafe(g, d, p, st, lf)
<1>1. PICK s, a : s = c.wr /\ a = Other(s)
  OBVIOUS
<1>2. /\ c \in Calls /\ s \in Sectors /\ a \in Sectors /\ 1 - c.wr = a
  <2>1. c \in Calls
    BY DEF CallOK
  <2> QED BY <1>1, <2>1, CallType, Opposite
<1>3. c.plan # <<>> /\ c.moves
  BY CopyHasPlan DEF BootSafe
<1>4. /\ f[a].ver \in 0..(NORCOW_VERSION - 1)
      /\ Upgradable(p, st, lf, Content(f, a))
      /\ PlanParts(c.plan, f[a].items)
  BY <1>2, <1>3 DEF BootSafe
<1>5. FlashOK(g) /\ Ran(g, c, d, st) /\ Partial(f, g, c, d, s, a)
  BY <1>1, <1>4, CopyStep
<1>6. /\ ZeroEmpty(g) /\ g[s].ver <= NORCOW_VERSION /\ 1 - d.wr = a
      /\ g[s].ver # NORCOW_VERSION => g[s].items = <<>>
      /\ Content(g, a) = Content(f, a)
      /\ d.next # "copy" => d.plan # <<>> /\ Len(d.plan) = 1 /\ Moves(d)
  BY <1>1, <1>2, <1>5, PartialIs
<1>7. CallOK(g, d, st)
  BY <1>5 DEF Ran
<1>8. d.plan # <<>> /\ (d.next = "copy" \/ Len(d.plan) = 1)
  BY <1>5, <1>6, <1>7, CopyHasPlan
<1>9. /\ g[a] = f[a] /\ Parts(g[s].items, g[a].items) /\ d.wr = s
      /\ d.moves = c.moves /\ PlanParts(d.plan, g[a].items)
  BY <1>5 DEF Partial
<1>10. d.moves
  BY <1>3, <1>9
<1>11. /\ g[1 - d.wr].ver \in 0..(NORCOW_VERSION - 1)
       /\ Upgradable(p, st, lf, Content(g, 1 - d.wr))
       /\ PlanParts(d.plan, g[1 - d.wr].items)
  BY <1>4, <1>6, <1>9
<1>12. \/ g[d.wr].items = <<>> /\ g[d.wr].ver <= NORCOW_VERSION
       \/ /\ g[d.wr].ver = NORCOW_VERSION
          /\ Parts(g[d.wr].items, g[1 - d.wr].items)
  BY <1>6, <1>9
<1> QED BY <1>6, <1>8, <1>10, <1>11, <1>12 DEF BootSafe

(* The old sector, or what is left in the other one, is erased last.       *)
LEMMA LastErase ==
  ASSUME build \in Builds, NEW f, FlashOK(f), NEW g, FlashOK(g),
         NEW s \in Sectors, NEW a, a = Other(s), f[s].ver = NORCOW_VERSION,
         g[s] = f[s], g[a] = Erased, NEW p, NEW st, NEW lf,
         NEW c, c.wr = s, c.plan # <<>>, BootSafe(f, c, p, st, lf)
  PROVE  Bootable(g, p, st, lf)
<1>1. a \in Sectors /\ 1 - c.wr = a /\ a # s
  BY Opposite
<1>2. Content(g, s) = Content(f, s)
  BY ContentSame
<1>3. Content(g, a) = Nothing
  <2>1. g[a].items = <<>>
    BY DEF Erased
  <2> QED BY <1>1, <2>1, ContentIs
<1>4. Settled(g, s)
  BY SettledErased
<1>5. /\ f[s].ver \in Int /\ NORCOW_VERSION \in Nat \ {0} /\ NO_MAGIC = -1
      /\ f[a].ver \in Int
  BY <1>1, VersionType
<1>6. Allowed(p, st, lf, Content(f, s))
  <2>1. CASE c.moves
    <3>1. /\ f[a].ver \in 0..(NORCOW_VERSION - 1)
          /\ Upgradable(p, st, lf, Content(f, a))
          /\ \/ ActiveSector(f) = a
             \/ f[s].items = <<>>
             \/ Parts(f[s].items, f[a].items)
      BY <1>1, <2>1 DEF BootSafe
    <3>2. ActiveSector(f) = s
      BY <1>5, <3>1, ActiveNewer
    <3>3. Content(f, a) \in KV!Content /\ Content(f, s) \in KV!Content
      BY <1>1, ContentIs
    <3>4. CASE f[s].items = <<>>
      <4>1. Content(f, s) = Nothing
        BY <3>4, ContentIs
      <4>2. Allowed(p, st, lf, Nothing)
        BY <3>1, <3>3, UpgradeHas
      <4> QED BY <4>1, <4>2
    <3>5. CASE Parts(f[s].items, f[a].items)
      <4>1. f[a].ver # NO_MAGIC
        BY <1>5, <3>1
      <4>2. Pieces(Content(f, s), Content(f, a))
        BY <1>1, <3>5, <4>1, PartsContent
      <4> QED BY <3>1, <3>3, <4>2 DEF Upgradable
    <3> QED BY <1>1, <3>1, <3>2, <3>4, <3>5
  <2>2. CASE ~c.moves
    <3>1. f[a].ver = NO_MAGIC /\ Booted(f) = Nothing /\ Allowed(p, st, lf, Nothing)
      BY <1>1, <2>2 DEF BootSafe
    <3>2. ActiveSector(f) = s
      BY <1>5, <3>1, ActiveNewer
    <3>3. Booted(f) = Content(f, s)
      <4>1. f[s].ver <= NORCOW_VERSION
        BY <1>5
      <4> QED BY <3>2, <4>1, BootedIs
    <3> QED BY <3>1, <3>3
  <2> QED BY <2>1, <2>2
<1>7. Leftover(p, st, lf, Content(g, a))
  BY <1>3, NothingLeft
<1> QED BY <1>2, <1>4, <1>6, <1>7, SettledBoot

(* The old sector is erased: the move is over.                             *)
LEMMA MovedStepSafe ==
  ASSUME build \in Builds, NEW f, FlashOK(f), ZeroEmpty(f), NEW st, NEW lf, NEW p,
         NEW c \in Calls, Asks(c), Moved(f, c, st),
         CrashOK(f, c, p, st, lf),
         NEW g, g = ApplyOp(f, Head(c.plan)),
         NEW d, d = Resume(g, Advance(c))
  PROVE  ZeroEmpty(g) /\ CrashOK(g, d, p, st, lf)
<1>1. PICK s, a : s = c.wr /\ a = Other(s)
  OBVIOUS
<1>2. /\ s \in Sectors /\ a \in Sectors /\ 1 - c.wr = a /\ Other(a) = s /\ a # s
  BY <1>1, CallType, Opposite
<1>3. c.plan = <<Erase(a)>> /\ f[s].ver = NORCOW_VERSION
  BY <1>1, <1>2 DEF Moved
<1>4. c.plan # <<>> /\ Head(c.plan) = Erase(a) /\ Tail(c.plan) = <<>>
  BY <1>3, OneTail
<1>5. g[a] = Erased /\ g[s] = f[s]
  BY <1>2, <1>4, EraseStep
<1>6. FlashOK(g) /\ Ran(g, c, d, st)
  BY MovedStep
<1>7. PICK e : e = Advance(c)
  OBVIOUS
<1>8. /\ e \in Calls /\ Same(c, e) /\ e.plan = <<>> /\ e.next = c.next /\ e.wr = s
      /\ e.kind = c.kind /\ e.key = c.key
  BY <1>1, <1>4, <1>7, TailCall DEF Become, Same
<1>9. d = Resume(g, e) /\ Asks(e)
  BY <1>7, <1>8, AsksSame
<1>10. ZeroEmpty(g)
  <2>1. g[a].ver # 0
    BY <1>5 DEF Erased, NO_MAGIC
  <2>2. g[Other(a)] = f[Other(a)]
    BY <1>2, <1>5
  <2> QED BY <1>2, <2>1, <2>2, EmptyStays
<1>11. CASE c.kind = "init" /\ c.next = "return"
  <2>1. d = e
    BY <1>8, <1>9, <1>11, ResumeLater
  <2>2. BootSafe(f, c, p, st, lf)
    BY <1>11 DEF CrashOK
  <2>3. Bootable(g, p, st, lf)
    BY <1>1, <1>2, <1>3, <1>4, <1>5, <1>6, <2>2, LastErase
  <2>4. BootSafe(g, e, p, st, lf)
    BY <1>8, <1>11, <2>3 DEF BootSafe
  <2> QED BY <1>8, <1>10, <1>11, <2>1, <2>4 DEF CrashOK
<1>12. CASE c.kind = "set" /\ c.next = "write" /\ Fresh(f[s].items, c.key)
  <2>1. d = WriteNew(g, e)
    BY <1>8, <1>9, <1>12, ResumeWrite
  <2>2. PICK q : q = <<>>
    OBVIOUS
  <2>3. OwnVals(g[e.wr].items, q, e.key, OwnRange(e, st))
    <3>1. Fresh(g[e.wr].items, e.key)
      BY <1>5, <1>8, <1>12
    <3>2. DOMAIN q = {}
      BY <2>2
    <3> QED BY <3>1, <3>2 DEF OwnVals, Fresh
  <2>4. Content(g, Other(e.wr)) \in {lf, Nothing}
    <3>1. g[a].items = <<>>
      BY <1>5 DEF Erased
    <3>2. Content(g, a) = Nothing
      BY <1>2, <1>6, <3>1, ContentIs
    <3> QED BY <1>1, <1>8, <3>2
  <2>5. Ran(g, e, d, st)
    BY <1>6, <1>8 DEF Ran, Same
  <2>6. d.wr = e.wr /\ d.next = "return"
    BY <1>8, <2>1, CallType DEF WriteNew
  <2>7. e.kind = "set"
    BY <1>8, <1>12
  <2>8. SetSafe(g, d, st, lf)
    BY <1>6, <1>8, <1>9, <2>1, <2>3, <2>4, <2>5, <2>6, <2>7, WriteNewSafe
  <2>9. d.kind = "set"
    BY <2>5, <2>7 DEF Ran, Same
  <2> QED BY <1>10, <2>8, <2>9 DEF CrashOK
<1> QED BY <1>1, <1>11, <1>12 DEF Moved

(* One flash operation of norcow_wipe on sector s; the other one is a.     *)
WipedBy(f, g, q, s, a) ==
  \/ /\ q # <<>> /\ Tail(q) # <<>> /\ Len(q) # 1 /\ g[a] = f[a]
     /\ g[s].items = <<>> /\ g[s].ver \in {NO_MAGIC, 0, NORCOW_VERSION}
  \/ /\ q # <<>> /\ Tail(q) = <<>> /\ g[a] = Erased /\ g[s] = f[s]
     /\ f[s] = [ver |-> NORCOW_VERSION, items |-> <<>>]

LEMMA WipeOp ==
  ASSUME build \in Builds, NEW f, FlashOK(f), NEW c \in Calls, Wiping(f, c),
         NEW s, s = c.wr, NEW a, a = Other(s), NEW q, q = c.plan,
         NEW g, g = ApplyOp(f, Head(q))
  PROVE  WipedBy(f, g, q, s, a)
<1> DEFINE h == Header(s, 0)
           v == Header(s, NORCOW_VERSION)
           x == Erase(a)
           e == Erase(s)
<1>1. /\ s \in Sectors /\ a \in Sectors /\ 1 - c.wr = a /\ Other(a) = s /\ 1 - s = a
      /\ q \in Seq(FlashOps)
  BY CallType, Opposite
<1>5. CASE q = norcow_wipe(s)
  <2>0. q = <<e, h, v, x>> \/ q = <<e, v, x>>
    BY <1>1, <1>5, WipePlan
  <2>1. q # <<>> /\ Head(q) = e /\ Tail(q) # <<>> /\ Len(q) # 1
    <3> HIDE DEF e, h, v, x
    <3>1. CASE q = <<e, h, v, x>>
      BY <3>1
    <3>2. CASE q = <<e, v, x>>
      BY <3>2
    <3> QED BY <2>0, <3>1, <3>2
  <2>2. g[s] = Erased /\ g[a] = f[a]
    BY <1>1, <2>1, EraseStep
  <2>3. g[s].ver = NO_MAGIC /\ g[s].items = <<>>
    BY <2>2 DEF Erased
  <2> QED BY <2>1, <2>2, <2>3 DEF WipedBy
<1>6. CASE q = <<h, v, x>> /\ f[s] = Erased
  <2>0. q # <<>> /\ Head(q) = h /\ Tail(q) # <<>> /\ Len(q) # 1
    <3> HIDE DEF h, v, x
    <3> QED BY <1>6
  <2>1. f[s].ver \in {NO_MAGIC, 0} /\ f[s].items = <<>>
    BY <1>6 DEF Erased
  <2>2. g[s] = [ver |-> 0, items |-> <<>>] /\ g[a] = f[a]
    BY <1>1, <2>0, <2>1, HeaderStep
  <2>3. g[s].ver = 0 /\ g[s].items = <<>>
    BY <2>2
  <2> QED BY <2>0, <2>2, <2>3 DEF WipedBy
<1>7. CASE q = <<v, x>> /\ f[s].ver \in {NO_MAGIC, 0} /\ f[s].items = <<>>
  <2>0. q # <<>> /\ Head(q) = v /\ Tail(q) # <<>> /\ Len(q) # 1
    <3> HIDE DEF h, v, x
    <3> QED BY <1>7
  <2>2. g[s] = [ver |-> NORCOW_VERSION, items |-> <<>>] /\ g[a] = f[a]
    BY <1>1, <1>7, <2>0, HeaderStep
  <2>3. g[s].ver = NORCOW_VERSION /\ g[s].items = <<>>
    BY <2>2
  <2> QED BY <2>0, <2>2, <2>3 DEF WipedBy
<1>8. CASE q = <<x>> /\ f[s] = [ver |-> NORCOW_VERSION, items |-> <<>>]
  <2>0. q # <<>> /\ Head(q) = x /\ Tail(q) = <<>>
    BY <1>8, OneTail
  <2>1. g[a] = Erased /\ g[s] = f[s]
    BY <1>1, <2>0, EraseStep
  <2> QED BY <1>8, <2>0, <2>1 DEF WipedBy
<1> QED BY <1>1, <1>5, <1>6, <1>7, <1>8 DEF Wiping

LEMMA WipingStepSafe ==
  ASSUME build \in Builds, NEW f, FlashOK(f), ZeroEmpty(f), NEW st, NEW lf, NEW p,
         NEW c \in Calls, Asks(c), Wiping(f, c),
         CrashOK(f, c, p, st, lf),
         NEW g, g = ApplyOp(f, Head(c.plan)),
         NEW d, d = Resume(g, Advance(c))
  PROVE  ZeroEmpty(g) /\ CrashOK(g, d, p, st, lf)
<1>1. PICK s, a, q : s = c.wr /\ a = Other(s) /\ q = c.plan
  OBVIOUS
<1>2. /\ s \in Sectors /\ a \in Sectors /\ 1 - c.wr = a /\ Other(a) = s /\ a # s
  BY <1>1, CallType, Opposite
<1>3. WipedBy(f, g, q, s, a)
  <2>1. g = ApplyOp(f, Head(q))
    BY <1>1
  <2> QED BY <1>1, <2>1, WipeOp
<1>4. FlashOK(g) /\ Ran(g, c, d, st)
  BY WipingStep
<1>5. /\ q # <<>> /\ c.next = "return" /\ c.kind \in {"init", "wipe"}
  BY <1>3 DEF WipedBy, Wiping
<1>6. PICK e : e = Advance(c)
  OBVIOUS
<1>7. /\ e \in Calls /\ e.plan = Tail(q) /\ e.next = "return" /\ e.wr = s
      /\ e.kind = c.kind /\ e.moves = c.moves
  <2>1. c.plan # <<>>
    BY <1>1, <1>5
  <2>2. Become(c, e, Tail(c.plan), c.next, c.pos, c.act, c.wr, c.fr)
    BY <1>6, <2>1, TailCall
  <2>3. e.moves = c.moves
    BY <1>6, AdvanceMoves
  <2> QED BY <1>1, <1>5, <2>2, <2>3 DEF Become, Same
<1>8. d = e
  <2>1. d = Resume(g, e)
    BY <1>6
  <2> QED BY <1>7, <2>1, ResumeLater
<1>9. 1 - e.wr = a
  BY <1>1, <1>2, <1>7
<1>10. NORCOW_VERSION \in Nat \ {0} /\ NO_MAGIC = -1
  BY NorcowAssumption DEF NO_MAGIC
<1>11. CASE /\ Tail(q) # <<>> /\ Len(q) # 1 /\ g[a] = f[a]
            /\ g[s].items = <<>> /\ g[s].ver \in {NO_MAGIC, 0, NORCOW_VERSION}
  <2>1. ZeroEmpty(g)
    <3>1. g[a] = f[a] /\ g[s].items = <<>>
      BY <1>11
    <3>2. \A t \in Sectors : t = s \/ t = a
      BY <1>1, <1>2, Opposite
    <3> QED BY <3>1, <3>2 DEF ZeroEmpty
  <2>2. Content(g, a) = Content(f, a) /\ Content(g, s) = Nothing
    BY <1>2, <1>4, <1>11, ContentSame, ContentIs
  <2>3. CASE c.kind = "wipe"
    <3>1. Content(f, a) = lf /\ f[a].ver <= NORCOW_VERSION
      BY <1>1, <1>2, <1>5, <2>3 DEF CrashOK, WipeSafe
    <3>2. g[s].ver <= NORCOW_VERSION
      BY <1>10, <1>11
    <3>3. WipeSafe(g, e, st, lf)
      BY <1>7, <1>9, <1>11, <2>2, <3>1, <3>2 DEF WipeSafe
    <3> QED BY <1>7, <1>8, <2>1, <2>3, <3>3 DEF CrashOK
  <2>4. CASE c.kind = "init"
    <3>1. BootSafe(f, c, p, st, lf)
      BY <2>4 DEF CrashOK
    <3>2. ~c.moves
      <4>1. c.plan # <<>> /\ c.next # "copy" /\ Len(c.plan) # 1
        BY <1>1, <1>5, <1>11
      <4> QED BY <3>1, <4>1 DEF BootSafe
    <3>3. f[a].ver = NO_MAGIC /\ Allowed(p, st, lf, Nothing)
      BY <1>1, <1>2, <1>5, <3>1, <3>2 DEF BootSafe
    <3>4. g[a].ver = NO_MAGIC
      BY <1>11, <3>3
    <3>5. Content(g, a) = Nothing
      BY <1>2, <1>4, <3>4, ContentIs
    <3>6. Booted(g) = Nothing
      <4>1. PICK b : b = ActiveSector(g)
        OBVIOUS
      <4>2. b = s \/ b = a
        BY <1>2, <1>4, <4>1, ActiveIs, Opposite
      <4>3. g[b].ver <= NORCOW_VERSION /\ Content(g, b) = Nothing
        BY <1>10, <1>11, <2>2, <3>4, <3>5, <4>2
      <4> QED BY <1>4, <4>1, <4>3, BootedIs
    <3>7. ~e.moves
      BY <1>7, <3>2
    <3>8. BootSafe(g, e, p, st, lf)
      BY <1>7, <1>9, <1>11, <3>3, <3>4, <3>6, <3>7 DEF BootSafe
    <3> QED BY <1>7, <1>8, <2>1, <2>4, <3>8 DEF CrashOK
  <2> QED BY <1>5, <2>3, <2>4
<1>12. CASE /\ Tail(q) = <<>> /\ g[a] = Erased /\ g[s] = f[s]
            /\ f[s] = [ver |-> NORCOW_VERSION, items |-> <<>>]
  <2>0. /\ g[a].ver = NO_MAGIC /\ g[a].items = <<>>
        /\ f[s].ver = NORCOW_VERSION /\ f[s].items = <<>>
    BY <1>12 DEF Erased
  <2>1. ZeroEmpty(g)
    <3>1. g[Other(a)] = f[Other(a)] /\ (g[a].ver = 0 => g[a].items = <<>>)
      BY <1>2, <1>12, <2>0
    <3> QED BY <1>2, <3>1, EmptyStays
  <2>2. Content(g, a) = Nothing /\ Content(g, s) = Nothing
    <3>1. g[s].items = <<>>
      BY <1>12, <2>0
    <3> QED BY <1>2, <1>4, <2>0, <3>1, ContentIs
  <2>3. CASE c.kind = "wipe"
    <3>1. WipeSafe(g, e, st, lf)
      BY <1>7, <1>9, <1>12, <2>2 DEF WipeSafe
    <3> QED BY <1>7, <1>8, <2>1, <2>3, <3>1 DEF CrashOK
  <2>4. CASE c.kind = "init"
    <3>1. BootSafe(f, c, p, st, lf)
      BY <2>4 DEF CrashOK
    <3>2. Bootable(g, p, st, lf)
      <4>1. c.wr = s /\ c.plan # <<>>
        BY <1>1, <1>5
      <4> QED BY <1>1, <1>2, <1>4, <1>12, <2>0, <3>1, <4>1, LastErase
    <3>3. BootSafe(g, e, p, st, lf)
      BY <1>7, <1>12, <3>2 DEF BootSafe
    <3> QED BY <1>7, <1>8, <2>1, <2>4, <3>3 DEF CrashOK
  <2> QED BY <1>5, <2>3, <2>4
<1> QED BY <1>3, <1>11, <1>12 DEF WipedBy

(* Every flash operation of a call, or of a boot, leaves the flash such    *)
(* that a power loss right after it is one the contract allows.            *)
LEMMA StepSafe ==
  ASSUME build \in Builds, NEW f, FlashOK(f), ZeroEmpty(f), NEW st, NEW lf, NEW p,
         NEW c, CallOK(f, c, st), CrashOK(f, c, p, st, lf), c.plan # <<>>,
         NEW g, g = ApplyOp(f, Head(c.plan)),
         NEW d, d = Resume(g, Advance(c))
  PROVE  ZeroEmpty(g) /\ CrashOK(g, d, p, st, lf) /\ Summary(d) = Summary(c)
<1>1. c \in Calls /\ Asks(c)
  BY DEF CallOK
<1>2. FlashOK(g) /\ Ran(g, c, d, st)
  BY StepOK
<1>3. d \in Calls /\ Same(c, d) /\ d.kind = c.kind
  BY <1>2 DEF Ran, CallOK, Same
<1>4. Summary(d) = Summary(c)
  <2>1. PICK e : e = Advance(c)
    OBVIOUS
  <2>2. e \in Calls /\ e.moves = c.moves
    BY <1>1, <2>1, TailCall, AdvanceMoves DEF Become
  <2>3. d = Resume(g, e)
    BY <2>1
  <2>4. d.moves = c.moves
    BY <2>2, <2>3, ResumeMoves
  <2>5. c # NONE /\ d # NONE
    BY <1>1, <1>3, NoneAssumption
  <2> QED BY <1>3, <2>4, <2>5 DEF Summary, Same
<1>5. CASE Local(f, c, st)
  <2>1. c.kind \in {"set", "delete"}
    BY <1>1, <1>5, CallType DEF Local
  <2>2. SetSafe(f, c, st, lf)
    BY <2>1 DEF CrashOK
  <2>3. ZeroEmpty(g) /\ SetSafe(g, d, st, lf)
    BY <1>1, <1>5, <2>2, LocalStepSafe
  <2> QED BY <1>3, <1>4, <2>1, <2>3 DEF CrashOK
<1>6. CASE Moving(f, c, st) \/ Copying(f, c, st)
  <2>1. c.next = "copy" /\ c.kind \in {"set", "init"}
    BY <1>6 DEF Moving, Copying, Source
  <2>2. CASE c.kind = "set"
    <3>1. SetSafe(f, c, st, lf)
      BY <2>2 DEF CrashOK
    <3>2. ZeroEmpty(g) /\ SetSafe(g, d, st, lf)
      BY <2>1, <2>2, <3>1, SetCopySafe
    <3> QED BY <1>3, <1>4, <2>2, <3>2 DEF CrashOK
  <2>3. CASE c.kind = "init"
    <3>1. BootSafe(f, c, p, st, lf)
      BY <2>3 DEF CrashOK
    <3>2. ZeroEmpty(g) /\ BootSafe(g, d, p, st, lf)
      BY <2>1, <2>3, <3>1, BootCopySafe
    <3> QED BY <1>3, <1>4, <2>3, <3>2 DEF CrashOK
  <2> QED BY <2>1, <2>2, <2>3
<1>7. CASE Moved(f, c, st)
  BY <1>1, <1>4, <1>7, MovedStepSafe
<1>8. CASE Wiping(f, c)
  BY <1>1, <1>4, <1>8, WipingStepSafe
<1> QED BY <1>5, <1>6, <1>7, <1>8 DEF CallOK

(* Whatever the call, and however far it got, the next boot ends in what   *)
(* the contract allows.                                                    *)
LEMMA SetBootable ==
  ASSUME build \in Builds, NEW f, FlashOK(f), NEW st \in KV!Content, NEW lf,
         NEW c, CallOK(f, c, st), c.kind \in {"set", "delete"},
         SetSafe(f, c, st, lf), NEW p, p = Summary(c)
  PROVE  Bootable(f, p, st, lf)
<1>1. c \in Calls /\ c.key \in Keys
  BY DEF CallOK, Asks
<1>2. PICK s, a : s = c.wr /\ a = Other(s)
  OBVIOUS
<1>3. s \in Sectors /\ a \in Sectors /\ 1 - c.wr = a
  BY <1>1, <1>2, CallType, Opposite
<1>4. CASE Moves(c)
  <2>1. c.kind = "set"
    <3>1. ~Local(f, c, st)
      BY <1>4, LocalStays
    <3> QED BY <3>1 DEF CallOK, Moving, Copying, Source, Moved, Wiping
  <2>2. /\ a = 0 => c.moves
        /\ f[a].ver = NORCOW_VERSION
        /\ Fresh(f[a].items, c.key) /\ Keeps(f[a].items, c, st)
        /\ \/ ActiveSector(f) = a /\ Content(f, s) \in {lf, Nothing}
           \/ f[s].ver <= NORCOW_VERSION /\ Parts(f[s].items, f[a].items)
    BY <1>2, <1>3, <1>4 DEF SetSafe
  <2> QED BY <1>1, <1>2, <2>1, <2>2, MoveBoot
<1>5. CASE ~Moves(c)
  <2>1. ~Moving(f, c, st) /\ ~Copying(f, c, st)
    BY <1>5 DEF Moving, Copying, Source, Moves
  <2>2. ~Moved(f, c, st)
    <3>1. ASSUME Moved(f, c, st) PROVE FALSE
      <4>1. PICK x : x = Erase(a)
        OBVIOUS
      <4>2. c.plan = <<x>> /\ x.op = "erase"
        BY <1>3, <3>1, <4>1 DEF Moved, Erase
      <4>3. c.plan # <<>> /\ Head(c.plan) = x
        BY <4>2
      <4> QED BY <1>5, <4>2, <4>3 DEF Moves
    <3> QED BY <3>1
  <2>3. Local(f, c, st)
    BY <2>1, <2>2 DEF CallOK, Wiping
  <2>4. Settled(f, c.wr) /\ Keeps(f[c.wr].items, c, st) /\ c.next # "copy"
    BY <2>3 DEF Local
  <2>5. /\ OwnVals(f[c.wr].items, c.plan, c.key, KV!Residue(st[c.key], KV!Target(c)))
        /\ Content(f, Other(c.wr)) \in {lf, Nothing}
    BY <1>2, <1>3, <1>5, <2>4 DEF SetSafe, OwnRange
  <2> QED BY <1>1, <2>4, <2>5, LocalBoot
<1> QED BY <1>4, <1>5

LEMMA WipeBootable ==
  ASSUME build \in Builds, NEW f, FlashOK(f), NEW st, NEW lf,
         NEW c, CallOK(f, c, st), c.kind = "wipe",
         WipeSafe(f, c, st, lf), NEW p, p = Summary(c)
  PROVE  Bootable(f, p, st, lf)
<1>1. c \in Calls
  BY DEF CallOK
<1>2. PICK s, a : s = c.wr /\ a = Other(s)
  OBVIOUS
<1>3. s \in Sectors /\ a \in Sectors /\ 1 - c.wr = a
  BY <1>1, <1>2, CallType, Opposite
<1>4. /\ Content(f, a) \in {lf, Nothing} /\ f[a].ver <= NORCOW_VERSION
      /\ f[s].ver <= NORCOW_VERSION
      /\ Content(f, s) = Nothing \/ (Settled(f, s) /\ Content(f, s) = st)
  <2>0. NORCOW_VERSION \in Nat
    BY NorcowAssumption
  <2>1. CASE c.plan = <<>>
    <3>1. Content(f, s) = Nothing /\ Content(f, a) = Nothing
      BY <1>2, <1>3, <2>1 DEF WipeSafe
    <3>2. ~Wiping(f, c)
      <4>1. ASSUME Wiping(f, c) PROVE FALSE
        <5>1. PICK q, g : q = c.plan /\ g = ApplyOp(f, Head(q))
          OBVIOUS
        <5>2. WipedBy(f, g, q, s, a)
          BY <1>1, <1>2, <4>1, <5>1, WipeOp
        <5> QED BY <2>1, <5>1, <5>2 DEF WipedBy
      <4> QED BY <4>1
    <3>3. Local(f, c, st)
      BY <3>2 DEF CallOK, Moving, Copying, Source, Moved
    <3>4. f[s].ver = NORCOW_VERSION /\ s = ActiveSector(f)
      BY <1>2, <3>3 DEF Local, Settled
    <3>5. f[a].ver <= f[s].ver
      BY <1>2, <3>4, ActiveIs
    <3> QED BY <2>0, <3>1, <3>4, <3>5
  <2>2. CASE c.plan # <<>>
    <3>1. /\ Content(f, a) = lf /\ f[a].ver <= NORCOW_VERSION
          /\ \/ f[s].items = <<>> /\ f[s].ver <= NORCOW_VERSION
             \/ Settled(f, s) /\ Content(f, s) = st
      BY <1>2, <1>3, <2>2 DEF WipeSafe
    <3>2. f[s].items = <<>> => Content(f, s) = Nothing
      BY <1>3, ContentIs
    <3>3. Settled(f, s) => f[s].ver <= NORCOW_VERSION
      BY <2>0 DEF Settled
    <3> QED BY <3>1, <3>2, <3>3
  <2> QED BY <2>1, <2>2
<1> QED BY <1>1, <1>2, <1>4, WipeBoot

LEMMA InitBootable ==
  ASSUME build \in Builds, NEW f, FlashOK(f), ZeroEmpty(f), NEW st, NEW lf,
         NEW c \in Calls, NEW p, BootSafe(f, c, p, st, lf)
  PROVE  Bootable(f, p, st, lf)
<1>1. PICK s, a : s = c.wr /\ a = Other(s)
  OBVIOUS
<1>2. s \in Sectors /\ a \in Sectors /\ 1 - c.wr = a
  BY <1>1, CallType, Opposite
<1>3. CASE c.plan = <<>>
  BY <1>3 DEF BootSafe
<1>4. CASE c.plan # <<>> /\ ~c.moves
  <2>1. f[a].ver = NO_MAGIC /\ Booted(f) = Nothing /\ Allowed(p, st, lf, Nothing)
    BY <1>2, <1>4 DEF BootSafe
  <2> QED BY <1>1, <1>2, <2>1, CleanBoot
<1>5. CASE c.plan # <<>> /\ c.moves
  <2>1. /\ f[a].ver \in 0..(NORCOW_VERSION - 1)
        /\ Upgradable(p, st, lf, Content(f, a))
        /\ \/ ActiveSector(f) = a /\ Leftover(p, st, lf, Content(f, s))
           \/ f[s].items = <<>> /\ f[s].ver <= NORCOW_VERSION
           \/ f[s].ver = NORCOW_VERSION /\ Parts(f[s].items, f[a].items)
    BY <1>1, <1>2, <1>5 DEF BootSafe
  <2> QED BY <1>1, <1>2, <2>1, UpgradeBoot
<1> QED BY <1>3, <1>4, <1>5

(* A set or delete of a key that is there starts.                          *)
LEMMA OwnStartSafe ==
  ASSUME NEW f, FlashOK(f), NEW s \in Sectors, Settled(f, s),
         NEW st, st = Content(f, s), NEW lf, lf = Content(f, Other(s)),
         NEW c, c.wr = s, c.key \in Keys,
         NEW i \in DOMAIN f[s].items, NEW old, old = f[s].items[i], old.key = c.key,
         \A j \in DOMAIN f[s].items : f[s].items[j].key = c.key => j = i,
         NEW new, new = KV!Target(c), OwnOps(c.plan, c.key, KV!Residue(old.val, new)),
         ~Moves(c), c.next = "compact" /\ c.act = 0 => c.moves
  PROVE  SetSafe(f, c, st, lf)
<1>1. old.val = st[c.key]
  <2>1. f[s].ver # NO_MAGIC
    BY SettledMagic
  <2>2. f[s].items[i].val = Content(f, s)[f[s].items[i].key]
    BY <2>1, ItemContent
  <2> QED BY <2>2
<1>2. PICK R : R = OwnRange(c, st)
  OBVIOUS
<1>3. R = KV!Residue(old.val, new)
  BY <1>1, <1>2 DEF OwnRange
<1>4. old.val \in R
  BY <1>3, ResidueHas
<1>5. OwnVals(f[s].items, c.plan, c.key, R)
  <2>1. \A j \in DOMAIN f[s].items : f[s].items[j].key = c.key => f[s].items[j].val \in R
    BY <1>4
  <2>2. OwnOps(c.plan, c.key, R)
    BY <1>3
  <2> QED BY <2>1, <2>2 DEF OwnVals, OwnOps
<1>6. 1 - c.wr = Other(s)
  BY Opposite
<1> QED BY <1>2, <1>5, <1>6 DEF SetSafe

LEMMA NewStartSafe ==
  ASSUME NEW f, NEW s, NEW fr, NEW st, Ready(f, s, fr, st),
         NEW lf, lf = Content(f, Other(s)),
         NEW c \in Calls, Asks(c), c.kind = "set", c.plan = <<>>, c.pos = 1,
         c.act = s, c.wr = s, c.fr = fr, c.next \in {"compact", "write"},
         c.next = "compact" /\ s = 0 => c.moves,
         Fresh(f[s].items, c.key), NEW d, d = Resume(f, c)
  PROVE  SetSafe(f, d, st, lf)
<1>1. /\ build \in Builds /\ FlashOK(f) /\ s \in Sectors /\ Settled(f, s)
      /\ st = Content(f, s)
  BY DEF Ready
<1>2. Ran(f, c, d, st)
  BY SetNew
<1>3. CASE c.next = "write"
  <2>1. d = WriteNew(f, c)
    BY <1>3, ResumeWrite
  <2>2. d.wr = c.wr /\ d.next = "return"
    BY <2>1, CallType DEF WriteNew
  <2>3. PICK q : q = <<>>
    OBVIOUS
  <2>4. OwnVals(f[c.wr].items, q, c.key, OwnRange(c, st))
    <3>1. DOMAIN q = {}
      BY <2>3
    <3> QED BY <3>1 DEF OwnVals, Fresh
  <2>5. Content(f, Other(c.wr)) \in {lf, Nothing}
    OBVIOUS
  <2> QED BY <1>1, <1>2, <2>1, <2>2, <2>4, <2>5, WriteNewSafe
<1>4. CASE c.next = "compact"
  <2>1. d = Compacting(c)
    BY <1>4, ResumeCompact
  <2>2. s = 0 => c.moves
    BY <1>4
  <2>3. Content(f, Other(s)) \in {lf, Nothing}
    OBVIOUS
  <2> QED BY <1>1, <1>2, <2>1, <2>2, <2>3, CompactingSafe
<1> QED BY <1>3, <1>4

(* norcow_set_ex.                                                          *)
LEMMA SetCasesSafe ==
  ASSUME NEW f, NEW s, NEW fr, NEW st, Ready(f, s, fr, st),
         NEW lf, lf = Content(f, Other(s)),
         NEW k \in Keys, NEW v \in Value, NEW fill \in BOOLEAN,
         fill \/ v = Ones(Len(v)), NEW i, NEW m, NEW updated, NEW plan, NEW next,
         NEW moves \in BOOLEAN, next = "compact" /\ s = 0 => moves,
         Setting(f, s, k, v, fill, i, m, updated, plan, next),
         updated \in BOOLEAN, plan \in Seq(FlashOps),
         NEW c, c = SetCall(s, k, v, fill, plan, next, moves, fr),
         NEW d, d = Resume(f, c), Asked(f, d, k, v, st)
  PROVE  SetSafe(f, d, st, lf)
<1>1. /\ build \in Builds /\ FlashOK(f) /\ s \in Sectors /\ Settled(f, s)
      /\ fr = find_free_offset(f[s]) /\ st = Content(f, s)
  BY DEF Ready
<1>2. fr \in Nat /\ Len(v) \in Nat \ {0}
  BY <1>1, SectorIs, FreeOffsetType, ValueType
<1>3. next \in {"compact", "write", "return"} /\ (updated <=> next = "return")
  BY DEF Setting
<1>4. /\ c \in Calls /\ Asks(c) /\ c.kind = "set" /\ c.key = k /\ c.val = v
      /\ c.plan = plan /\ c.next = next /\ c.pos = 1 /\ c.act = s /\ c.wr = s
      /\ c.fr = fr
  BY <1>1, <1>2, <1>3, SetCallIs
<1>5. c.moves = moves
  BY DEF SetCall
<1>6. c.next = "compact" /\ s = 0 => c.moves
  BY <1>4, <1>5
<1>7. CASE i = 0 /\ Fresh(f[s].items, k)
  <2>1. m = 0 /\ ~updated
    BY <1>7 DEF Setting
  <2>2. plan = Rewrite(s, i, f[s].items[i], v, m, updated)
    BY DEF Setting
  <2>3. plan = <<>>
    BY <1>7, <2>1, <2>2, RewriteNone
  <2>4. c.plan = <<>> /\ c.next \in {"compact", "write"} /\ Fresh(f[s].items, c.key)
    BY <1>3, <1>4, <1>7, <2>1, <2>3
  <2> QED BY <1>4, <1>6, <2>4, NewStartSafe
<1>8. CASE /\ i \in DOMAIN f[s].items /\ i \in Nat \ {0} /\ f[s].items[i].key = k
           /\ f[s].items[i] \in Items /\ f[s].items[i].val \in Value
           /\ \A j \in DOMAIN f[s].items : f[s].items[j].key = k => j = i
  <2>1. PICK old : old = f[s].items[i]
    OBVIOUS
  <2>2. i > 0
    BY <1>8
  <2>3. /\ m = IF fill THEN Writable(old.val, v) ELSE 0
        /\ updated <=> fill /\ m = Len(v)
        /\ plan = Rewrite(s, i, old, v, m, updated)
    BY <2>1, <2>2 DEF Setting
  <2>4. old \in Items /\ old.key \in Keys /\ old.val \in Value /\ old.key = k
    BY <1>8, <2>1
  <2>5. (m = 0 \/ m = Writable(old.val, v)) /\ (updated \/ m # Len(v))
    BY <1>2, <2>3
  <2>6. plan = Rewrite(s, i, old, v, m, updated)
    BY <2>3
  <2>7. OwnOps(plan, old.key, KV!Residue(old.val, v))
    BY <1>1, <1>8, <2>4, <2>5, <2>6, RewriteVals
  <2>8. d = c /\ ~Moves(c)
    <3>1. CASE ~updated
      <4>1. m # Len(v)
        BY <2>5, <3>1
      <4>2. PutChain(plan, s, i, old)
        BY <1>1, <1>8, <2>4, <2>5, <2>6, <3>1, <4>1, RewriteDeletes
      <4>3. plan # <<>> /\ plan[1].op = "put" /\ Head(plan) = plan[1]
        <5>1. plan # <<>> /\ \A n \in 1..Len(plan) : plan[n].op = "put"
          BY <4>2 DEF PutChain
        <5>2. Len(plan) \in Nat \ {0} /\ Head(plan) = plan[1]
          BY <5>1, SeqTail
        <5> QED BY <5>1, <5>2
      <4>4. d = c
        BY <1>4, <4>3, ResumeLater
      <4> QED BY <1>3, <1>4, <4>3, <4>4 DEF Moves
    <3>2. CASE updated
      <4>1. c.next = "return"
        BY <1>3, <1>4, <3>2
      <4>2. d = c
        BY <4>1, ResumeLater
      <4>3. CallOK(f, c, st)
        BY <4>2 DEF Asked
      <4>4. Local(f, c, st)
        BY <1>4, <4>1, <4>3, ReturnsLocal
      <4> QED BY <1>4, <4>2, <4>4, LocalStays
    <3> QED BY <3>1, <3>2
  <2>9. KV!Target(c) = v
    BY <1>4 DEF KV!Target
  <2>10. PICK new : new = KV!Target(c)
    OBVIOUS
  <2>11. OwnOps(c.plan, c.key, KV!Residue(old.val, new))
    BY <1>4, <2>4, <2>7, <2>9, <2>10
  <2>12. /\ c.wr = s /\ c.key \in Keys /\ i \in DOMAIN f[s].items /\ old.key = c.key
         /\ \A j \in DOMAIN f[s].items : f[s].items[j].key = c.key => j = i
         /\ c.next = "compact" /\ c.act = 0 => c.moves
    BY <1>4, <1>6, <1>8, <2>4
  <2>13. SetSafe(f, c, st, lf)
    BY <1>1, <2>1, <2>8, <2>10, <2>11, <2>12, OwnStartSafe
  <2> QED BY <2>8, <2>13
<1>9. Found(f[s].items, k, i)
  BY DEF Setting
<1> QED BY <1>7, <1>8, <1>9 DEF Found

LEMMA RewriteType ==
  ASSUME NEW f, NEW s, NEW fr, NEW st, Ready(f, s, fr, st),
         NEW k \in Keys, NEW v \in Value, NEW fill \in BOOLEAN,
         NEW i, NEW m, NEW updated \in BOOLEAN, NEW plan, NEW next,
         Setting(f, s, k, v, fill, i, m, updated, plan, next)
  PROVE  plan \in Seq(FlashOps)
<1>1. /\ build \in Builds /\ FlashOK(f) /\ s \in Sectors /\ Len(v) \in Nat \ {0}
  BY ValueType DEF Ready
<1>2. CASE i = 0 /\ Fresh(f[s].items, k)
  <2>1. m = 0 /\ ~updated
    BY <1>2 DEF Setting
  <2>2. plan = Rewrite(s, i, f[s].items[i], v, m, updated)
    BY DEF Setting
  <2> QED BY <1>2, <2>1, <2>2, RewriteNone
<1>3. CASE /\ i \in DOMAIN f[s].items /\ i \in Nat \ {0} /\ f[s].items[i].key = k
           /\ f[s].items[i] \in Items /\ f[s].items[i].val \in Value
  <2>1. PICK old : old = f[s].items[i]
    OBVIOUS
  <2>2. i > 0
    BY <1>3
  <2>3. /\ m = IF fill THEN Writable(old.val, v) ELSE 0
        /\ updated <=> fill /\ m = Len(v)
        /\ plan = Rewrite(s, i, old, v, m, updated)
    BY <2>1, <2>2 DEF Setting
  <2>4. old \in Items /\ old.key \in Keys /\ old.val \in Value
    BY <1>3, <2>1
  <2>5. (m = 0 \/ m = Writable(old.val, v)) /\ (updated \/ m # Len(v))
    BY <1>1, <2>3
  <2>6. plan = Rewrite(s, i, old, v, m, updated)
    BY <2>3
  <2>7. CASE updated
    <3>1. plan = InPlace(s, i, old, v, m) /\ i \in Nat
      BY <1>3, <2>6, <2>7 DEF Rewrite
    <3> QED BY <1>1, <2>4, <2>5, <3>1, InPlaceVals
  <2>8. CASE ~updated
    <3>1. m # Len(v)
      BY <2>5, <2>8
    <3>2. PutChain(plan, s, i, old)
      BY <1>1, <1>3, <2>4, <2>5, <2>6, <2>8, <3>1, RewriteDeletes
    <3> QED BY <3>2 DEF PutChain
  <2> QED BY <2>7, <2>8
<1>4. Found(f[s].items, k, i)
  BY DEF Setting
<1> QED BY <1>2, <1>3, <1>4 DEF Found

LEMMA SetExSafe ==
  ASSUME Ready(flash, write, free, store), active = write,
         left = Content(flash, Other(write)),
         NEW k \in Keys, NEW v \in Value, NEW fill \in BOOLEAN,
         fill \/ v = Ones(Len(v)),
         NEW d, d = norcow_set_ex(k, v, fill)
  PROVE  SetSafe(flash, d, store, left)
<1>1. PICK i, m, updated, plan, next, moves :
        SetEx(d, k, v, fill, i, m, updated, plan, next, moves)
  BY SetExIs
<1>2. PICK c : c = SetCall(write, k, v, fill, plan, next, moves, free)
  OBVIOUS
<1>3. /\ Setting(flash, write, k, v, fill, i, m, updated, plan, next)
      /\ moves \in BOOLEAN /\ updated \in BOOLEAN
      /\ next = "compact" /\ write = 0 => moves
      /\ d = Resume(flash, c)
  BY <1>1, <1>2 DEF SetEx
<1>4. plan \in Seq(FlashOps)
  BY <1>3, RewriteType
<1>5. Asked(flash, d, k, v, store)
  BY <1>2, <1>3, SetCases
<1> QED BY <1>2, <1>3, <1>4, <1>5, SetCasesSafe

(* norcow_delete.                                                          *)
LEMMA DeleteSafe ==
  ASSUME Ready(flash, write, free, store), active = write,
         left = Content(flash, Other(write)),
         NEW k \in Keys, find_item(flash[write], k) # 0,
         NEW d, d = norcow_delete(k)
  PROVE  SetSafe(flash, d, store, left)
<1>1. /\ write \in Sectors /\ FlashOK(flash) /\ Settled(flash, write)
      /\ build \in Builds /\ store = Content(flash, write)
  BY DEF Ready
<1>2. PICK i : i = find_item(flash[write], k)
  OBVIOUS
<1>3. Found(flash[write].items, k, i)
  <2>1. SectorOK(flash[write])
    BY <1>1, SectorIs
  <2>2. flash[write].ver # NO_MAGIC
    BY <1>1, SettledMagic
  <2> QED BY <1>2, <2>1, <2>2, FindItem
<1>4. /\ i \in DOMAIN flash[write].items /\ i \in Nat
      /\ flash[write].items[i].key = k
      /\ flash[write].items[i] \in Items /\ flash[write].items[i].val \in Value
      /\ \A j \in DOMAIN flash[write].items : flash[write].items[j].key = k => j = i
  BY <1>2, <1>3 DEF Found
<1>5. PICK it : it = flash[write].items[i]
  OBVIOUS
<1>6. PICK q : q = norcow_delete_item(write, i, it)
  OBVIOUS
<1>7. it \in Items /\ it.key \in Keys /\ it.val \in Value /\ it.key = k
  BY <1>4, <1>5
<1>8. OwnOps(q, it.key, KV!Cleared(it.val))
  BY <1>1, <1>4, <1>6, <1>7, DeleteVals
<1>9. d = [kind |-> "delete", key |-> k, val |-> NONE, fill |-> FALSE, plan |-> q,
           next |-> "return", pos |-> 1, moves |-> FALSE,
           act |-> write, wr |-> write, fr |-> free]
  BY <1>2, <1>5, <1>6 DEF norcow_delete
<1>10. /\ d.kind = "delete" /\ d.key = k /\ d.plan = q /\ d.next = "return"
       /\ d.act = write /\ d.wr = write
  BY <1>9
<1>11. CallOK(flash, d, store)
  BY DeleteOK
<1>12. ~Moves(d)
  <2>1. Local(flash, d, store)
    BY <1>10, <1>11, ReturnsLocal
  <2> QED BY <1>10, <2>1, LocalStays
<1>13. PICK new : new = KV!Target(d)
  OBVIOUS
<1>14. OwnOps(d.plan, d.key, KV!Residue(it.val, new))
  <2>1. \A w \in KV!Cleared(it.val) : w \in KV!Residue(it.val, new)
    BY ResidueHas
  <2>2. OwnOps(q, it.key, KV!Residue(it.val, new))
    BY <1>8, <2>1, OwnOpsMore
  <2> QED BY <1>7, <1>10, <2>2
<1>15. /\ d.wr = write /\ d.key \in Keys /\ it.key = d.key /\ d.next # "compact"
       /\ \A j \in DOMAIN flash[write].items : flash[write].items[j].key = d.key => j = i
  BY <1>4, <1>7, <1>10
<1> QED BY <1>1, <1>4, <1>5, <1>12, <1>13, <1>14, <1>15, OwnStartSafe

(* norcow_update_bytes.                                                    *)
LEMMA UpdateBytesSafe ==
  ASSUME Ready(flash, write, free, store), active = write,
         left = Content(flash, Other(write)),
         NEW k \in Keys, NEW v \in Value, NEW n \in Nat,
         find_item(flash[write], k) # 0,
         NEW d, d = norcow_update_bytes(k, v, n), NEW u \in Value,
         Asked(flash, d, k, u, store)
  PROVE  SetSafe(flash, d, store, left)
<1>1. /\ write \in Sectors /\ FlashOK(flash) /\ Settled(flash, write)
      /\ build \in Builds /\ store = Content(flash, write)
  BY DEF Ready
<1>2. PICK i : i = find_item(flash[write], k)
  OBVIOUS
<1>3. Found(flash[write].items, k, i)
  <2>1. SectorOK(flash[write])
    BY <1>1, SectorIs
  <2>2. flash[write].ver # NO_MAGIC
    BY <1>1, SettledMagic
  <2> QED BY <1>2, <2>1, <2>2, FindItem
<1>4. /\ i \in DOMAIN flash[write].items /\ i \in Nat
      /\ flash[write].items[i].key = k
      /\ flash[write].items[i] \in Items /\ flash[write].items[i].val \in Value
      /\ \A j \in DOMAIN flash[write].items : flash[write].items[j].key = k => j = i
  BY <1>2, <1>3 DEF Found
<1>5. PICK cur : cur = flash[write].items[i]
  OBVIOUS
<1>6. PICK new : new = Splice(v, cur.val, n + 1)
  OBVIOUS
<1>7. PICK it : it = [cur EXCEPT !.val = new]
  OBVIOUS
<1>8. it.val = new
  <2>1. cur = [key |-> cur.key, val |-> cur.val]
    BY <1>4, <1>5, ItemType
  <2> QED BY <1>7, <2>1
<1>9. PICK q, t : t = <<it>> /\ q = Puts(write, i, t)
  OBVIOUS
<1>10. \A l \in DOMAIN q : q[l].item.val = new
  <2>1. Len(t) = 1 /\ t[1] = it
    BY <1>9
  <2>2. DOMAIN q = 1..Len(t) /\ \A l \in DOMAIN q : q[l].item = t[l]
    BY <1>9, PutsItems
  <2> QED BY <1>8, <2>1, <2>2
<1>11. d = SetCall(write, k, new, TRUE, q, "return", FALSE, free)
  BY <1>2, <1>5, <1>6, <1>7, <1>9 DEF norcow_update_bytes, SetCall
<1>12. /\ d.kind = "set" /\ d.key = k /\ d.plan = q /\ d.next = "return"
       /\ d.act = write /\ d.wr = write /\ d.val = new
  BY <1>11 DEF SetCall
<1>13. CallOK(flash, d, store) /\ new = u
  BY <1>12 DEF Asked
<1>14. ~Moves(d)
  <2>1. Local(flash, d, store)
    BY <1>12, <1>13, ReturnsLocal
  <2> QED BY <1>12, <2>1, LocalStays
<1>15. new = KV!Target(d)
  BY <1>12 DEF KV!Target
<1>16. OwnOps(d.plan, d.key, KV!Residue(cur.val, new))
  <2>1. new \in KV!Written(new)
    BY <1>13, WrittenWhole
  <2>2. new \in KV!Residue(cur.val, new)
    BY <2>1, ResidueHas
  <2> QED BY <1>10, <1>12, <2>2 DEF OwnOps
<1>17. /\ d.wr = write /\ d.key \in Keys /\ cur.key = d.key /\ d.next # "compact"
       /\ \A j \in DOMAIN flash[write].items : flash[write].items[j].key = d.key => j = i
  BY <1>4, <1>5, <1>12
<1> QED BY <1>1, <1>4, <1>5, <1>14, <1>15, <1>16, <1>17, OwnStartSafe

(* norcow_wipe.                                                            *)
LEMMA WipeStartSafe ==
  ASSUME build \in Builds, NEW f, FlashOK(f), NEW s \in Sectors, Settled(f, s),
         NEW st, st = Content(f, s), NEW lf, lf = Content(f, Other(s)),
         NEW c, c.wr = s, c.plan = norcow_wipe(s)
  PROVE  WipeSafe(f, c, st, lf)
<1>1. PICK q : q = norcow_wipe(s)
  OBVIOUS
<1>2. c.plan # <<>>
  BY <1>1, WipePlanType
<1>3. 1 - c.wr = Other(s) /\ Other(s) \in Sectors
  BY Opposite
<1>4. f[Other(s)].ver <= NORCOW_VERSION
  <2>1. s = ActiveSector(f) /\ f[s].ver = NORCOW_VERSION
    BY DEF Settled
  <2>2. f[Other(s)].ver <= f[s].ver
    BY <2>1, ActiveIs
  <2> QED BY <2>1, <2>2
<1> QED BY <1>2, <1>3, <1>4 DEF WipeSafe

-----------------------------------------------------------------------------
(* The invariant of the refinement.                                        *)

(* What a call asks for stays what it is.                                  *)
Clean(c) == c.kind = "delete" => c.val = NONE

LEMMA RInvNow ==
  ASSUME RInv
  PROVE  /\ NInv /\ ZeroEmpty(flash)
         /\ store \in KV!Content /\ left \in KV!Content
         /\ cut \in KV!Call \cup {NONE}
         /\ call # NONE => CrashOK(flash, call, Pend, store, left) /\ Clean(call)
         /\ on /\ call = NONE => left = Content(flash, 1 - active)
BY DEF RInv, Idle, Clean

LEMMA RInvNext ==
  ASSUME NInv', ZeroEmpty(flash'), store' \in KV!Content, left' \in KV!Content,
         cut' \in KV!Call \cup {NONE}, NEW p, p = Pend',
         call' # NONE => CrashOK(flash', call', p, store', left') /\ Clean(call'),
         on' /\ call' = NONE => left' = Content(flash', 1 - active')
  PROVE  RInv'
<1>1. ZeroEmpty(flash)' <=> ZeroEmpty(flash')
  BY DEF ZeroEmpty
<1>2. CrashOK(flash, call, Pend, store, left)'
        <=> CrashOK(flash', call', Pend', store', left')
  OBVIOUS
<1>3. Idle' => left' = Content(flash, 1 - active)'
  BY DEF Idle
<1> QED BY <1>1, <1>2, <1>3 DEF RInv, Clean

LEMMA PendIs ==
  ASSUME RInv
  PROVE  /\ on => Pend = Summary(call)
         /\ ~on => Pend = cut
         /\ on /\ call = NONE => Pend = NONE
         /\ call # NONE => call \in Calls /\ Summary(call) \in KV!Call
         /\ Pend \in KV!Call \cup {NONE}
<1>1. call # NONE => call \in Calls /\ Summary(call) \in KV!Call
  <2>1. call # NONE => call \in Calls
    BY RInvNow, NInvNow, CallIsCall
  <2>2. PICK p : p = Summary(call)
    OBVIOUS
  <2> QED BY <2>1, <2>2, SummaryIs
<1>2. call = NONE => Summary(call) = NONE
  BY DEF Summary
<1> QED BY <1>1, <1>2, RInvNow DEF Pend

(* A power loss now, whatever is in progress, and the boot after it end in *)
(* what the contract allows.                                               *)
LEMMA RInvBoots ==
  ASSUME RInv
  PROVE  Bootable(flash, Pend, store, left)
<1>1. /\ build \in Builds /\ FlashOK(flash) /\ ZeroEmpty(flash) /\ on \in BOOLEAN
      /\ store \in KV!Content
      /\ call # NONE => CallOK(flash, call, store) /\ (call.kind = "init" <=> ~on)
      /\ ~on => call # NONE
      /\ call # NONE => CrashOK(flash, call, Pend, store, left)
  BY RInvNow, NInvNow
<1>2. CASE on /\ call = NONE
  <2>1. Resting(flash, active, write, free, store) /\ active \in Sectors
    BY <1>2, RInvNow, NInvNow
  <2>2. Settled(flash, active) /\ store = Content(flash, active)
    BY <2>1 DEF Resting
  <2>3. left = Content(flash, Other(active))
    BY <1>2, <2>1, RInvNow, Opposite
  <2>4. PICK p : p = Pend
    OBVIOUS
  <2>5. p = NONE
    BY <1>2, <2>4, PendIs
  <2>6. Bootable(flash, p, store, left)
    BY <1>1, <2>1, <2>2, <2>3, <2>5, IdleBoot
  <2> QED BY <2>4, <2>6
<1>3. CASE on /\ call # NONE
  <2>1. PICK p : p = Pend
    OBVIOUS
  <2>2. p = Summary(call)
    BY <1>3, <2>1, PendIs
  <2>3. CallOK(flash, call, store) /\ call.kind # "init"
    BY <1>1, <1>3
  <2>4. CrashOK(flash, call, p, store, left)
    BY <1>1, <1>3, <2>1
  <2>5. call.kind \in {"set", "delete", "wipe"}
    <3>1. call \in Calls
      BY <1>3, PendIs
    <3> QED BY <2>3, <3>1, CallType
  <2>6. CASE call.kind \in {"set", "delete"}
    <3>1. SetSafe(flash, call, store, left)
      BY <2>4, <2>6 DEF CrashOK
    <3>2. Bootable(flash, p, store, left)
      BY <1>1, <2>2, <2>3, <2>6, <3>1, SetBootable
    <3> QED BY <2>1, <3>2
  <2>7. CASE call.kind = "wipe"
    <3>1. WipeSafe(flash, call, store, left)
      BY <2>4, <2>7 DEF CrashOK
    <3>2. Bootable(flash, p, store, left)
      BY <1>1, <2>2, <2>3, <2>7, <3>1, WipeBootable
    <3> QED BY <2>1, <3>2
  <2> QED BY <2>5, <2>6, <2>7
<1>4. CASE ~on
  <2>1. call # NONE /\ call.kind = "init" /\ call \in Calls
    BY <1>1, <1>4, PendIs
  <2>2. PICK p : p = Pend
    OBVIOUS
  <2>3. BootSafe(flash, call, p, store, left)
    BY <1>1, <2>1, <2>2 DEF CrashOK
  <2>4. Bootable(flash, p, store, left)
    BY <1>1, <2>1, <2>3, InitBootable
  <2> QED BY <2>2, <2>4
<1> QED BY <1>1, <1>2, <1>3, <1>4

(* A call starts.                                                          *)
LEMMA RInvStart ==
  ASSUME RInv, Idle, NInv',
         UNCHANGED <<flash, active, on, cut, store, left>>,
         call' # NONE, Clean(call'),
         NEW p, p = Summary(call'), CrashOK(flash, call', p, store, left)
  PROVE  RInv'
<1>1. Pend' = p
  BY DEF Idle, Pend
<1>2. /\ ZeroEmpty(flash') /\ store' \in KV!Content /\ left' \in KV!Content
      /\ cut' \in KV!Call \cup {NONE}
  BY RInvNow
<1>3. CrashOK(flash', call', p, store', left')
  OBVIOUS
<1> QED BY <1>1, <1>2, <1>3, RInvNext

(* What the calls find when they start.                                    *)
LEMMA RInvReady ==
  ASSUME RInv, Idle
  PROVE  /\ Ready(flash, write, free, store) /\ active = write
         /\ left = Content(flash, Other(write))
<1>1. Ready(flash, write, free, store) /\ active = write
  BY RInvNow, RestingReady
<1>2. write \in Sectors
  BY <1>1 DEF Ready
<1>3. left = Content(flash, 1 - active)
  BY RInvNow DEF Idle
<1>4. 1 - write = Other(write)
  BY <1>2, Opposite
<1> QED BY <1>1, <1>3, <1>4

(* A call begins.                                                          *)
Begins == Idle /\ call' # NONE /\ UNCHANGED <<on, store, left>>

LEMMA SetRInv ==
  ASSUME RInv, NEW k \in Keys, NEW v \in Inputs, norcowSet(k, v)
  PROVE  RInv' /\ Begins
<1>1. Idle /\ call' = norcow_set_ex(k, v, TRUE)
      /\ UNCHANGED <<build, flash, active, write, free, open, on, cut, store, left>>
  BY DEF norcowSet
<1>2. NInv'
  BY RInvNow, SetStarts
<1>3. v \in Value
  BY RInvNow, NInvNow, BuildType
<1>4. PICK d, fill : d = call' /\ fill = TRUE
  OBVIOUS
<1>5. d = norcow_set_ex(k, v, fill) /\ fill \in BOOLEAN /\ fill
  BY <1>1, <1>4
<1>6. /\ Ready(flash, write, free, store) /\ active = write
      /\ left = Content(flash, Other(write))
  BY <1>1, RInvReady
<1>7. fill \/ v = Ones(Len(v))
  BY <1>5
<1>8. SetSafe(flash, d, store, left)
  BY <1>3, <1>5, <1>6, <1>7, SetExSafe
<1>9. Asked(flash, d, k, v, store)
  BY <1>3, <1>5, <1>6, <1>7, SetOK
<1>10. d.kind = "set" /\ d # NONE
  BY <1>9, CallIsCall DEF Asked
<1>11. PICK p : p = Summary(call')
  OBVIOUS
<1>12. CrashOK(flash, d, p, store, left) /\ Clean(d)
  BY <1>8, <1>10 DEF CrashOK, Clean
<1>13. RInv'
  BY <1>1, <1>2, <1>4, <1>10, <1>11, <1>12, RInvStart
<1> QED BY <1>1, <1>2, <1>4, <1>10, <1>11, <1>12, <1>13 DEF Begins

LEMMA AllocRInv ==
  ASSUME RInv, NEW k \in Keys, NEW v \in Inputs, norcowAlloc(k, v)
  PROVE  RInv' /\ Begins
<1>1. Idle /\ call' = norcow_set_ex(k, Ones(Len(v)), FALSE)
      /\ UNCHANGED <<build, flash, active, write, free, on, cut, store, left>>
  BY DEF norcowAlloc
<1>2. NInv'
  BY RInvNow, AllocStarts
<1>3. v \in Value
  BY RInvNow, NInvNow, BuildType
<1>4. PICK d, fill, o : d = call' /\ fill = FALSE /\ o = Ones(Len(v))
  OBVIOUS
<1>5. d = norcow_set_ex(k, o, fill) /\ fill \in BOOLEAN
  BY <1>1, <1>4
<1>6. /\ Ready(flash, write, free, store) /\ active = write
      /\ left = Content(flash, Other(write))
  BY <1>1, RInvReady
<1>7. o \in Value /\ (fill \/ o = Ones(Len(o)))
  BY <1>3, <1>4, ValueType, ConstantType
<1>8. SetSafe(flash, d, store, left)
  BY <1>5, <1>6, <1>7, SetExSafe
<1>9. Asked(flash, d, k, o, store)
  BY <1>5, <1>6, <1>7, SetOK
<1>10. d.kind = "set" /\ d # NONE
  BY <1>9, CallIsCall DEF Asked
<1>11. PICK p : p = Summary(call')
  OBVIOUS
<1>12. CrashOK(flash, d, p, store, left) /\ Clean(d)
  BY <1>8, <1>10 DEF CrashOK, Clean
<1>13. RInv'
  BY <1>1, <1>2, <1>4, <1>10, <1>11, <1>12, RInvStart
<1> QED BY <1>1, <1>2, <1>4, <1>10, <1>11, <1>12, <1>13 DEF Begins

LEMMA UpdateRInv ==
  ASSUME RInv, norcowUpdateBytes
  PROVE  RInv' /\ Begins
<1>1. /\ Idle /\ open # NONE /\ find_item(flash[write], open.key) # 0
      /\ call' = norcow_update_bytes(open.key, open.val, open.flashed)
      /\ UNCHANGED <<build, flash, active, write, free, on, cut, store, left>>
  BY DEF norcowUpdateBytes
<1>2. NInv'
  BY RInvNow, UpdateStarts
<1>3. Filling(open, call, store) /\ call = NONE
  BY <1>1, RInvNow, NInvNow DEF Idle
<1>4. PICK k, v, n, d : k = open.key /\ v = open.val /\ n = open.flashed /\ d = call'
  OBVIOUS
<1>5. /\ k \in Keys /\ v \in Value /\ n \in Nat /\ n < Len(v)
      /\ store[k] \in {NONE, Filled(v, n)}
  BY <1>3, <1>4 DEF Filling
<1>6. d = norcow_update_bytes(k, v, n) /\ find_item(flash[write], k) # 0
  BY <1>1, <1>4
<1>7. /\ Ready(flash, write, free, store) /\ active = write
      /\ left = Content(flash, Other(write))
  BY <1>1, RInvReady
<1>8. PICK u : u = Filled(v, n + 1)
  OBVIOUS
<1>9. Asked(flash, d, k, u, store)
  BY <1>5, <1>6, <1>7, <1>8, UpdateBytesOK
<1>10. u \in Value
  <2>1. PICK w, z : w = Filled(v, n) /\ z = Splice(v, w, n + 1)
    OBVIOUS
  <2>2. z = Filled(v, n + 1) /\ z \in Value
    BY <1>5, <2>1, FilledNext
  <2> QED BY <1>8, <2>2
<1>11. SetSafe(flash, d, store, left)
  BY <1>5, <1>6, <1>7, <1>9, <1>10, UpdateBytesSafe
<1>12. d.kind = "set" /\ d # NONE
  BY <1>9, CallIsCall DEF Asked
<1>13. PICK p : p = Summary(call')
  OBVIOUS
<1>14. CrashOK(flash, d, p, store, left) /\ Clean(d)
  BY <1>11, <1>12 DEF CrashOK, Clean
<1>15. RInv'
  BY <1>1, <1>2, <1>4, <1>12, <1>13, <1>14, RInvStart
<1> QED BY <1>1, <1>2, <1>4, <1>12, <1>13, <1>14, <1>15 DEF Begins

LEMMA DeleteRInv ==
  ASSUME RInv, NEW k \in Keys, norcowDelete(k)
  PROVE  RInv' /\ Begins
<1>1. /\ Idle /\ find_item(flash[write], k) # 0 /\ call' = norcow_delete(k)
      /\ UNCHANGED <<build, flash, active, write, free, on, cut, store, left>>
  BY DEF norcowDelete
<1>2. NInv'
  BY RInvNow, DeleteStarts
<1>3. PICK d : d = call'
  OBVIOUS
<1>4. d = norcow_delete(k)
  BY <1>1, <1>3
<1>5. /\ Ready(flash, write, free, store) /\ active = write
      /\ left = Content(flash, Other(write))
  BY <1>1, RInvReady
<1>6. SetSafe(flash, d, store, left)
  BY <1>1, <1>4, <1>5, DeleteSafe
<1>7. CallOK(flash, d, store) /\ d.kind = "delete"
  BY <1>1, <1>4, <1>5, DeleteOK
<1>8. d # NONE
  BY <1>7, CallIsCall
<1>9. d.val = NONE
  BY <1>4 DEF norcow_delete
<1>10. PICK p : p = Summary(call')
  OBVIOUS
<1>11. CrashOK(flash, d, p, store, left) /\ Clean(d)
  BY <1>6, <1>7, <1>9 DEF CrashOK, Clean
<1>12. RInv'
  BY <1>1, <1>2, <1>3, <1>8, <1>10, <1>11, RInvStart
<1> QED BY <1>1, <1>2, <1>3, <1>8, <1>10, <1>11, <1>12 DEF Begins

LEMMA WipeRInv ==
  ASSUME RInv, norcowWipe
  PROVE  RInv' /\ Begins
<1>1. /\ Idle
      /\ call' = Bare("wipe", norcow_wipe(active), "return", FALSE, active, active, 0)
      /\ UNCHANGED <<build, flash, active, write, free, on, cut, store, left>>
  BY DEF norcowWipe, Bare
<1>2. NInv'
  BY RInvNow, WipeStarts
<1>3. PICK d, s : d = call' /\ s = active
  OBVIOUS
<1>4. d.kind = "wipe" /\ d.wr = s /\ d.plan = norcow_wipe(s)
  BY <1>1, <1>3 DEF Bare
<1>5. /\ build \in Builds /\ FlashOK(flash) /\ s \in Sectors /\ Settled(flash, s)
      /\ store = Content(flash, s) /\ left = Content(flash, Other(s))
  BY <1>1, <1>3, RInvReady DEF Ready
<1>6. WipeSafe(flash, d, store, left)
  BY <1>4, <1>5, WipeStartSafe
<1>7. d # NONE
  <2>1. on' /\ on
    BY <1>1 DEF Idle
  <2>2. d = Bare("wipe", norcow_wipe(s), "return", FALSE, s, s, 0)
    BY <1>1, <1>3
  <2>3. PICK kind, plan, next, moves, fr :
          /\ kind = "wipe" /\ plan = norcow_wipe(s)
          /\ next = "return" /\ moves = FALSE /\ fr = 0
    OBVIOUS
  <2>4. d = Bare(kind, plan, next, moves, s, s, fr)
    BY <2>2, <2>3
  <2>5. kind \in {"wipe", "init"} /\ moves \in BOOLEAN
    BY <2>3
  <2>6. plan = norcow_wipe(s) /\ next = "return" /\ fr = 0
    BY <2>3
  <2>7. CallOK(flash, d, store)
    BY <1>5, <2>4, <2>5, <2>6, WipeOK
  <2> QED BY <2>7, CallIsCall
<1>8. PICK p : p = Summary(call')
  OBVIOUS
<1>9. CrashOK(flash, d, p, store, left) /\ Clean(d)
  BY <1>4, <1>6 DEF CrashOK, Clean
<1>10. RInv'
  BY <1>1, <1>2, <1>3, <1>7, <1>8, <1>9, RInvStart
<1> QED BY <1>1, <1>2, <1>3, <1>7, <1>8, <1>9, <1>10 DEF Begins

LEMMA RefusedRInv ==
  ASSUME RInv, norcowUpdateRefused
  PROVE  RInv'
<1>1. UNCHANGED <<build, flash, active, write, free, call, on, cut, store, left>>
  BY DEF norcowUpdateRefused
<1>2. NInv'
  BY RInvNow, RefusedOK
<1>3. PICK p : p = Pend'
  OBVIOUS
<1>4. p = Pend
  BY <1>1, <1>3 DEF Pend
<1> QED BY <1>1, <1>2, <1>3, <1>4, RInvNow, RInvNext

LEMMA FlashStepRInv ==
  ASSUME RInv, FlashStep
  PROVE  RInv' /\ call # NONE /\ call' # NONE /\ Summary(call') = Summary(call)
<1>1. /\ call # NONE /\ call.plan # <<>>
      /\ flash' = ApplyOp(flash, Head(call.plan))
      /\ call' = Resume(flash', Advance(call))
      /\ UNCHANGED <<build, active, write, free, open, on, cut, store, left>>
  BY DEF FlashStep, Advance
<1>2. NInv'
  BY RInvNow, FlashStepOK
<1>3. /\ build \in Builds /\ FlashOK(flash) /\ ZeroEmpty(flash)
      /\ CallOK(flash, call, store)
      /\ CrashOK(flash, call, Pend, store, left) /\ Clean(call)
  BY <1>1, RInvNow, NInvNow
<1>4. PICK g, d, p : g = flash' /\ d = call' /\ p = Pend
  OBVIOUS
<1>5. /\ g = ApplyOp(flash, Head(call.plan)) /\ d = Resume(g, Advance(call))
      /\ CrashOK(flash, call, p, store, left)
  BY <1>1, <1>3, <1>4
<1>6. ZeroEmpty(g) /\ CrashOK(g, d, p, store, left) /\ Summary(d) = Summary(call)
  BY <1>1, <1>3, <1>5, StepSafe
<1>7. Ran(g, call, d, store)
  BY <1>1, <1>3, <1>5, StepOK
<1>8. d # NONE /\ Clean(d)
  BY <1>3, <1>7, CallIsCall DEF Ran, Same, Clean
<1>9. Pend' = p
  BY <1>1, <1>4, <1>6 DEF Pend
<1>10. RInv'
  <2>1. /\ ZeroEmpty(flash') /\ CrashOK(flash', call', p, store', left')
        /\ Clean(call') /\ call' # NONE
    BY <1>1, <1>4, <1>6, <1>8
  <2>2. /\ store' \in KV!Content /\ left' \in KV!Content
        /\ cut' \in KV!Call \cup {NONE}
    BY <1>1, RInvNow
  <2> QED BY <1>2, <1>9, <2>1, <2>2, RInvNext
<1> QED BY <1>1, <1>4, <1>6, <1>8, <1>10

LEMMA ReturnRInv ==
  ASSUME RInv, Return
  PROVE  RInv'
<1>1. /\ call # NONE /\ call.plan = <<>>
      /\ active' = call.act /\ call' = NONE /\ cut' = NONE /\ on' = TRUE
      /\ store' = Content(flash, call.act) /\ left' = Content(flash, 1 - call.act)
      /\ UNCHANGED <<build, flash>>
  BY DEF Return
<1>2. NInv'
  BY RInvNow, ReturnOK
<1>3. FlashOK(flash) /\ ZeroEmpty(flash)
  BY RInvNow, NInvNow
<1>4. call.act \in Sectors /\ 1 - call.act \in Sectors
  BY <1>1, PendIs, CallType, Opposite
<1>5. store' \in KV!Content /\ left' \in KV!Content
  BY <1>1, <1>3, <1>4, ContentIs
<1>6. PICK p : p = Pend'
  OBVIOUS
<1>7. left' = Content(flash', 1 - active') /\ ZeroEmpty(flash')
  BY <1>1, <1>3
<1> QED BY <1>1, <1>2, <1>5, <1>6, <1>7, RInvNext

LEMMA PowerLossRInv ==
  ASSUME RInv, PowerLoss
  PROVE  RInv' /\ Pend' = Pend
<1>1. /\ on' = FALSE /\ cut' = Pend /\ call' = norcow_init(flash)
      /\ UNCHANGED <<build, flash, store, left>>
  BY DEF PowerLoss, Pend
<1>2. NInv'
  BY RInvNow, PowerLossOK
<1>3. Pend' = cut'
  BY <1>1 DEF Pend
<1>4. build \in Builds /\ FlashOK(flash) /\ ZeroEmpty(flash)
  BY RInvNow, NInvNow
<1>5. PICK d, p : d = call' /\ p = Pend'
  OBVIOUS
<1>6. Bootable(flash, p, store, left)
  BY <1>1, <1>3, <1>5, RInvBoots
<1>7. d = norcow_init(flash)
  BY <1>1, <1>5
<1>8. BootSafe(flash, d, p, store, left)
  BY <1>4, <1>6, <1>7, BootStarts
<1>9. d.kind = "init"
  BY <1>7 DEF norcow_init
<1>10. CrashOK(flash, d, p, store, left) /\ Clean(d)
  BY <1>8, <1>9 DEF CrashOK, Clean
<1>11. /\ ZeroEmpty(flash') /\ store' \in KV!Content /\ left' \in KV!Content
       /\ cut' \in KV!Call \cup {NONE}
       /\ CrashOK(flash', call', p, store', left') /\ Clean(call')
  BY <1>1, <1>4, <1>5, <1>10, RInvNow, PendIs
<1>12. RInv'
  BY <1>1, <1>2, <1>5, <1>11, RInvNext
<1> QED BY <1>1, <1>3, <1>12

(* The first boot.                                                         *)
LEMMA FirstBoot ==
  ASSUME build \in Builds, NEW b \in Sectors, NEW sec \in FoundSectors,
         NEW f, f = [s \in Sectors |-> IF s = b THEN sec ELSE Erased],
         NEW c, c = norcow_init(f), NEW p, p = Summary(c),
         NEW st, st = Booted(f), NEW lf, lf = Nothing
  PROVE  ZeroEmpty(f) /\ Bootable(f, p, st, lf)
<1>1. FlashOK(f)
  BY InitFlash
<1>2. sec = Erased \/ sec.ver \in Nat \ {0}
  <2>1. sec # Erased => sec.ver \in FoundVersions
    BY DEF FoundSectors
  <2> QED BY <2>1, NorcowAssumption
<1>3. Erased.ver = -1 /\ Erased.items = <<>> /\ NO_MAGIC = -1
  BY DEF Erased, NO_MAGIC
<1>4. ZeroEmpty(f)
  BY <1>2, <1>3 DEF ZeroEmpty
<1>5. PICK a : a = ActiveSector(f)
  OBVIOUS
<1>6. a \in Sectors /\ Other(a) \in Sectors /\ 1 - a = Other(a)
  BY <1>1, <1>5, ActiveIs
<1>7. f[Other(a)] = Erased
  <2>1. CASE sec = Erased
    BY <1>6, <2>1
  <2>2. CASE sec.ver \in Nat \ {0}
    <3>1. f[b].ver \in Nat \ {0} /\ f[Other(b)] = Erased
      BY <2>2, Opposite
    <3>2. f[Other(b)].ver < f[b].ver
      BY <1>3, <3>1
    <3>3. a = b
      BY <1>1, <1>5, <3>2, ActiveNewer
    <3> QED BY <3>1, <3>3
  <2> QED BY <1>2, <2>1, <2>2
<1>8. Content(f, Other(a)) = Nothing
  BY <1>1, <1>3, <1>6, <1>7, ContentIs
<1>9. CallOK(f, c, st) /\ c.kind = "init"
  BY <1>1, InitCallOK
<1>10. c \in Calls
  BY <1>9, CallIsCall
<1>11. c.key = NONE
  BY DEF norcow_init
<1>12. p # NONE /\ p.kind = "init" /\ p.key = NONE /\ p.moves = c.moves
  BY <1>9, <1>10, <1>11, SummaryIs
<1>13. \A k \in Keys : k # p.key
  BY <1>12, KeyTypes
<1>14. Allowed(p, st, lf, st)
  BY <1>12, <1>13 DEF Allowed
<1>15. ASSUME f[a].ver < NORCOW_VERSION, f[a].ver # NO_MAGIC
       PROVE  Upgradable(p, st, lf, Content(f, a))
  <2>1. NORCOW_VERSION \in Nat /\ f[a].ver \in Int
    BY <1>1, <1>6, VersionType
  <2>2. PICK ver : ver = f[a].ver
    OBVIOUS
  <2>3. ~(ver = NO_MAGIC \/ ver > NORCOW_VERSION) /\ ver < NORCOW_VERSION
    BY <1>15, <2>1, <2>2
  <2>4. c.moves = TRUE
    BY <1>5, <2>2, <2>3 DEF norcow_init
  <2>5. p.moves
    BY <1>12, <2>4
  <2>6. st = Content(f, a)
    <3>1. f[a].ver <= NORCOW_VERSION
      BY <1>15, <2>1
    <3> QED BY <1>1, <1>5, <3>1, BootedIs
  <2>7. Leftover(p, st, lf, st)
    BY <1>12, CopiedHas DEF Leftover
  <2>8. ASSUME NEW y, Pieces(y, st) PROVE Allowed(p, st, lf, y)
    BY <1>12, <1>13, <2>5, <2>8 DEF Allowed, Pieces
  <2> QED BY <2>6, <2>7, <2>8 DEF Upgradable
<1>16. Leftover(p, st, lf, Nothing)
  BY NothingLeft
<1>17. f[Other(a)].ver = NO_MAGIC
  BY <1>3, <1>7
<1>18. Bootable(f, p, st, lf)
  BY <1>5, <1>6, <1>8, <1>14, <1>15, <1>16, <1>17 DEF Bootable
<1> QED BY <1>4, <1>18

LEMMA RInvInit == Init => RInv
<1> SUFFICES ASSUME Init PROVE RInv
  OBVIOUS
<1>1. /\ build \in Builds /\ on = FALSE
      /\ call = norcow_init(flash) /\ store = Booted(flash)
      /\ cut = Summary(call) /\ left = Nothing
  BY DEF Init, Nothing
<1>2. PICK b \in Sectors, sec \in FoundSectors :
        flash = [s \in Sectors |-> IF s = b THEN sec ELSE Erased]
  BY DEF Init
<1>3. NInv
  BY NInvInit
<1>4. FlashOK(flash)
  BY <1>3, NInvNow
<1>5. PICK p : p = Pend
  OBVIOUS
<1>6. p = cut /\ p = Summary(call)
  BY <1>1, <1>5 DEF Pend
<1>7. ZeroEmpty(flash) /\ Bootable(flash, p, store, left)
  BY <1>1, <1>2, <1>6, FirstBoot
<1>8. BootSafe(flash, call, p, store, left)
  BY <1>1, <1>4, <1>7, BootStarts
<1>9. call.kind = "init"
  BY <1>1 DEF norcow_init
<1>10. CrashOK(flash, call, p, store, left)
  BY <1>8, <1>9 DEF CrashOK
<1>11. cut \in KV!Call
  <2>1. call \in Calls
    BY <1>1, <1>4, InitCallOK, CallIsCall
  <2> QED BY <1>6, <2>1, SummaryIs
<1>12. store \in KV!Content /\ left \in KV!Content
  <2>1. PICK a : a = ActiveSector(flash)
    OBVIOUS
  <2>2. Booted(flash) \in KV!Content
    BY <1>4, <2>1, BootedIs
  <2> QED BY <1>1, <2>2, NothingIs
<1>13. call # NONE => CrashOK(flash, call, Pend, store, left)
  BY <1>5, <1>10
<1> QED BY <1>1, <1>3, <1>7, <1>9, <1>11, <1>12, <1>13 DEF RInv, Idle

LEMMA RInvStep == RInv /\ [Next]_vars => RInv'
<1> SUFFICES ASSUME RInv, [Next]_vars PROVE RInv'
  OBVIOUS
<1>1. ASSUME NEW k \in Keys, NEW v \in Inputs, norcowSet(k, v) PROVE RInv'
  BY <1>1, SetRInv
<1>2. ASSUME NEW k \in Keys, NEW v \in Inputs, norcowAlloc(k, v) PROVE RInv'
  BY <1>2, AllocRInv
<1>3. CASE norcowUpdateBytes
  BY <1>3, UpdateRInv
<1>4. CASE norcowUpdateRefused
  BY <1>4, RefusedRInv
<1>5. ASSUME NEW k \in Keys, norcowDelete(k) PROVE RInv'
  BY <1>5, DeleteRInv
<1>6. CASE norcowWipe
  BY <1>6, WipeRInv
<1>7. CASE FlashStep
  BY <1>7, FlashStepRInv
<1>8. CASE Return
  BY <1>8, ReturnRInv
<1>9. CASE PowerLoss
  BY <1>9, PowerLossRInv
<1>10. CASE UNCHANGED vars
  <2>1. NInv'
    BY RInvNow, NInvStep
  <2>2. PICK p : p = Pend'
    OBVIOUS
  <2>3. p = Pend
    BY <1>10, <2>2 DEF Pend, vars
  <2> QED BY <1>10, <2>1, <2>2, <2>3, RInvNow, RInvNext DEF vars
<1> QED BY <1>1, <1>2, <1>3, <1>4, <1>5, <1>6, <1>7, <1>8, <1>9, <1>10 DEF Next

-----------------------------------------------------------------------------
(* The contract, step by step.                                             *)

(* The actions of the contract, in terms of the call in progress.          *)
LEMMA ContractIs ==
  /\ KV!vars = <<store, left, Pend, on>>
  /\ \A c : KV!Begin(c) <=> /\ on /\ Pend = NONE /\ Pend' = c
                            /\ UNCHANGED <<store, left, on>>
  /\ KV!PowerLoss <=> on /\ on' = FALSE /\ UNCHANGED <<store, left, Pend>>
  /\ \A x : KV!Recovered(x) <=> Allowed(Pend, store, left, x)
<1>1. KV!vars = <<store, left, Pend, on>>
  BY DEF KV!vars, Pend
<1>2. \A c : KV!Begin(c) <=> /\ on /\ Pend = NONE /\ Pend' = c
                             /\ UNCHANGED <<store, left, on>>
  BY DEF KV!Begin, Pend
<1>3. KV!PowerLoss <=> on /\ on' = FALSE /\ UNCHANGED <<store, left, Pend>>
  BY DEF KV!PowerLoss, Pend
<1>4. \A x : KV!Recovered(x) <=> Allowed(Pend, store, left, x)
  BY DEF KV!Recovered, Allowed, Pend
<1> QED BY <1>1, <1>2, <1>3, <1>4

(* The first state is one the contract begins in.                          *)
LEMMA ContractInit == Init => KV!Init
<1> SUFFICES ASSUME Init PROVE KV!Init
  OBVIOUS
<1>1. on = FALSE /\ call = norcow_init(flash) /\ left = Nothing /\ RInv
  BY RInvInit DEF Init, Nothing
<1>2. store \in KV!Content /\ left = KV!Empty
  BY <1>1, RInvNow, NothingIs
<1>3. call.kind = "init" /\ call.key = NONE /\ call.val = NONE
  BY <1>1 DEF norcow_init
<1>4. call \in Calls
  BY <1>1, RInvNow, NInvNow, PendIs
<1>5. PICK p : p = Pend
  OBVIOUS
<1>6. p = Summary(call)
  BY <1>1, <1>5 DEF Init, Pend
<1>7. p = [kind |-> "init", key |-> NONE, val |-> NONE, moves |-> call.moves]
  BY <1>3, <1>4, <1>6, NoneAssumption DEF Summary
<1>8. call.moves \in BOOLEAN
  BY <1>4 DEF Calls
<1>9. p \in [kind : {"init"}, key : {NONE}, val : {NONE}, moves : BOOLEAN]
  BY <1>7, <1>8
<1> QED BY <1>1, <1>2, <1>5, <1>9 DEF KV!Init, Pend

LEMMA CallNow == RInv => (call # NONE => call \in Calls)
BY PendIs

LEMMA CallNext == RInv' => (call' # NONE => call' \in Calls)
<1>1. RInv' => (call # NONE => call \in Calls)'
  BY CallNow, PTL
<1> QED BY <1>1

(* A call begins.                                                          *)
LEMMA ContractBegin ==
  ASSUME RInv, RInv', Begins
  PROVE  KV!Next
<1>1. Pend = NONE /\ on /\ on' /\ call' # NONE /\ UNCHANGED <<on, store, left>>
  BY PendIs DEF Begins, Idle
<1>2. PICK p : p = Pend'
  OBVIOUS
<1>3. p = Summary(call') /\ call' \in Calls
  BY <1>1, <1>2, CallNext DEF Pend
<1>4. p \in KV!Call
  BY <1>3, SummaryIs
<1>5. KV!Begin(p)
  BY <1>1, <1>2, ContractIs
<1> QED BY <1>4, <1>5 DEF KV!Next

(* What a set or delete that returns has done.                             *)
LEMMA ContractSetReturn ==
  ASSUME RInv, on, call # NONE, call.plan = <<>>, call.kind \in {"set", "delete"}
  PROVE  /\ call.key \in Keys
         /\ \E v \in {KV!Target(call), NONE} :
              Content(flash, call.act) = [store EXCEPT ![call.key] = v]
         /\ Content(flash, 1 - call.act) \in {left, Nothing}
<1>1. /\ build \in Builds /\ FlashOK(flash) /\ CallOK(flash, call, store)
      /\ store \in KV!Content /\ Clean(call)
      /\ CrashOK(flash, call, Pend, store, left)
  BY RInvNow, NInvNow
<1>2. /\ Asks(call) /\ call.act = call.wr /\ call.wr \in Sectors
      /\ Settled(flash, call.wr) /\ OwnItem(flash, call)
      /\ Keeps(flash[call.wr].items, call, store)
  BY <1>1, DoneCall
<1>3. PICK s, k : s = call.wr /\ k = call.key
  OBVIOUS
<1>4. s \in Sectors /\ k \in Keys /\ flash[s].ver # NO_MAGIC
  BY <1>2, <1>3, SettledMagic DEF Asks
<1>5. PICK v \in {NONE, call.val} : Holds(flash[s].items, k, v)
  BY <1>2, <1>3 DEF OwnItem
<1>6. v \in Value \cup {NONE} /\ v \in {KV!Target(call), NONE}
  <2>1. CASE call.kind = "set"
    <3>1. KV!Target(call) = call.val /\ call.val \in Value
      BY <1>2, <2>1 DEF KV!Target, Asks
    <3> QED BY <1>5, <3>1
  <2>2. CASE call.kind = "delete"
    <3>1. call.val = NONE
      BY <1>1, <2>2 DEF Clean
    <3> QED BY <1>5, <3>1
  <2> QED BY <2>1, <2>2
<1>7. PICK x : x = Content(flash, s)
  OBVIOUS
<1>8. x[k] = v
  BY <1>1, <1>4, <1>5, <1>6, <1>7, GetHolds, ContentIs
<1>9. \A j \in Keys : j # k => x[j] = store[j]
  BY <1>1, <1>2, <1>3, <1>4, <1>7, KeptContent
<1>10. x = [store EXCEPT ![k] = v]
  <2>1. x \in KV!Content
    BY <1>1, <1>4, <1>7, ContentIs
  <2>2. x = [j \in Keys |-> x[j]] /\ DOMAIN store = Keys
    BY <1>1, <2>1 DEF KV!Content
  <2> QED BY <1>1, <1>4, <1>8, <1>9, <2>2 DEF KV!Content
<1>11. Content(flash, 1 - s) \in {left, Nothing}
  <2>1. SetSafe(flash, call, store, left)
    BY <1>1 DEF CrashOK
  <2>2. ~Moves(call)
    BY <1>1, CopyHasPlan DEF Moves
  <2> QED BY <1>3, <2>1, <2>2 DEF SetSafe
<1> QED BY <1>2, <1>3, <1>4, <1>6, <1>7, <1>10, <1>11

(* A call returns.                                                         *)
LEMMA ContractReturn ==
  ASSUME RInv, Return, on
  PROVE  KV!Next
<1>1. /\ call # NONE /\ call.plan = <<>> /\ call' = NONE /\ on' = TRUE
      /\ store' = Content(flash, call.act) /\ left' = Content(flash, 1 - call.act)
  BY DEF Return
<1>2. PICK p : p = Pend
  OBVIOUS
<1>3. p = Summary(call) /\ call \in Calls
  BY <1>1, <1>2, PendIs
<1>4. /\ p # NONE /\ p.kind = call.kind /\ p.key = call.key
      /\ KV!Target(p) = KV!Target(call)
  BY <1>3, SummaryIs
<1>5. Pend' = NONE
  BY <1>1 DEF Pend, Summary
<1>6. /\ build \in Builds /\ FlashOK(flash) /\ CallOK(flash, call, store)
      /\ call.kind # "init" /\ CrashOK(flash, call, Pend, store, left)
  BY <1>1, RInvNow, NInvNow
<1>7. call.kind \in {"set", "delete", "wipe"}
  BY <1>3, <1>6, CallType
<1>8. /\ store' \in IF p.kind = "wipe" THEN {KV!Empty}
                    ELSE {[store EXCEPT ![p.key] = v] : v \in {KV!Target(p), NONE}}
      /\ left' \in {left, KV!Empty}
  <2>1. CASE call.kind \in {"set", "delete"}
    <3>1. /\ \E v \in {KV!Target(call), NONE} :
               Content(flash, call.act) = [store EXCEPT ![call.key] = v]
          /\ Content(flash, 1 - call.act) \in {left, Nothing}
      BY <1>1, <2>1, ContractSetReturn
    <3>2. p.kind # "wipe"
      BY <1>4, <2>1
    <3> QED BY <1>1, <1>4, <3>1, <3>2, NothingIs
  <2>2. CASE call.kind = "wipe"
    <3>1. call.act = call.wr
      BY <1>1, <1>6, DoneCall
    <3>2. WipeSafe(flash, call, store, left)
      BY <1>6, <2>2 DEF CrashOK
    <3>3. store' = Nothing /\ left' = Nothing
      BY <1>1, <3>1, <3>2 DEF WipeSafe
    <3> QED BY <1>4, <2>2, <3>3, NothingIs
  <2> QED BY <1>7, <2>1, <2>2
<1>9. KV!Return <=> /\ on /\ Pend # NONE
                    /\ store' \in IF Pend.kind = "wipe" THEN {KV!Empty}
                                  ELSE {[store EXCEPT ![Pend.key] = v] :
                                          v \in {KV!Target(Pend), NONE}}
                    /\ left' \in {left, KV!Empty}
                    /\ Pend' = NONE
                    /\ UNCHANGED on
  BY DEF KV!Return, Pend
<1>10. on' = on
  BY <1>1
<1> QED BY <1>2, <1>4, <1>5, <1>8, <1>9, <1>10 DEF KV!Next

(* A boot ends.                                                            *)
LEMMA ContractRecover ==
  ASSUME RInv, RInv', Return, ~on
  PROVE  KV!Next
<1>1. /\ call # NONE /\ call.plan = <<>> /\ call' = NONE /\ on' = TRUE
      /\ store' = Content(flash, call.act) /\ left' = Content(flash, 1 - call.act)
  BY DEF Return
<1>2. build \in Builds /\ FlashOK(flash) /\ CallOK(flash, call, store)
  BY <1>1, RInvNow, NInvNow
<1>3. call.act \in Sectors /\ Settled(flash, call.act)
  BY <1>1, <1>2, DoneCall
<1>4. PICK a : a = call.act
  OBVIOUS
<1>5. a = ActiveSector(flash) /\ flash[a].ver = NORCOW_VERSION
  BY <1>3, <1>4 DEF Settled
<1>6. flash[a].ver <= NORCOW_VERSION
  BY <1>5, NorcowAssumption
<1>7. Booted(flash) = Content(flash, a)
  BY <1>2, <1>5, <1>6, BootedIs
<1>8. /\ Allowed(Pend, store, left, store') /\ Leftover(Pend, store, left, left')
  BY <1>1, <1>4, <1>5, <1>7, RInvBoots DEF Bootable
<1>9. store' \in KV!Content /\ left' \in KV!Content
  <2>1. 1 - a \in Sectors /\ a \in Sectors
    BY <1>3, <1>4, Opposite
  <2> QED BY <1>1, <1>2, <1>4, <2>1, ContentIs
<1>10. Pend' = NONE
  BY <1>1 DEF Pend, Summary
<1>11. KV!Recover <=>
         /\ ~on /\ on' = TRUE /\ Pend' = NONE /\ store' \in KV!Content
         /\ KV!Recovered(store') /\ left' \in KV!Content
         /\ Leftover(Pend, store, left, left')
  BY DEF KV!Recover, Leftover, Pend
<1> QED BY <1>1, <1>8, <1>9, <1>10, <1>11, ContractIs DEF KV!Next

(* Every step is one the contract allows, or changes nothing it sees.      *)
LEMMA ContractStep == RInv /\ RInv' /\ [Next]_vars => [KV!Next]_(KV!vars)
<1> SUFFICES ASSUME RInv, RInv', [Next]_vars PROVE [KV!Next]_(KV!vars)
  OBVIOUS
<1>1. CASE Begins
  BY <1>1, ContractBegin
<1>2. ASSUME UNCHANGED <<store, left, Pend, on>> PROVE UNCHANGED KV!vars
  BY <1>2, ContractIs DEF KV!vars, Pend
<1>3. ASSUME NEW k \in Keys, NEW v \in Inputs, norcowSet(k, v) PROVE Begins
  BY <1>3, SetRInv
<1>4. ASSUME NEW k \in Keys, NEW v \in Inputs, norcowAlloc(k, v) PROVE Begins
  BY <1>4, AllocRInv
<1>5. CASE norcowUpdateBytes
  BY <1>1, <1>5, UpdateRInv
<1>6. ASSUME NEW k \in Keys, norcowDelete(k) PROVE Begins
  BY <1>6, DeleteRInv
<1>7. CASE norcowWipe
  BY <1>1, <1>7, WipeRInv
<1>8. CASE norcowUpdateRefused
  <2>1. UNCHANGED <<store, left, on, call, cut>>
    BY <1>8 DEF norcowUpdateRefused
  <2> QED BY <1>2, <2>1 DEF Pend
<1>9. CASE FlashStep
  <2>1. UNCHANGED <<store, left, on, cut>> /\ Summary(call') = Summary(call)
    BY <1>9, FlashStepRInv DEF FlashStep
  <2>2. Pend' = Pend
    BY <2>1 DEF Pend
  <2> QED BY <1>2, <2>1, <2>2
<1>10. CASE Return
  BY <1>10, ContractReturn, ContractRecover
<1>11. CASE PowerLoss
  <2>1. Pend' = Pend /\ on' = FALSE /\ UNCHANGED <<store, left>>
    BY <1>11, PowerLossRInv DEF PowerLoss
  <2>2. CASE on
    <3>1. KV!PowerLoss
      BY <2>1, <2>2, ContractIs
    <3> QED BY <3>1 DEF KV!Next
  <2>3. CASE ~on
    <3>1. on = FALSE
      BY <2>3, RInvNow, NInvNow
    <3> QED BY <1>2, <2>1, <3>1
  <2> QED BY <2>2, <2>3
<1>12. CASE UNCHANGED vars
  <2>1. UNCHANGED <<store, left, Pend, on>>
    BY <1>12 DEF vars, Pend
  <2> QED BY <1>2, <2>1
<1>13. (\E k \in Keys, v \in Inputs : norcowSet(k, v) \/ norcowAlloc(k, v)) => Begins
  BY <1>3, <1>4
<1>14. (\E k \in Keys : norcowDelete(k)) => Begins
  BY <1>6
<1> QED BY <1>1, <1>5, <1>7, <1>8, <1>9, <1>10, <1>11, <1>12, <1>13, <1>14 DEF Next

LEMMA RInvAlways == Spec => []RInv
BY RInvInit, RInvStep, PTL DEF Spec

(* Whatever is cut short and wherever: every behaviour of norcow.c, from   *)
(* the first boot on, is one that the contract of the key-value store      *)
(* allows. A call that returns has changed its own key and no other; a     *)
(* power loss and the boot that follows lose or tear only what KVStore     *)
(* says they may.                                                          *)
THEOREM StoreKeepsContract == Spec => ImplementsKVStore
<1>1. Init => KV!Init
  BY ContractInit
<1>2. RInv /\ RInv' /\ [Next]_vars => [KV!Next]_(KV!vars)
  BY ContractStep
<1>3. Spec => []RInv
  BY RInvAlways
<1> QED BY <1>1, <1>2, <1>3, PTL DEF Spec, ImplementsKVStore, KV!Spec

=============================================================================
