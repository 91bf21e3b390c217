------------------------------- MODULE Norcow -------------------------------
(***************************************************************************)
(* The log-structured flash store of storage/norcow.c, in both builds:     *)
(* norcow_bitwise.h (FLASH_BIT_ACCESS, byte by byte) and                   *)
(* norcow_blockwise.h (whole blocks, a valid flag behind the data).        *)
(*                                                                         *)
(* The two sectors are logs of items. A call issues flash operations in    *)
(* the code's order: call.plan are those that the running helper has       *)
(* decided on, call.next is what the code does after them. The flash       *)
(* executes them one at a time and power may fail before each.             *)
(* The statics of norcow.c are assigned when the call returns: nothing     *)
(* else reads them in between, and a power loss forgets them.              *)
(*                                                                         *)
(* A cell is one programming unit (a byte, or a block), 1 = erased and     *)
(* 0 = programmed. A sector holds SECTOR_SIZE cells after its header.      *)
(*                                                                         *)
(* A definition named after another one with a suffix that says what is    *)
(* wrong (compact_onto_old) is a slip that a property must catch; the      *)
(* specification does not use it.                                          *)
(***************************************************************************)
EXTENDS Integers, Sequences, FiniteSets, SequencesExt

CONSTANTS Keys,            \* the keys in use
          Lens,            \* the lengths of the values, in cells
          Builds,          \* the builds of the firmware
          PREFIX_LEN,      \* NORCOW_MAX_PREFIX_LEN, in cells
          NORCOW_VERSION,  \* the version this firmware writes
          FoundVersions,   \* versions a sector may carry at the first boot
          NONE             \* no value, no call

NORCOW_KEY_DELETED == 0
NORCOW_KEY_FREE == 65535

ASSUME NorcowAssumption ==
  /\ Keys \subseteq Nat \ {NORCOW_KEY_DELETED, NORCOW_KEY_FREE}
  /\ Lens \subseteq Nat \ {0}
  /\ \A b \in Builds :
       /\ b.bit_access \in BOOLEAN
       /\ b.sector_size \in Nat /\ b.small_item_size \in Nat
       /\ b.inputs \subseteq UNION {[1..n -> 0..1] : n \in Lens}
  /\ PREFIX_LEN \in Nat \ {0}
  /\ NORCOW_VERSION \in Nat \ {0}
  /\ FoundVersions \subseteq Nat \ {0}

VARIABLES build,    \* what was compiled: a member of Builds
          flash,    \* the two storage areas
          active,   \* norcow_active_sector
          write,    \* norcow_write_sector
          free,     \* norcow_free_offset, counted from NORCOW_STORAGE_START
          open,     \* the preallocated item being filled, or NONE
          call,     \* the call or the boot in progress, or NONE
          on,       \* powered, and past norcow_init
          cut,      \* the call the last power loss cut short, or NONE
          store,    \* what norcow_get returned at the last quiescent point
          left      \* what the other sector held at that point

vars == <<build, flash, active, write, free, open, call, on, cut, store, left>>

BIT_ACCESS == build.bit_access            \* FLASH_BIT_ACCESS
SECTOR_SIZE == build.sector_size          \* cells for items in a sector
SMALL_ITEM_SIZE == build.small_item_size  \* longest value of a small item
Inputs == build.inputs                    \* the values callers store

Sectors == {0, 1}                     \* NORCOW_SECTOR_COUNT is 2
NO_MAGIC == -1                        \* the sector has no header

Value == UNION {[1..n -> 0..1] : n \in Lens}
Ones(n) == [j \in 1..n |-> 1]
Zeros(n) == [j \in 1..n |-> 0]
Splice(v, w, m) == [j \in 1..Len(v) |-> IF j <= m THEN v[j] ELSE w[j]]
Erased == [ver |-> NO_MAGIC, items |-> <<>>]

Items == [key : Keys \cup {NORCOW_KEY_DELETED}, val : Value \cup {<<>>}]
Versions == {NO_MAGIC, 0, NORCOW_VERSION} \cup FoundVersions
FlashOps == [op : {"erase"}, sec : Sectors]
       \cup [op : {"header"}, sec : Sectors, ver : {0, NORCOW_VERSION}]
       \cup [op : {"append"}, sec : Sectors, item : Items]
       \cup [op : {"put"}, sec : Sectors, pos : Nat, item : Items]
Calls == [kind : {"set", "delete", "wipe", "init"}, key : Keys \cup {NONE},
          val : Value \cup {NONE}, fill : BOOLEAN, plan : Seq(FlashOps),
          next : {"compact", "copy", "write", "return"}, pos : Nat,
          moves : BOOLEAN, act : Sectors, wr : Sectors, fr : Nat]

ASSUME NoneAssumption ==
  /\ NONE \notin Value \cup Keys
  /\ NONE \notin Calls
  /\ NONE \notin [key : Keys, val : Value, flashed : Nat]
  /\ NONE \notin [kind : {"set", "delete", "wipe", "init"}, key : Keys \cup {NONE},
                  val : Value \cup {NONE}, moves : BOOLEAN]

-----------------------------------------------------------------------------
(* Reading a sector.                                                       *)

IsSmall(n) == ~BIT_ACCESS /\ n <= SMALL_ITEM_SIZE

(* The room an item with an n-cell value takes.                            *)
ItemSize(n) == IF IsSmall(n) THEN 1 ELSE PREFIX_LEN + n

(* find_item: the last item with the key, or 0.                            *)
find_item(sec, k) ==
  IF sec.ver = NO_MAGIC THEN 0
  ELSE SelectLastInSeq(sec.items, LAMBDA it : it.key = k)

(* Where each item ends, counted from NORCOW_STORAGE_START.                *)
Offsets(items) ==
  LET pos[n \in 0..Len(items)] ==
        IF n = 0 THEN 0 ELSE pos[n - 1] + ItemSize(Len(items[n].val))
  IN pos

find_free_offset(sec) == Offsets(sec.items)[Len(sec.items)]

norcow_get(f, s, k) ==
  LET i == find_item(f[s], k) IN IF i = 0 THEN NONE ELSE f[s].items[i].val

Content(f, s) == [k \in Keys |-> norcow_get(f, s, k)]

-----------------------------------------------------------------------------
(* Flash operations and what they do.                                      *)

ApplyOp(f, o) ==
  CASE o.op = "erase"  -> [f EXCEPT ![o.sec] = Erased]
    [] o.op = "header" -> [f EXCEPT ![o.sec].ver = o.ver]
    [] o.op = "append" -> [f EXCEPT ![o.sec].items = Append(@, o.item)]
    [] o.op = "put"    -> [f EXCEPT ![o.sec].items[o.pos] = o.item]

Puts(s, i, states) ==
  [n \in 1..Len(states) |->
     [op |-> "put", sec |-> s, pos |-> i, item |-> states[n]]]

(* erase_sector: the bitwise build writes magic and version separately, so *)
(* for a moment the version reads as ~0xFFFFFFFF = 0.                      *)
erase_sector(s, set_magic) ==
  <<[op |-> "erase", sec |-> s]>>
    \o (IF set_magic /\ BIT_ACCESS
        THEN <<[op |-> "header", sec |-> s, ver |-> 0]>> ELSE <<>>)
    \o (IF set_magic
        THEN <<[op |-> "header", sec |-> s, ver |-> NORCOW_VERSION]>>
        ELSE <<>>)

(* write_item at position i: a small item is one block, otherwise the      *)
(* prefix is followed by the data, cell by cell. NULL data (fill = FALSE)  *)
(* leaves the data erased.                                                 *)
write_item(s, i, k, v, fill) ==
  LET n == Len(v)
      Item(m) == [key |-> k, val |-> Splice(v, Ones(n), m)]
  IN IF IsSmall(n) THEN <<[op |-> "append", sec |-> s, item |-> Item(n)]>>
     ELSE <<[op |-> "append", sec |-> s, item |-> Item(0)]>>
            \o (IF fill THEN Puts(s, i, [m \in 1..n |-> Item(m)]) ELSE <<>>)

norcow_delete_item_frees_key(s, i, it) ==
  Puts(s, i, <<[it EXCEPT !.key = NORCOW_KEY_FREE]>>)

norcow_delete_item_keeps_key(s, i, it) ==
  Puts(s, i, <<[it EXCEPT !.val = Zeros(Len(@))]>>)

(* norcow_delete_item of the bitwise build: the key is cleared first, then *)
(* the data, cell by cell.                                                 *)
DeleteBitwise(it) ==
  LET n == Len(it.val)
  IN [m \in 1..(n + 1) |-> [key |-> NORCOW_KEY_DELETED,
                            val |-> Splice(Zeros(n), it.val, m - 1)]]

(* norcow_delete_item of the blockwise build: a small item is one block;   *)
(* of a large item the data is cleared block by block, and the last block  *)
(* takes the valid flag along.                                             *)
DeleteBlockwise(it) ==
  LET n == Len(it.val)
      Partly(m) == [it EXCEPT !.val = Splice(Zeros(n), it.val, m)]
  IN IF IsSmall(n) THEN <<[key |-> NORCOW_KEY_DELETED, val |-> <<>>]>>
     ELSE [m \in 1..n |->
             IF m < n THEN Partly(m)
             ELSE [key |-> NORCOW_KEY_DELETED, val |-> Zeros(n)]]

norcow_delete_item(s, i, it) ==
  Puts(s, i, IF BIT_ACCESS THEN DeleteBitwise(it) ELSE DeleteBlockwise(it))

(* flash_area_write_bytes: how many leading cells of v can be programmed   *)
(* over old (a cell never goes back to 1). Blockwise only compares.        *)
Writable(old, v) ==
  IF Len(old) # Len(v) THEN 0
  ELSE IF ~BIT_ACCESS THEN (IF old = v THEN Len(v) ELSE 0)
  ELSE LET bad == {j \in 1..Len(v) : v[j] > old[j]} IN
       IF bad = {} THEN Len(v)
       ELSE (CHOOSE j \in bad : \A i \in bad : j <= i) - 1

compact_onto_old(w) == Tail(erase_sector(w, TRUE))

(* compact, and norcow_init before an upgrade, begin with the other sector. *)
compact_prepare(w) == erase_sector(w, TRUE)

norcow_wipe(a) == erase_sector(a, TRUE) \o erase_sector(1 - a, FALSE)

-----------------------------------------------------------------------------
(* Calls. Each operator yields the call record.                            *)

compact_marks_old(f, c) ==
  LET a == 1 - c.wr
      alive == {i \in DOMAIN f[a].items :
                  i >= c.pos /\ f[a].items[i].key # NORCOW_KEY_DELETED}
      i == Min(alive)
      it == f[a].items[i]
  IN IF alive # {}
     THEN [c EXCEPT !.plan = write_item(c.wr, Len(f[c.wr].items) + 1,
                                        it.key, it.val, TRUE),
                    !.pos = i + 1]
     ELSE [c EXCEPT !.plan = erase_sector(a, TRUE),
                    !.act = c.wr, !.fr = find_free_offset(f[c.wr]),
                    !.next = IF c.kind = "set" THEN "write" ELSE "return"]

(* One turn of the loop of compact, which is also the copying of a storage *)
(* upgrade: the next live item goes into sector c.wr. After the last one   *)
(* the old sector is erased.                                               *)
compact(f, c) ==
  LET a == 1 - c.wr
      alive == {i \in DOMAIN f[a].items :
                  i >= c.pos /\ f[a].items[i].key # NORCOW_KEY_DELETED}
      i == Min(alive)
      it == f[a].items[i]
  IN IF alive # {}
     THEN [c EXCEPT !.plan = write_item(c.wr, Len(f[c.wr].items) + 1,
                                        it.key, it.val, TRUE),
                    !.pos = i + 1]
     ELSE [c EXCEPT !.plan = erase_sector(a, FALSE),
                    !.act = c.wr, !.fr = find_free_offset(f[c.wr]),
                    !.next = IF c.kind = "set" THEN "write" ELSE "return"]

(* The end of norcow_set_ex: the new item, if there is room for it.        *)
WriteNew(f, c) ==
  LET fits == c.fr + ItemSize(Len(c.val)) <= SECTOR_SIZE
  IN [c EXCEPT !.plan = IF fits THEN write_item(c.wr, Len(f[c.wr].items) + 1,
                                                c.key, c.val, c.fill)
                        ELSE <<>>,
               !.fr = IF fits THEN @ + ItemSize(Len(c.val)) ELSE @,
               !.next = "return"]

(* The code runs on to its next flash operation.                           *)
Resume(f, c) ==
  IF c.plan # <<>> THEN c
  ELSE CASE c.next = "compact" ->
              [c EXCEPT !.plan = compact_prepare(1 - c.act),
                        !.wr = 1 - c.act, !.next = "copy"]
         [] c.next = "copy"   -> compact(f, c)
         [] c.next = "write"  -> WriteNew(f, c)
         [] c.next = "return" -> c

(* norcow_set_ex(key, val, len); fill = FALSE is val == NULL.              *)
norcow_set_ex(k, v, fill) ==
  LET i == find_item(flash[write], k)
      old == flash[write].items[i]
      m == IF i > 0 /\ fill THEN Writable(old.val, v) ELSE 0
      updated == i > 0 /\ fill /\ m = Len(v)
      upd == IF BIT_ACCESS /\ m > 0
             THEN Puts(write, i, [j \in 1..m |->
                    [old EXCEPT !.val = Splice(v, old.val, j)]])
             ELSE <<>>
      torn == [old EXCEPT !.val = IF m > 0 THEN Splice(v, old.val, m) ELSE @]
      del == IF i > 0 THEN norcow_delete_item(write, i, torn) ELSE <<>>
      full == free + PREFIX_LEN + Len(v) > SECTOR_SIZE
  IN Resume(flash,
       [kind |-> "set", key |-> k, val |-> v, fill |-> fill,
        plan |-> IF updated THEN upd ELSE upd \o del,
        next |-> IF updated THEN "return" ELSE IF full THEN "compact" ELSE "write",
        pos |-> 1, moves |-> ~updated /\ full /\ active = 0,
        act |-> active, wr |-> write, fr |-> free])

norcow_delete(k) ==
  LET i == find_item(flash[write], k)
  IN [kind |-> "delete", key |-> k, val |-> NONE, fill |-> FALSE,
      plan |-> norcow_delete_item(write, i, flash[write].items[i]),
      next |-> "return", pos |-> 1, moves |-> FALSE,
      act |-> active, wr |-> write, fr |-> free]

(* norcow_update_bytes: the next cell of the preallocated item.            *)
norcow_update_bytes(k, v, flashed) ==
  LET i == find_item(flash[write], k)
      cur == flash[write].items[i]
      new == Splice(v, cur.val, flashed + 1)
  IN [kind |-> "set", key |-> k, val |-> new, fill |-> TRUE,
      plan |-> Puts(write, i, <<[cur EXCEPT !.val = new]>>),
      next |-> "return", pos |-> 1, moves |-> FALSE,
      act |-> active, wr |-> write, fr |-> free]

ActiveSector_first(f) ==
  IF f[1].ver # NO_MAGIC /\ f[1].ver > f[0].ver THEN 1 ELSE 0

(* norcow_init: the sector with the highest version, the last one on ties; *)
(* sector 0 when there is none.                                            *)
ActiveSector(f) ==
  IF f[1].ver # NO_MAGIC /\ f[1].ver >= f[0].ver THEN 1 ELSE 0

(* norcow_init, followed by the copying of storage_upgrade and             *)
(* norcow_upgrade_finish when the version found is an older one.           *)
norcow_init(f) ==
  LET a == ActiveSector(f)
      ver == f[a].ver
      wipe == ver = NO_MAGIC \/ ver > NORCOW_VERSION
      upgrade == ~wipe /\ ver < NORCOW_VERSION
      plan == IF wipe THEN norcow_wipe(a)
              ELSE IF upgrade THEN compact_prepare(1 - a) ELSE <<>>
  IN [kind |-> "init", key |-> NONE, val |-> NONE, fill |-> FALSE,
      plan |-> plan, next |-> IF upgrade THEN "copy" ELSE "return",
      pos |-> 1, moves |-> upgrade,
      act |-> a, wr |-> IF upgrade THEN 1 - a ELSE a,
      fr |-> IF wipe \/ upgrade THEN 0 ELSE find_free_offset(f[a])]

-----------------------------------------------------------------------------
(* The content a boot would find.                                          *)
Booted(f) == LET a == ActiveSector(f) IN
  IF f[a].ver > NORCOW_VERSION THEN [k \in Keys |-> NONE] ELSE Content(f, a)

(* The flash at the first boot: factory fresh, or written by a firmware of *)
(* the same, an older or a newer version.                                  *)
FoundSectors ==
  {Erased} \cup
  [ver : FoundVersions,
   items : {<<[key |-> k, val |-> v]>> : k \in Keys,
              v \in {u \in Inputs : ItemSize(Len(u)) <= SECTOR_SIZE}}]

(* What a call asks for, without the flash operations.                     *)
Summary(c) == IF c = NONE THEN NONE
              ELSE [kind |-> c.kind, key |-> c.key, val |-> c.val,
                    moves |-> c.moves]

Init == /\ build \in Builds
        /\ flash \in {[s \in Sectors |-> IF s = a THEN sec ELSE Erased] :
                        a \in Sectors, sec \in FoundSectors}
        /\ active = 0 /\ write = 0 /\ free = 0
        /\ open = NONE
        /\ on = FALSE
        /\ call = norcow_init(flash)
        /\ cut = Summary(call)
        /\ store = Booted(flash)
        /\ left = [k \in Keys |-> NONE]

Idle == on /\ call = NONE

(* Between norcow_set(key, NULL, len) and the last norcow_update_bytes the *)
(* caller (storage_set_encrypted) only updates the authentication tag,     *)
(* which is another key, before the first byte is written.                 *)
MaySet(k) == open # NONE => (open.key # k /\ open.flashed = 0)

norcowSet(k, v) ==
  /\ Idle /\ MaySet(k)
  /\ call' = norcow_set_ex(k, v, TRUE)
  /\ UNCHANGED <<build, flash, active, write, free, open, on, cut, store, left>>

norcowAlloc(k, v) ==
  /\ Idle /\ open = NONE /\ ~IsSmall(Len(v))
  /\ call' = norcow_set_ex(k, Ones(Len(v)), FALSE)
  /\ open' = [key |-> k, val |-> v, flashed |-> 0]
  /\ UNCHANGED <<build, flash, active, write, free, on, cut, store, left>>

norcowUpdateBytes ==
  /\ Idle /\ open # NONE
  /\ find_item(flash[write], open.key) # 0
  /\ call' = norcow_update_bytes(open.key, open.val, open.flashed)
  /\ open' = IF open.flashed + 1 = Len(open.val) THEN NONE
             ELSE [open EXCEPT !.flashed = @ + 1]
  /\ UNCHANGED <<build, flash, active, write, free, on, cut, store, left>>

(* The allocation found no room: the caller gives up.                      *)
norcowUpdateRefused ==
  /\ Idle /\ open # NONE
  /\ find_item(flash[write], open.key) = 0
  /\ open' = NONE
  /\ UNCHANGED <<build, flash, active, write, free, call, on, cut, store, left>>

norcowDelete(k) ==
  /\ Idle /\ open = NONE
  /\ find_item(flash[write], k) # 0
  /\ call' = norcow_delete(k)
  /\ UNCHANGED <<build, flash, active, write, free, open, on, cut, store, left>>

norcowWipe ==
  /\ Idle /\ open = NONE
  /\ call' = [kind |-> "wipe", key |-> NONE, val |-> NONE, fill |-> FALSE,
              plan |-> norcow_wipe(active), next |-> "return", pos |-> 1,
              moves |-> FALSE,
              act |-> active, wr |-> active, fr |-> 0]
  /\ UNCHANGED <<build, flash, active, write, free, open, on, cut, store, left>>

(* One flash operation of the call, or of the boot, in progress, and what  *)
(* the code does up to the next one.                                       *)
FlashStep ==
  /\ call # NONE /\ call.plan # <<>>
  /\ flash' = ApplyOp(flash, Head(call.plan))
  /\ call' = Resume(flash', [call EXCEPT !.plan = Tail(@)])
  /\ UNCHANGED <<build, active, write, free, open, on, cut, store, left>>

(* The call, or norcow_init, returns.                                      *)
Return ==
  /\ call # NONE /\ call.plan = <<>>
  /\ active' = call.act /\ write' = call.wr /\ free' = call.fr
  /\ call' = NONE /\ cut' = NONE
  /\ on' = TRUE
  /\ store' = Content(flash, call.act)
  /\ left' = Content(flash, 1 - call.act)
  /\ UNCHANGED <<build, flash, open>>

(* Power is lost, at any moment, and comes back: RAM is gone and           *)
(* norcow_init runs on what the flash holds.                               *)
PowerLoss ==
  /\ on' = FALSE
  /\ cut' = IF on THEN Summary(call) ELSE cut
  /\ call' = norcow_init(flash)
  /\ open' = NONE
  /\ active' = 0 /\ write' = 0 /\ free' = 0
  /\ UNCHANGED <<build, flash, store, left>>

Next == \/ \E k \in Keys, v \in Inputs : norcowSet(k, v)
        \/ \E k \in Keys, v \in Inputs : norcowAlloc(k, v)
        \/ norcowUpdateBytes
        \/ norcowUpdateRefused
        \/ \E k \in Keys : norcowDelete(k)
        \/ norcowWipe
        \/ FlashStep
        \/ Return
        \/ PowerLoss

Spec == Init /\ [][Next]_vars

-----------------------------------------------------------------------------

(* The statics, the flash and the pending call have the shape norcow.c     *)
(* gives them.                                                             *)
TypeOK ==
  /\ \A s \in Sectors :
       /\ flash[s].ver \in Versions
       /\ \A i \in DOMAIN flash[s].items : flash[s].items[i] \in Items
  /\ active \in Sectors /\ write \in Sectors /\ free \in 0..SECTOR_SIZE
  /\ call \in Calls \cup {NONE}
  /\ on \in BOOLEAN /\ (on /\ call # NONE => call.kind # "init")

(* No sector ever holds two live items of one key, whatever was cut short: *)
(* auth_get folds every item it meets into the authentication sum, so a    *)
(* duplicate would break the storage tag.                                  *)
UniqueLive ==
  \A s \in Sectors : \A i, j \in DOMAIN flash[s].items :
    (flash[s].items[i].key = flash[s].items[j].key /\ i # j)
       => flash[s].items[i].key = NORCOW_KEY_DELETED

(* Between calls the statics describe the flash: one sector is read and    *)
(* written ("These should be equal except when storage version upgrade or  *)
(* compaction is in progress"), it is the sector the next boot will pick,  *)
(* and the free offset is behind its last item.                            *)
StaticsMatchFlash ==
  Idle => /\ active = write
          /\ active = ActiveSector(flash)
          /\ flash[active].ver = NORCOW_VERSION
          /\ free = find_free_offset(flash[write])

(* Every ensure() around a flash write holds: a program operation only     *)
(* clears cells, a new item goes behind the last one of a sector that has  *)
(* room for it, and a header goes into an erased sector.                   *)
EnsureHolds ==
  call # NONE /\ call.plan # <<>> =>
    LET o == Head(call.plan) IN
    CASE o.op = "put" ->
           /\ o.pos \in DOMAIN flash[o.sec].items
           /\ LET was == flash[o.sec].items[o.pos] IN
              /\ o.item.key \in {was.key, NORCOW_KEY_DELETED}
              /\ \A j \in DOMAIN o.item.val : o.item.val[j] <= was.val[j]
      [] o.op = "append" ->
           find_free_offset(flash[o.sec]) + ItemSize(Len(o.item.val))
             <= SECTOR_SIZE
      [] o.op = "header" ->
           /\ flash[o.sec].items = <<>>
           /\ flash[o.sec].ver \in {NO_MAGIC, 0}
      [] OTHER -> TRUE

(* The code's store keeps the promises of KVStore, power losses included.  *)
KV == INSTANCE KVStore WITH pend <- IF on THEN Summary(call) ELSE cut

(* Every behaviour of norcow.c, cut short anywhere and rebooted, is one    *)
(* the contract of the key-value store allows.                             *)
ImplementsKVStore == KV!Spec

=============================================================================
