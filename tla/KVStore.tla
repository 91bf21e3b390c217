------------------------------ MODULE KVStore ------------------------------
(***************************************************************************)
(* What the flash key-value store (storage/norcow.h) promises to the code  *)
(* above it when power may fail at any moment.                             *)
(*                                                                         *)
(*   - A call that returns has taken effect on its own key and on nothing  *)
(*     else; a set that finds no room has already deleted the old value.   *)
(*   - A set or delete cut short by a power loss affects, after the next   *)
(*     boot, only the key it was called for: that key reads as the old     *)
(*     value, as the new one, as one of the two partly programmed, or is   *)
(*     gone.                                                               *)
(*   - The exception is a call that had to move the items to a sector that *)
(*     the next boot prefers (pend.moves): then every key may have kept    *)
(*     its value, lost it, or kept a partly copied one. Nothing else may   *)
(*     come out of it: no other key's value and no older value.            *)
(*   - A wipe cut short leaves everything, nothing, or (a part of) what an *)
(*     earlier interrupted move left behind in the other sector.           *)
(*                                                                         *)
(* A value is a sequence of flash cells, 1 = erased and 0 = programmed.    *)
(***************************************************************************)
EXTENDS Integers, Sequences

CONSTANTS Keys,     \* the keys in use
          Lens,     \* the lengths of the values, in cells
          NONE      \* a key without a value, or no call in progress

VARIABLES store,    \* what norcow_get returned at the last quiescent point
          left,     \* what the sector that is not in use still holds
          pend,     \* the call in progress or cut short, or NONE
          on        \* powered, and past norcow_init

vars == <<store, left, pend, on>>

Value == UNION {[1..n -> 0..1] : n \in Lens}
Content == [Keys -> Value \cup {NONE}]
Call == [kind : {"set", "delete", "wipe", "init"}, key : Keys \cup {NONE},
         val : Value \cup {NONE}, moves : BOOLEAN]

Ones(n) == [j \in 1..n |-> 1]
Zeros(n) == [j \in 1..n |-> 0]
Empty == [k \in Keys |-> NONE]

(* The first m cells of v, then the cells of w (of the same length).       *)
Splice(v, w, m) == [j \in 1..Len(v) |-> IF j <= m THEN v[j] ELSE w[j]]

(* A value of which only the first cells have been programmed yet.         *)
Written(v) == IF v = NONE THEN {}
              ELSE {Splice(v, Ones(Len(v)), m) : m \in 0..Len(v)}

(* A value of which the first cells have been cleared already.             *)
Cleared(v) == IF v = NONE THEN {}
              ELSE {Splice(Zeros(Len(v)), v, m) : m \in 0..Len(v)}

(* What a key can read as after a call that changes it from old to new was *)
(* cut short.                                                              *)
Residue(old, new) ==
  {NONE, old} \cup Written(new) \cup Cleared(old)
    \cup (IF old # NONE /\ new # NONE /\ Len(old) = Len(new)
          THEN {Splice(new, old, m) : m \in 0..Len(old)} ELSE {})

(* What a key that is merely copied can read as after the copying was cut  *)
(* short.                                                                  *)
Copied(v) == {NONE, v} \cup Written(v)

Init == /\ store \in Content
        /\ left = Empty
        /\ pend \in [kind : {"init"}, key : {NONE}, val : {NONE},
                     moves : BOOLEAN]
        /\ on = FALSE

Begin(c) == /\ on /\ pend = NONE
            /\ pend' = c
            /\ UNCHANGED <<store, left, on>>

(* The value a set or delete leaves under its key.                         *)
Target(c) == IF c.kind = "set" THEN c.val ELSE NONE

(* The call returns: it succeeded, or it was a set that found no room.     *)
Return == /\ on /\ pend # NONE
          /\ store' \in IF pend.kind = "wipe" THEN {Empty}
                        ELSE {[store EXCEPT ![pend.key] = v] :
                                v \in {Target(pend), NONE}}
          /\ left' \in {left, Empty}
          /\ pend' = NONE
          /\ UNCHANGED on

PowerLoss == /\ on
             /\ on' = FALSE
             /\ UNCHANGED <<store, left, pend>>

(* What the next boot may find.                                            *)
Recovered(new) ==
  IF pend = NONE THEN new = store
  ELSE IF pend.kind = "wipe"
       THEN new = store \/ \A k \in Keys : new[k] \in Copied(left[k])
  ELSE \A k \in Keys :
         new[k] \in (IF k = pend.key THEN Residue(store[k], Target(pend))
                     ELSE {store[k]})
                    \cup (IF pend.moves THEN Copied(store[k]) ELSE {})

Recover == /\ ~on
           /\ on' = TRUE
           /\ pend' = NONE
           /\ store' \in Content
           /\ Recovered(store')
           /\ left' \in Content
           /\ \A k \in Keys :
                left'[k] \in {left[k], NONE}
                  \cup (IF pend = NONE THEN {} ELSE Copied(store[k]))

Next == \/ \E c \in Call : Begin(c)
        \/ Return
        \/ PowerLoss
        \/ Recover

Spec == Init /\ [][Next]_vars

TypeOK == /\ store \in Content
          /\ left \in Content
          /\ pend \in Call \cup {NONE}
          /\ on \in BOOLEAN

=============================================================================
