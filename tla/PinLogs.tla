------------------------------ MODULE PinLogs ------------------------------
(***************************************************************************)
(* The PIN failure counter of the bitwise build (pinlogs_bitwise.h), with  *)
(* the way unlock() and the fault handler of storage.c use it.             *)
(*                                                                         *)
(* The counter is a pair of logs of LOG_WORDS words. Bits are cleared in   *)
(* the entry log, one per PIN entry, from the top bit of the first word    *)
(* on; a success copies the entry log over the success log. So the entry   *)
(* log is the number of its cleared bits, and the success log the set of   *)
(* its cleared bits, numbered in the order of the entries. Guard bits are  *)
(* left out: they are constant, and an entry whose guard key or guard bits *)
(* are damaged is not whole.                                               *)
(*                                                                         *)
(* The flash programs a byte at a time and power may fail in between. The  *)
(* words are little-endian: the latest entries of a word are in the byte   *)
(* that is written first.                                                  *)
(*                                                                         *)
(* A definition named after another one with a suffix that says what is    *)
(* wrong is a slip that a property must catch; the specification does not  *)
(* use it.                                                                 *)
(***************************************************************************)
EXTENDS Integers, Sequences, FiniteSets

CONSTANTS LOG_WORDS,      \* PIN_LOG_WORDS
          WORD_BITS,      \* bits of a word that are not guard bits
          BYTE_BITS,      \* bits of a byte that are not guard bits
          PIN_MAX_TRIES

ASSUME PinLogsAssumption ==
  /\ LOG_WORDS \in Nat /\ LOG_WORDS >= 2
  /\ BYTE_BITS \in Nat \ {0} /\ WORD_BITS \in Nat \ {0}
  /\ WORD_BITS % BYTE_BITS = 0
  /\ PIN_MAX_TRIES \in 1..WORD_BITS

VARIABLES whole,    \* the PIN_LOGS entry is there and undamaged
          entry,    \* cleared bits of the entry log
          success,  \* cleared bits of the success log
          todo,     \* flash writes of the running handler
          pc,       \* what runs once todo is written
          ctr,      \* the failure counter the handler read
          tried,    \* history: PIN entries since a reset last began
          owed      \* history: PIN entries since a reset last finished

vars == <<whole, entry, success, todo, pc, ctr, tried, owed>>

BITS == LOG_WORDS * WORD_BITS
Word(p) == (p - 1) \div WORD_BITS

(* The byte, in memory order, that holds bit p.                            *)
Byte(p) == (Word(p) + 1) * (WORD_BITS \div BYTE_BITS) - 1
             - (((p - 1) % WORD_BITS) \div BYTE_BITS)

-----------------------------------------------------------------------------
(* pin_get_fails: the format checks, and the count over two words.         *)

Readable_exhausted == whole /\ success \subseteq 1..entry
Readable == /\ whole
            /\ success \subseteq 1..entry
            /\ entry < BITS               \* else "PIN log exhausted"

Current == IF entry < WORD_BITS THEN 1 ELSE entry \div WORD_BITS

Fails_one_word ==
  Cardinality({p \in 1..entry : /\ p \notin success
                                /\ Word(p) = entry \div WORD_BITS})
Fails == Cardinality({p \in 1..entry : /\ p \notin success
                                       /\ Word(p) \in {Current - 1, Current}})

-----------------------------------------------------------------------------
(* The flash writes of pin_logs_init, pin_fails_increase, pin_fails_reset. *)

(* norcow_set cannot program a new guard key over the old one: it deletes  *)
(* the entry and writes another.                                           *)
pin_logs_init == <<[op |-> "delete"], [op |-> "init"]>>

pin_fails_increase == <<[op |-> "enter"]>>

CopyLog_backwards ==
  LET n == LOG_WORDS * (WORD_BITS \div BYTE_BITS)
  IN [i \in 1..n |-> [op |-> "copy", byte |-> n - i]]

(* norcow_set programs the new words over the old ones, byte by byte.      *)
CopyLog == [n \in 1..(LOG_WORDS * (WORD_BITS \div BYTE_BITS)) |->
              [op |-> "copy", byte |-> n - 1]]

pin_fails_reset_full == IF entry < BITS THEN CopyLog ELSE pin_logs_init

(* The entry log is copied over the success log, unless its last word is   *)
(* in use: then both logs start afresh.                                    *)
pin_fails_reset ==
  IF entry <= BITS - WORD_BITS THEN CopyLog ELSE pin_logs_init

-----------------------------------------------------------------------------
Idle == pc = "idle" /\ todo = <<>>

(* storage_wipe: here, new PIN logs.                                       *)
storage_wipe ==
  /\ todo' = pin_logs_init
  /\ pc' = "reset"
  /\ UNCHANGED <<whole, entry, success, ctr, tried, owed>>

(* Count the fault, or wipe if the counter cannot be read.                 *)
handle_fault ==
  IF Readable
  THEN /\ ctr' = Fails
       /\ todo' = pin_fails_increase
       /\ pc' = "fault"
       /\ UNCHANGED <<whole, entry, success, tried, owed>>
  ELSE storage_wipe

(* Any other check of storage.c fails.                                     *)
Fault == Idle /\ handle_fault

(* The fault was counted: halt, to be switched off and on; else wipe.      *)
Halt ==
  /\ pc = "fault" /\ todo = <<>>
  /\ IF Readable /\ Fails = ctr + 1
     THEN /\ pc' = "idle" /\ ctr' = 0
          /\ UNCHANGED <<whole, entry, success, todo, tried, owed>>
     ELSE storage_wipe

(* unlock(): wipe after too many failures, else count the entry.           *)
UnlockFault == Idle /\ ~Readable /\ handle_fault
UnlockTooMany == Idle /\ Readable /\ Fails >= PIN_MAX_TRIES /\ storage_wipe
UnlockTry ==
  /\ Idle /\ Readable
  /\ Fails < PIN_MAX_TRIES
  /\ ctr' = Fails
  /\ todo' = pin_fails_increase
  /\ pc' = "verify"
  /\ UNCHANGED <<whole, entry, success, tried, owed>>

Verify == pc = "verify" /\ todo = <<>>
Counted == Readable /\ Fails = ctr + 1

VerifyFault == Verify /\ ~Counted /\ handle_fault

VerifyWrong ==
  /\ Verify /\ Counted
  /\ IF ctr + 1 >= PIN_MAX_TRIES THEN storage_wipe
     ELSE /\ pc' = "idle" /\ ctr' = 0
          /\ UNCHANGED <<whole, entry, success, todo, tried, owed>>

VerifyRight ==
  /\ Verify /\ Counted
  /\ todo' = pin_fails_reset
  /\ pc' = "reset" /\ tried' = 0
  /\ UNCHANGED <<whole, entry, success, ctr, owed>>

(* pin_fails_reset or pin_logs_init returns.                               *)
ResetDone ==
  /\ pc = "reset" /\ todo = <<>>
  /\ pc' = "idle" /\ ctr' = 0
  /\ UNCHANGED <<whole, entry, success, todo, tried, owed>>

-----------------------------------------------------------------------------
(* The next flash write.                                                   *)

Written == /\ todo' = Tail(todo)
           /\ UNCHANGED <<pc, ctr>>

WriteEntry ==
  /\ todo # <<>> /\ Head(todo).op = "enter"
  /\ entry' = entry + 1
  /\ tried' = tried + 1 /\ owed' = owed + 1
  /\ Written /\ UNCHANGED <<whole, success>>

WriteSuccess ==
  /\ todo # <<>> /\ Head(todo).op = "copy"
  /\ success' = success \cup {p \in 1..entry : Byte(p) = Head(todo).byte}
  /\ owed' = IF Tail(todo) = <<>> THEN 0 ELSE owed
  /\ Written /\ UNCHANGED <<whole, entry, tried>>

(* The old entry is damaged or gone from here on.                          *)
WriteDelete ==
  /\ todo # <<>> /\ Head(todo).op = "delete"
  /\ whole' = FALSE
  /\ Written /\ UNCHANGED <<entry, success, tried, owed>>

WriteInit ==
  /\ todo # <<>> /\ Head(todo).op = "init"
  /\ whole' = TRUE /\ entry' = 0 /\ success' = {}
  /\ tried' = 0 /\ owed' = 0
  /\ Written

PowerLoss ==
  /\ ~Idle
  /\ pc' = "idle" /\ todo' = <<>> /\ ctr' = 0
  /\ UNCHANGED <<whole, entry, success, tried, owed>>

(* pin_logs_init(fails): a wiped storage, or the count of version 0.       *)
Init ==
  /\ entry \in 0..(PIN_MAX_TRIES - 1)
  /\ whole = TRUE /\ success = {}
  /\ todo = <<>> /\ pc = "idle" /\ ctr = 0
  /\ tried = entry /\ owed = entry

Next == \/ Fault \/ Halt
        \/ UnlockFault \/ UnlockTooMany \/ UnlockTry
        \/ VerifyFault \/ VerifyWrong \/ VerifyRight
        \/ ResetDone
        \/ WriteEntry \/ WriteSuccess \/ WriteDelete \/ WriteInit
        \/ PowerLoss

Spec == Init /\ [][Next]_vars

-----------------------------------------------------------------------------
Op == [op : {"enter", "delete", "init"}]
        \cup [op : {"copy"}, byte : 0..(BITS \div BYTE_BITS - 1)]

(* The logs stay within their words, and only bits that the entry log has  *)
(* cleared are ever cleared in the success log.                            *)
TypeOK ==
  /\ whole \in BOOLEAN /\ entry \in 0..BITS /\ success \subseteq 1..entry
  /\ todo \in Seq(Op)
  /\ pc \in {"idle", "verify", "reset", "fault"}
  /\ ctr \in 0..BITS /\ tried \in Nat /\ owed \in Nat

(* The count that can be read is no less than the entries since a success  *)
(* was last recorded (or is at the limit) and no more than the entries     *)
(* since one was completely recorded, although only two words are looked   *)
(* at and the recording may have been cut short several times.             *)
CountInRange ==
  Readable => /\ tried <= Fails \/ Fails >= PIN_MAX_TRIES
              /\ Fails <= owed

(* An undamaged log becomes unreadable only when PIN_MAX_TRIES entries in  *)
(* a row were counted: successful entries alone never exhaust it.          *)
ExhaustedOnlyAtLimit == whole /\ ~Readable => owed >= PIN_MAX_TRIES

(* What Storage takes for granted about the counter: it goes up by one, it *)
(* goes down only while a success is recorded, beyond PIN_MAX_TRIES it     *)
(* never falls below that limit otherwise, and an undamaged log becomes    *)
(* unreadable only with an entry that brings the count to that limit.      *)
CountSteps ==
  [][/\ Readable /\ Readable' /\ pc # "reset" =>
          \/ Fails' \in {Fails, Fails + 1}
          \/ Fails >= PIN_MAX_TRIES /\ Fails' >= PIN_MAX_TRIES
     /\ Readable /\ whole' /\ ~Readable' => Fails + 1 >= PIN_MAX_TRIES]_vars

(* "try an invalid PIN MAX - 1 times [...] this should pass"               *)
(* (storage/tests/tests/test_pin.py, of the right PIN after that): an      *)
(* entry that unlock() lets through can be verified. It fails where the    *)
(* last allowed entry also clears the last bit of the entry log.           *)
LastTryGranted == Verify /\ ctr < PIN_MAX_TRIES => Readable

=============================================================================
