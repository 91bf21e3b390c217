--------------------------- MODULE PinLogsProofs ---------------------------
(***************************************************************************)
(* Theorems about PinLogs for every size of the logs, of a word and of a   *)
(* byte, and every limit of tries that fits in a word.                     *)
(***************************************************************************)
EXTENDS PinLogs, FiniteSetTheorems, TLAPS

-----------------------------------------------------------------------------
(* Words and bytes. W bits are in a word, in PerWord bytes.                *)

PerWord == WORD_BITS \div BYTE_BITS
BYTES == LOG_WORDS * PerWord

LEMMA Division ==
  ASSUME NEW a \in Nat, NEW b \in Nat \ {0}
  PROVE  /\ a \div b \in Nat /\ a % b \in 0..(b - 1)
         /\ a % b = a - b * (a \div b)
<1>1. a \div b \in Nat /\ a % b \in 0..(b - 1)
  OBVIOUS
<1>2. a % b = a - b * (a \div b)
  OBVIOUS
<1> QED BY <1>1, <1>2

LEMMA Times ==
  ASSUME NEW a \in Int, NEW b \in Int, NEW c \in Nat, a <= b
  PROVE  a * c <= b * c /\ a * c \in Int /\ b * c \in Int
OBVIOUS

LEMMA Sizes ==
  /\ WORD_BITS \in Nat \ {0} /\ BYTE_BITS \in Nat \ {0}
  /\ PerWord \in Nat \ {0} /\ WORD_BITS = PerWord * BYTE_BITS
  /\ BYTES \in Nat \ {0} /\ BITS \in Nat \ {0} /\ BITS >= 2 * WORD_BITS
  /\ BITS \div BYTE_BITS = BYTES
  /\ PIN_MAX_TRIES \in Nat \ {0} /\ PIN_MAX_TRIES <= WORD_BITS
<1>1. /\ WORD_BITS \in Nat \ {0} /\ BYTE_BITS \in Nat \ {0}
      /\ LOG_WORDS \in Nat /\ LOG_WORDS >= 2 /\ WORD_BITS % BYTE_BITS = 0
      /\ PIN_MAX_TRIES \in Nat \ {0} /\ PIN_MAX_TRIES <= WORD_BITS
  BY PinLogsAssumption
<1>2. PerWord \in Nat \ {0} /\ WORD_BITS = PerWord * BYTE_BITS
  BY <1>1, Division DEF PerWord
<1>3. BYTES \in Nat \ {0} /\ BITS \in Nat \ {0}
  BY <1>1, <1>2 DEF BYTES, BITS
<1>4. BITS >= 2 * WORD_BITS
  BY <1>1, Times DEF BITS
<1>5. BITS = BYTES * BYTE_BITS
  BY <1>1, <1>2 DEF BITS, BYTES
<1>6. BITS \div BYTE_BITS = BYTES
  BY <1>1, <1>3, <1>5
<1> QED BY <1>1, <1>2, <1>3, <1>4, <1>6

LEMMA WordIs ==
  ASSUME NEW p \in Nat \ {0}
  PROVE  /\ Word(p) \in Nat
         /\ Word(p) * WORD_BITS < p /\ p <= (Word(p) + 1) * WORD_BITS
<1>1. p - 1 \in Nat /\ WORD_BITS \in Nat \ {0}
  BY Sizes
<1>2. PICK q, r : q = (p - 1) \div WORD_BITS /\ r = (p - 1) % WORD_BITS
  OBVIOUS
<1>3. q \in Nat /\ r \in 0..(WORD_BITS - 1) /\ r = p - 1 - WORD_BITS * q
  BY <1>1, <1>2, Division
<1>4. q * WORD_BITS < p /\ p <= (q + 1) * WORD_BITS
  BY <1>1, <1>3
<1> QED BY <1>2, <1>3, <1>4 DEF Word

LEMMA WordUnique ==
  ASSUME NEW p \in Nat \ {0}, NEW w \in Nat,
         w * WORD_BITS < p, p <= (w + 1) * WORD_BITS
  PROVE  Word(p) = w
<1>1. /\ Word(p) \in Nat /\ WORD_BITS \in Nat \ {0}
      /\ Word(p) * WORD_BITS < p /\ p <= (Word(p) + 1) * WORD_BITS
  BY WordIs, Sizes
<1>2. ~(w < Word(p))
  <2> SUFFICES ASSUME w < Word(p) PROVE FALSE
    OBVIOUS
  <2>1. (w + 1) * WORD_BITS <= Word(p) * WORD_BITS
    BY <1>1, Times
  <2> QED BY <1>1, <2>1
<1>3. ~(Word(p) < w)
  <2> SUFFICES ASSUME Word(p) < w PROVE FALSE
    OBVIOUS
  <2>1. (Word(p) + 1) * WORD_BITS <= w * WORD_BITS
    BY <1>1, Times
  <2> QED BY <1>1, <2>1
<1> QED BY <1>1, <1>2, <1>3

LEMMA WordMonotone ==
  ASSUME NEW p \in Nat \ {0}, NEW q \in Nat \ {0}, Word(p) < Word(q)
  PROVE  p < q
<1>1. /\ Word(p) \in Nat /\ Word(q) \in Nat /\ WORD_BITS \in Nat
      /\ p <= (Word(p) + 1) * WORD_BITS /\ Word(q) * WORD_BITS < q
  BY WordIs, Sizes
<1>2. (Word(p) + 1) * WORD_BITS <= Word(q) * WORD_BITS
  BY <1>1, Times
<1> QED BY <1>1, <1>2

(* The bytes of a word come after those of the words before it.            *)
LEMMA ByteIs ==
  ASSUME NEW p \in Nat \ {0}
  PROVE  /\ Byte(p) \in Int /\ Word(p) * PerWord <= Byte(p)
         /\ Byte(p) < (Word(p) + 1) * PerWord
<1> DEFINE a == (p - 1) % WORD_BITS
           r == a \div BYTE_BITS
<1>1. a \in 0..(WORD_BITS - 1)
  BY Sizes, Division
<1> HIDE DEF a
<1>2. r \in Nat /\ r * BYTE_BITS <= a
  BY <1>1, Sizes, Division
<1>3. Byte(p) = (Word(p) + 1) * PerWord - 1 - r
  BY DEF Byte, PerWord, a
<1> HIDE DEF r
<1>4. r < PerWord
  <2> SUFFICES ASSUME PerWord <= r PROVE FALSE
    BY <1>2, Sizes
  <2>1. PerWord * BYTE_BITS <= r * BYTE_BITS
    BY <1>2, Sizes, Times
  <2> QED BY <1>1, <1>2, <2>1, Sizes
<1>5. (Word(p) + 1) * PerWord = Word(p) * PerWord + PerWord
      /\ Word(p) * PerWord \in Int
  BY WordIs, Sizes
<1> QED BY <1>2, <1>3, <1>4, <1>5, Sizes

LEMMA ByteOrder ==
  ASSUME NEW p \in Nat \ {0}, NEW q \in Nat \ {0}, Word(p) < Word(q)
  PROVE  Byte(p) < Byte(q)
<1>1. Word(p) \in Nat /\ Word(q) \in Nat /\ PerWord \in Nat
  BY WordIs, Sizes
<1>2. (Word(p) + 1) * PerWord <= Word(q) * PerWord
  BY <1>1, Times
<1> QED BY <1>1, <1>2, ByteIs, Times

LEMMA ByteRange ==
  ASSUME NEW p \in 1..BITS
  PROVE  Byte(p) \in 0..(BYTES - 1)
<1>1. p \in Nat \ {0} /\ p <= LOG_WORDS * WORD_BITS /\ LOG_WORDS \in Nat
  BY Sizes, PinLogsAssumption DEF BITS
<1>2. Word(p) \in Nat /\ Word(p) * WORD_BITS < p /\ PerWord \in Nat
  BY <1>1, WordIs, Sizes
<1>3. Word(p) + 1 <= LOG_WORDS
  <2> SUFFICES ASSUME LOG_WORDS <= Word(p) PROVE FALSE
    BY <1>1, <1>2
  <2>1. LOG_WORDS * WORD_BITS <= Word(p) * WORD_BITS
    BY <1>1, <1>2, Sizes, Times
  <2> QED BY <1>1, <1>2, <2>1, Sizes
<1>4. (Word(p) + 1) * PerWord <= BYTES
  BY <1>1, <1>2, <1>3, Times DEF BYTES
<1>5. 0 <= Word(p) * PerWord /\ Word(p) * PerWord \in Int
  BY <1>2
<1>6. Byte(p) \in Int /\ Word(p) * PerWord <= Byte(p)
      /\ Byte(p) < (Word(p) + 1) * PerWord
  BY <1>1, ByteIs
<1>7. (Word(p) + 1) * PerWord \in Int /\ BYTES \in Nat
  BY <1>2, Sizes
<1> QED BY <1>4, <1>5, <1>6, <1>7

-----------------------------------------------------------------------------
(* The invariant. A reset that is cut short leaves the success log with    *)
(* the words before some word and a part of that word: the bits since the  *)
(* last reset began are never among them, those before the last reset that *)
(* finished always are.                                                    *)

(* The copy of the entry log has come to byte j.                           *)
Copying(j) ==
  /\ j \in 0..(BYTES - 1) /\ Len(todo) = BYTES - j
  /\ \A i \in 1..Len(todo) : todo[i] = [op |-> "copy", byte |-> j + i - 1]
  /\ \A p \in 1..entry : Byte(p) < j => p \in success
  /\ tried = 0 /\ entry <= BITS - WORD_BITS

TodoOK ==
  \/ todo = <<>>
  \/ pc \in {"verify", "fault"} /\ todo = pin_fails_increase /\ entry < BITS
  \/ pc = "reset" /\ todo \in {pin_logs_init, <<[op |-> "init"]>>}
  \/ pc = "reset" /\ \E j \in Int : Copying(j)

WordsInOrder ==
  \A p, q \in 1..entry : q \in success /\ Word(p) < Word(q) => p \in success

LogInv ==
  /\ TypeOK /\ TodoOK /\ WordsInOrder
  /\ tried <= entry /\ success \subseteq 1..(entry - tried)
  /\ owed <= entry /\ entry - owed <= BITS - WORD_BITS
  /\ 1..(entry - owed) \subseteq success

-----------------------------------------------------------------------------
(* The count of pin_get_fails, for e entries and the success log S: the    *)
(* bits of a window of two words.                                          *)

Cur(e) == IF e < WORD_BITS THEN 1 ELSE e \div WORD_BITS
FailSet(e, S) ==
  {p \in 1..e : p \notin S /\ Word(p) \in {Cur(e) - 1, Cur(e)}}
Count(e, S) == Cardinality(FailSet(e, S))

LEMMA FailsAre == Fails = Count(entry, success)
BY DEF Fails, Count, FailSet, Cur, Current

LEMMA CountType ==
  ASSUME NEW e \in Nat, NEW S
  PROVE  IsFiniteSet(FailSet(e, S)) /\ Count(e, S) \in 0..e
<1>1. IsFiniteSet(1..e) /\ Cardinality(1..e) = e
  BY FS_Interval
<1>2. FailSet(e, S) \in SUBSET (1..e)
  BY DEF FailSet
<1>3. IsFiniteSet(FailSet(e, S)) /\ Cardinality(FailSet(e, S)) <= e
  BY <1>1, <1>2, FS_Subset
<1>4. Cardinality(FailSet(e, S)) \in Nat
  BY <1>3, FS_CardinalityType
<1> QED BY <1>3, <1>4 DEF Count

LEMMA CurIs ==
  ASSUME NEW e \in Nat
  PROVE  /\ Cur(e) \in Nat \ {0} /\ e < (Cur(e) + 1) * WORD_BITS
         /\ e < WORD_BITS => Cur(e) = 1
         /\ e >= WORD_BITS => Cur(e) * WORD_BITS <= e
<1>1. WORD_BITS \in Nat \ {0}
  BY Sizes
<1>2. CASE e < WORD_BITS
  BY <1>1, <1>2 DEF Cur
<1>3. CASE e >= WORD_BITS
  <2>1. PICK q, r : q = e \div WORD_BITS /\ r = e % WORD_BITS
    OBVIOUS
  <2>2. q \in Nat /\ r \in 0..(WORD_BITS - 1) /\ r = e - WORD_BITS * q
    BY <1>1, <2>1, Division
  <2>3. q # 0
    BY <1>1, <1>3, <2>2
  <2>4. e < (q + 1) * WORD_BITS /\ q * WORD_BITS <= e
    BY <1>1, <2>2
  <2>5. Cur(e) = q
    BY <1>1, <1>3, <2>1 DEF Cur
  <2> QED BY <1>1, <1>3, <2>2, <2>3, <2>4, <2>5
<1> QED BY <1>1, <1>2, <1>3

(* The window reaches from the last entry back over at least a word.       *)
LEMMA Window ==
  ASSUME NEW e \in Nat, NEW p \in 1..e
  PROVE  /\ p > (Cur(e) - 1) * WORD_BITS <=> Word(p) \in {Cur(e) - 1, Cur(e)}
         /\ p > e - WORD_BITS => p > (Cur(e) - 1) * WORD_BITS
<1>1. /\ WORD_BITS \in Nat \ {0} /\ Cur(e) \in Nat \ {0} /\ p \in Nat \ {0}
      /\ e < (Cur(e) + 1) * WORD_BITS
  BY Sizes, CurIs
<1>2. /\ Word(p) \in Nat /\ Word(p) * WORD_BITS < p
      /\ p <= (Word(p) + 1) * WORD_BITS
  BY <1>1, WordIs
<1>3. PICK c, w : c = Cur(e) /\ w = Word(p)
  OBVIOUS
<1>4. ~(c + 1 <= w)
  <2> SUFFICES ASSUME c + 1 <= w PROVE FALSE
    OBVIOUS
  <2>1. (c + 1) * WORD_BITS <= w * WORD_BITS
    BY <1>1, <1>2, <1>3, Times
  <2> QED BY <1>1, <1>2, <1>3, <2>1
<1>5. p > (c - 1) * WORD_BITS => w \in {c - 1, c}
  <2>2. c \in Nat \ {0} /\ w \in Nat
    BY <1>1, <1>2, <1>3
  <2>3. w \notin {c - 1, c} => w + 1 <= c - 1
    BY <1>4, <2>2
  <2> SUFFICES ASSUME p > (c - 1) * WORD_BITS, w + 1 <= c - 1 PROVE FALSE
    BY <2>3
  <2>1. (w + 1) * WORD_BITS <= (c - 1) * WORD_BITS
    BY <1>1, <1>2, <1>3, Times
  <2> QED BY <1>1, <1>2, <1>3, <2>1
<1>6. w \in {c - 1, c} => p > (c - 1) * WORD_BITS
  <2> SUFFICES ASSUME c - 1 <= w PROVE p > (c - 1) * WORD_BITS
    BY <1>1, <1>2, <1>3
  <2>1. (c - 1) * WORD_BITS <= w * WORD_BITS
    BY <1>1, <1>2, <1>3, Times
  <2> QED BY <1>1, <1>2, <1>3, <2>1
<1>7. p > e - WORD_BITS => p > (c - 1) * WORD_BITS
  <2>1. CASE e < WORD_BITS
    BY <1>1, <1>3, <2>1, CurIs
  <2>2. CASE e >= WORD_BITS
    <3>1. c * WORD_BITS <= e
      BY <1>3, <2>2, CurIs
    <3>2. (c - 1) * WORD_BITS = c * WORD_BITS - WORD_BITS
          /\ c * WORD_BITS \in Int
      BY <1>1, <1>3
    <3> QED BY <1>1, <3>1, <3>2
  <2> QED BY <1>1, <2>1, <2>2
<1> QED BY <1>3, <1>5, <1>6, <1>7

LEMMA CountAtLeast ==
  ASSUME NEW e \in Nat, NEW S, NEW a \in Nat, NEW u \in Nat, u <= e,
         a <= u, a <= WORD_BITS, S \subseteq 1..(e - u)
  PROVE  a <= Count(e, S)
<1> DEFINE I == (e - a + 1)..e
<1>1. IsFiniteSet(I) /\ Cardinality(I) = a
  <2>1. PICK b \in Int : b = e - a + 1
    OBVIOUS
  <2>2. /\ IsFiniteSet(b..e)
        /\ Cardinality(b..e) = IF b > e THEN 0 ELSE e - b + 1
    BY FS_Interval
  <2> QED BY <2>1, <2>2
<1>2. I \subseteq FailSet(e, S)
  <2> SUFFICES ASSUME NEW p \in I PROVE p \in FailSet(e, S)
    OBVIOUS
  <2>1. p \in 1..e /\ p \notin S /\ p > e - WORD_BITS
    BY Sizes
  <2> QED BY <2>1, Window DEF FailSet
<1> HIDE DEF I
<1>3. Cardinality(I) <= Cardinality(FailSet(e, S))
  <2>1. IsFiniteSet(FailSet(e, S)) /\ I \in SUBSET FailSet(e, S)
    BY <1>2, CountType
  <2> QED BY <2>1, FS_Subset
<1> QED BY <1>1, <1>3 DEF Count

LEMMA CountAtMost ==
  ASSUME NEW e \in Nat, NEW S, NEW o \in Nat, o <= e, 1..(e - o) \subseteq S
  PROVE  Count(e, S) <= o
<1> DEFINE I == (e - o + 1)..e
<1>1. IsFiniteSet(I) /\ Cardinality(I) = o
  BY FS_Interval
<1>2. FailSet(e, S) \in SUBSET I
  <2> SUFFICES ASSUME NEW p \in FailSet(e, S) PROVE p \in I
    OBVIOUS
  <2>1. p \in 1..e /\ p \notin 1..(e - o)
    BY DEF FailSet
  <2> QED BY <2>1
<1> HIDE DEF I
<1>3. Cardinality(FailSet(e, S)) <= Cardinality(I)
  BY <1>1, <1>2, FS_Subset
<1> QED BY <1>1, <1>3 DEF Count

(* One more entry: the count goes up by one, or the window moves on and    *)
(* leaves failures behind. Then no bit of the latest word is in the        *)
(* success log, which has its words in order: a whole word of failures is  *)
(* counted, before and after.                                              *)
LEMMA CountNext ==
  ASSUME NEW e \in Nat, NEW S, S \subseteq 1..e,
         \A p, q \in 1..e : q \in S /\ Word(p) < Word(q) => p \in S
  PROVE  \/ Count(e + 1, S) = Count(e, S) + 1
         \/ Count(e, S) >= PIN_MAX_TRIES /\ Count(e + 1, S) >= PIN_MAX_TRIES
<1>1. PICK c, d, F, G : /\ c = Cur(e) /\ d = Cur(e + 1)
                        /\ F = FailSet(e, S) /\ G = FailSet(e + 1, S)
  OBVIOUS
<1>2. /\ c \in Nat \ {0} /\ d \in Nat \ {0} /\ WORD_BITS \in Nat \ {0}
      /\ e < (c + 1) * WORD_BITS /\ e + 1 < (d + 1) * WORD_BITS
      /\ e < WORD_BITS => c = 1
      /\ e + 1 < WORD_BITS => d = 1
      /\ e >= WORD_BITS => c * WORD_BITS <= e
      /\ e + 1 >= WORD_BITS => d * WORD_BITS <= e + 1
  BY <1>1, CurIs, Sizes
<1>3. /\ \A p : p \in F <=> p \in 1..e /\ p \notin S
                            /\ p > (c - 1) * WORD_BITS
      /\ \A p : p \in G <=> p \in 1..(e + 1) /\ p \notin S
                            /\ p > (d - 1) * WORD_BITS
  BY <1>1, Window DEF FailSet
<1>4. /\ IsFiniteSet(F) /\ IsFiniteSet(G)
      /\ Cardinality(F) \in Nat /\ Cardinality(G) \in Nat
      /\ Count(e, S) = Cardinality(F) /\ Count(e + 1, S) = Cardinality(G)
  BY <1>1, CountType DEF Count
<1>5. ASSUME G = F \cup {e + 1}
      PROVE  Count(e + 1, S) = Count(e, S) + 1
  BY <1>3, <1>4, <1>5, FS_AddElement
<1>6. e + 1 \notin S
  OBVIOUS
<1>7. c <= d /\ d <= c + 1
  <2>1. ~(d + 1 <= c)
    <3> SUFFICES ASSUME d + 1 <= c PROVE FALSE
      OBVIOUS
    <3>1. (d + 1) * WORD_BITS <= c * WORD_BITS
      BY <1>2, Times
    <3>2. e >= WORD_BITS
      BY <1>2
    <3> QED BY <1>2, <3>1, <3>2
  <2>2. ~(c + 2 <= d)
    <3> SUFFICES ASSUME c + 2 <= d PROVE FALSE
      OBVIOUS
    <3>1. (c + 2) * WORD_BITS <= d * WORD_BITS
      BY <1>2, Times
    <3>2. (c + 2) * WORD_BITS = (c + 1) * WORD_BITS + WORD_BITS
      BY <1>2
    <3>3. e + 1 >= WORD_BITS
      BY <1>2
    <3> QED BY <1>2, <3>1, <3>2, <3>3
  <2> QED BY <1>2, <2>1, <2>2
<1>8. CASE d = c
  <2>1. e + 1 > (c - 1) * WORD_BITS
    <3>1. (c - 1) * WORD_BITS = c * WORD_BITS - WORD_BITS
          /\ c * WORD_BITS \in Int
      BY <1>2
    <3> QED BY <1>2, <1>8, <3>1
  <2>2. G = F \cup {e + 1}
    BY <1>3, <1>6, <1>8, <2>1
  <2> QED BY <1>5, <2>2
<1>9. CASE d = c + 1
  <2>1. e + 1 = (c + 1) * WORD_BITS /\ e >= WORD_BITS
    BY <1>2, <1>9
  <2>2. PICK b \in Nat : b = c * WORD_BITS
    BY <1>2
  <2>3. e + 1 = b + WORD_BITS /\ (c - 1) * WORD_BITS = b - WORD_BITS
    BY <1>2, <2>1, <2>2
  <2>4. /\ \A p : p \in F <=> p \in 1..e /\ p \notin S /\ p > b - WORD_BITS
        /\ \A p : p \in G <=> p \in 1..(e + 1) /\ p \notin S /\ p > b
    <3>1. (d - 1) * WORD_BITS = b
      BY <1>2, <1>9, <2>2
    <3> QED BY <1>3, <2>3, <3>1
  <2>5. CASE \A p \in F : p > b
    <3>1. G = F \cup {e + 1}
      BY <1>2, <1>6, <2>3, <2>4, <2>5
    <3> QED BY <1>5, <3>1
  <2>6. CASE \E x \in F : x <= b
    <3>1. PICK x \in F : x <= b
      BY <2>6
    <3>2. ASSUME NEW q \in (b + 1)..e PROVE q \notin S
      <4>1. Word(q) = c
        <5>1. q \in Nat \ {0} /\ c * WORD_BITS < q /\ q <= (c + 1) * WORD_BITS
          BY <2>1, <2>2
        <5> QED BY <1>2, <5>1, WordUnique
      <4>2. Word(x) = c - 1
        <5>1. x \in Nat \ {0} /\ c - 1 \in Nat
          BY <1>2, <2>4, <3>1
        <5>2. (c - 1) * WORD_BITS < x /\ x <= ((c - 1) + 1) * WORD_BITS
          BY <1>2, <2>2, <2>3, <2>4, <3>1
        <5> QED BY <5>1, <5>2, WordUnique
      <4>3. x \in 1..e /\ q \in 1..e /\ x \notin S /\ Word(x) < Word(q)
        BY <1>2, <2>4, <3>1, <4>1, <4>2
      <4> QED BY <4>3
    <3> DEFINE I == (b + 1)..e
    <3>3. IsFiniteSet(I) /\ Cardinality(I) = WORD_BITS - 1
      <4>1. PICK a \in Int : a = b + 1
        OBVIOUS
      <4>2. /\ IsFiniteSet(a..e)
            /\ Cardinality(a..e) = IF a > e THEN 0 ELSE e - a + 1
        BY FS_Interval
      <4> QED BY <1>2, <2>3, <4>1, <4>2
    <3>4. /\ x \notin I /\ e + 1 \notin I
          /\ I \cup {x} \in SUBSET F /\ I \cup {e + 1} \in SUBSET G
      <4>1. x \notin I /\ e + 1 \notin I
        BY <2>4, <3>1
      <4>2. I \subseteq F /\ I \subseteq G
        BY <1>2, <2>3, <2>4, <3>2
      <4>3. e + 1 \in G
        BY <1>2, <1>6, <2>3, <2>4
      <4> HIDE DEF I
      <4> QED BY <3>1, <4>1, <4>2, <4>3
    <3> HIDE DEF I
    <3>5. /\ Cardinality(I \cup {x}) = WORD_BITS
          /\ Cardinality(I \cup {e + 1}) = WORD_BITS
      <4>1. \A y : y \notin I => Cardinality(I \cup {y}) = Cardinality(I) + 1
        BY <3>3, FS_AddElement
      <4>2. PICK y : y = e + 1
        OBVIOUS
      <4>3. /\ Cardinality(I \cup {x}) = Cardinality(I) + 1
            /\ Cardinality(I \cup {y}) = Cardinality(I) + 1
        BY <3>4, <4>1, <4>2
      <4> QED BY <1>2, <3>3, <4>2, <4>3
    <3>6. WORD_BITS <= Cardinality(F) /\ WORD_BITS <= Cardinality(G)
      BY <1>4, <3>4, <3>5, FS_Subset
    <3> QED BY <1>4, <3>6, Sizes
  <2> QED BY <2>4, <2>5, <2>6
<1> QED BY <1>2, <1>7, <1>8, <1>9

-----------------------------------------------------------------------------
(* The handlers that only schedule writes.                                 *)

LEMMA Schedules ==
  /\ <<>> \in Seq(Op) /\ pin_fails_increase \in Seq(Op)
  /\ pin_logs_init \in Seq(Op) /\ <<[op |-> "init"]>> \in Seq(Op)
  /\ CopyLog \in Seq(Op) /\ Len(CopyLog) = BYTES
  /\ \A i \in 1..BYTES : CopyLog[i] = [op |-> "copy", byte |-> i - 1]
<1>1. /\ [op |-> "enter"] \in Op /\ [op |-> "delete"] \in Op
      /\ [op |-> "init"] \in Op
  BY DEF Op
<1>2. <<>> \in Seq(Op)
  OBVIOUS
<1>3. /\ pin_fails_increase \in Seq(Op) /\ pin_logs_init \in Seq(Op)
      /\ <<[op |-> "init"]>> \in Seq(Op)
  BY <1>1 DEF pin_fails_increase, pin_logs_init
<1>4. BYTES \in Nat /\ CopyLog = [n \in 1..BYTES |-> [op |-> "copy", byte |-> n - 1]]
  BY Sizes DEF CopyLog, BYTES, PerWord
<1>5. \A n \in 1..BYTES : [op |-> "copy", byte |-> n - 1] \in Op
  <2> TAKE n \in 1..BYTES
  <2>1. n - 1 \in 0..(BITS \div BYTE_BITS - 1)
    BY Sizes
  <2> QED BY <2>1 DEF Op
<1>6. CopyLog \in [1..BYTES -> Op]
  BY <1>4, <1>5
<1>7. CopyLog \in Seq(Op) /\ Len(CopyLog) = BYTES
  BY <1>4, <1>6
<1> QED BY <1>2, <1>3, <1>4, <1>7

LEMMA OnlySchedules ==
  ASSUME LogInv, UNCHANGED <<whole, entry, success, owed>>,
         tried' \in {0, tried},
         todo' \in Seq(Op), pc' \in {"idle", "verify", "reset", "fault"},
         ctr' \in 0..BITS, TodoOK'
  PROVE  LogInv'
<1>1. TypeOK'
  BY DEF LogInv, TypeOK
<1>2. WordsInOrder'
  BY DEF LogInv, WordsInOrder
<1>3. /\ tried' <= entry' /\ success' \subseteq 1..(entry' - tried')
  <2>1. /\ entry \in Nat /\ tried \in Nat /\ tried <= entry
        /\ success \subseteq 1..(entry - tried) /\ success \subseteq 1..entry
        /\ entry' = entry /\ success' = success
    BY Sizes DEF LogInv, TypeOK
  <2>2. CASE tried' = tried
    BY <2>1, <2>2
  <2>3. CASE tried' = 0
    <3>1. entry' - tried' = entry
      BY <2>1, <2>3
    <3> QED BY <2>1, <2>3, <3>1
  <2> QED BY <2>2, <2>3
<1> QED BY <1>1, <1>2, <1>3 DEF LogInv

LEMMA FailsType ==
  ASSUME LogInv
  PROVE  Fails \in 0..BITS
<1>1. entry \in Nat /\ entry <= BITS /\ BITS \in Nat
  BY Sizes DEF LogInv, TypeOK
<1>2. Fails \in 0..entry
  BY <1>1, FailsAre, CountType
<1> QED BY <1>1, <1>2

LEMMA WipeStep ==
  ASSUME LogInv, storage_wipe
  PROVE  LogInv'
<1>1. TodoOK'
  BY DEF storage_wipe, TodoOK
<1> QED BY <1>1, Schedules, OnlySchedules DEF storage_wipe, LogInv, TypeOK

LEMMA FaultStep ==
  ASSUME LogInv, handle_fault
  PROVE  LogInv'
<1>1. CASE Readable
  <2>1. /\ ctr' = Fails /\ todo' = pin_fails_increase /\ pc' = "fault"
        /\ UNCHANGED <<whole, entry, success, tried, owed>>
    BY <1>1 DEF handle_fault
  <2>2. TodoOK'
    BY <1>1, <2>1 DEF Readable, TodoOK, pin_fails_increase
  <2> QED BY <2>1, <2>2, FailsType, Schedules, OnlySchedules
<1>2. CASE ~Readable
  BY <1>2, WipeStep DEF handle_fault
<1> QED BY <1>1, <1>2

LEMMA IdleStep ==
  ASSUME LogInv, pc' = "idle", ctr' = 0, todo' = <<>>,
         UNCHANGED <<whole, entry, success, tried, owed>>
  PROVE  LogInv'
<1>1. TodoOK' /\ 0 \in 0..BITS
  BY Sizes DEF TodoOK
<1> QED BY <1>1, Schedules, OnlySchedules

LEMMA HandlerStep ==
  ASSUME LogInv,
         \/ Fault \/ Halt \/ UnlockFault \/ UnlockTooMany \/ UnlockTry
         \/ VerifyFault \/ VerifyWrong \/ VerifyRight \/ ResetDone
         \/ PowerLoss
  PROVE  LogInv'
<1>1. CASE storage_wipe
  BY <1>1, WipeStep
<1>2. CASE handle_fault
  BY <1>2, FaultStep
<1>3. CASE /\ pc' = "idle" /\ ctr' = 0 /\ todo' = <<>>
           /\ UNCHANGED <<whole, entry, success, tried, owed>>
  BY <1>3, IdleStep
<1>4. CASE UnlockTry
  <2>1. /\ ctr' = Fails /\ todo' = pin_fails_increase /\ pc' = "verify"
        /\ UNCHANGED <<whole, entry, success, tried, owed>> /\ Readable
    BY <1>4 DEF UnlockTry
  <2>2. TodoOK'
    BY <2>1 DEF Readable, TodoOK, pin_fails_increase
  <2> QED BY <2>1, <2>2, FailsType, Schedules, OnlySchedules
<1>5. CASE VerifyRight
  <2>1. /\ todo' = pin_fails_reset /\ pc' = "reset" /\ tried' = 0
        /\ UNCHANGED <<whole, entry, success, ctr, owed>>
    BY <1>5 DEF VerifyRight
  <2>2. CASE entry <= BITS - WORD_BITS
    <3>1. todo' = CopyLog
      BY <2>1, <2>2 DEF pin_fails_reset
    <3>2. Copying(0)'
      <4>1. 0 \in 0..(BYTES - 1) /\ Len(todo') = BYTES - 0
        BY <3>1, Schedules, Sizes
      <4>2. \A i \in 1..Len(todo') :
              todo'[i] = [op |-> "copy", byte |-> 0 + i - 1]
        BY <3>1, Schedules, Sizes
      <4>3. \A p \in 1..entry : ~(Byte(p) < 0)
        BY ByteRange, Sizes DEF LogInv, TypeOK
      <4> QED BY <2>1, <2>2, <4>1, <4>2, <4>3 DEF Copying
    <3>3. TodoOK'
      BY <2>1, <3>2 DEF TodoOK
    <3> QED BY <2>1, <3>1, <3>3, Schedules, OnlySchedules DEF LogInv, TypeOK
  <2>3. CASE ~(entry <= BITS - WORD_BITS)
    <3>1. todo' = pin_logs_init
      BY <2>1, <2>3 DEF pin_fails_reset
    <3>2. TodoOK'
      BY <2>1, <3>1 DEF TodoOK, pin_logs_init
    <3> QED BY <2>1, <3>1, <3>2, Schedules, OnlySchedules DEF LogInv, TypeOK
  <2> QED BY <2>2, <2>3
<1> QED
  BY <1>1, <1>2, <1>3, <1>4, <1>5
  DEF Fault, Halt, UnlockFault, UnlockTooMany, VerifyFault, VerifyWrong,
      ResetDone, PowerLoss, Verify, Idle

-----------------------------------------------------------------------------
(* The writes.                                                             *)

LEMMA Scheduled ==
  ASSUME LogInv, todo # <<>>
  PROVE  /\ Head(todo).op = "enter" =>
              /\ pc \in {"verify", "fault"} /\ todo = pin_fails_increase
              /\ entry < BITS /\ Tail(todo) = <<>>
         /\ Head(todo).op \in {"delete", "init"} =>
              /\ pc = "reset"
              /\ Tail(todo) \in {<<>>, <<[op |-> "init"]>>}
         /\ Head(todo).op = "copy" =>
              pc = "reset" /\ \E j \in Int : Copying(j)
<1>1. CASE /\ pc \in {"verify", "fault"} /\ todo = pin_fails_increase
           /\ entry < BITS
  BY <1>1 DEF pin_fails_increase
<1>2. CASE pc = "reset" /\ todo \in {pin_logs_init, <<[op |-> "init"]>>}
  <2>1. PICK a, b : a = [op |-> "delete"] /\ b = [op |-> "init"]
    OBVIOUS
  <2>2. a.op = "delete" /\ b.op = "init"
    BY <2>1
  <2>3. todo = <<a, b>> \/ todo = <<b>>
    BY <1>2, <2>1 DEF pin_logs_init
  <2>5. Head(<<a, b>>) = a /\ Head(<<b>>) = b
    OBVIOUS
  <2>6. Tail(<<a, b>>) = <<b>>
    OBVIOUS
  <2>7. Tail(<<b>>) = <<>>
    OBVIOUS
  <2>4. \/ Head(todo) = a /\ Tail(todo) = <<b>>
        \/ Head(todo) = b /\ Tail(todo) = <<>>
    BY <2>3, <2>5, <2>6, <2>7
  <2> QED BY <1>2, <2>1, <2>2, <2>4
<1>3. CASE pc = "reset" /\ \E j \in Int : Copying(j)
  <2>1. PICK j \in Int : Copying(j)
    BY <1>3
  <2>2. Len(todo) \in Nat \ {0} /\ todo \in Seq(Op)
    BY <2>1, Sizes DEF Copying, LogInv, TypeOK
  <2>3. Head(todo) = [op |-> "copy", byte |-> j + 1 - 1]
    BY <2>1, <2>2 DEF Copying
  <2>4. Head(todo).op = "copy"
    BY <2>3
  <2> QED BY <1>3, <2>4
<1> QED BY <1>1, <1>2, <1>3 DEF LogInv, TodoOK

LEMMA EntryStep ==
  ASSUME LogInv, WriteEntry
  PROVE  LogInv'
<1>1. /\ entry < BITS /\ todo' = <<>> /\ pc \in {"verify", "fault"}
  BY Scheduled DEF WriteEntry, Written
<1>2. /\ entry' = entry + 1 /\ tried' = tried + 1 /\ owed' = owed + 1
      /\ UNCHANGED <<whole, success, pc, ctr>>
  BY DEF WriteEntry, Written
<1>3. /\ entry \in Nat /\ entry <= BITS /\ BITS \in Nat /\ tried \in Nat
      /\ owed \in Nat /\ success \subseteq 1..entry
  BY Sizes DEF LogInv, TypeOK
<1>4. entry' \in 0..BITS /\ success' \subseteq 1..entry'
      /\ tried' \in Nat /\ owed' \in Nat
  BY <1>1, <1>2, <1>3
<1>5. TypeOK'
  BY <1>1, <1>2, <1>4, Schedules DEF LogInv, TypeOK
<1>6. TodoOK'
  BY <1>1 DEF TodoOK
<1>7. WordsInOrder'
  <2> SUFFICES ASSUME NEW p \in 1..entry', NEW q \in 1..entry',
                      q \in success', Word(p) < Word(q)
               PROVE  p \in success'
    BY DEF WordsInOrder
  <2>1. q \in success /\ q \in 1..entry
    BY <1>2, <1>3
  <2>2. p < q
    BY <1>4, WordMonotone
  <2>3. p \in 1..entry
    BY <1>3, <1>4, <2>1, <2>2
  <2> QED BY <1>2, <2>1, <2>3 DEF LogInv, WordsInOrder
<1>8. /\ tried' <= entry' /\ owed' <= entry'
      /\ entry' - tried' = entry - tried /\ entry' - owed' = entry - owed
  BY <1>2, <1>3 DEF LogInv
<1> QED BY <1>2, <1>5, <1>6, <1>7, <1>8 DEF LogInv

LEMMA DeleteStep ==
  ASSUME LogInv, WriteDelete
  PROVE  LogInv'
<1>1. pc = "reset" /\ todo' \in {<<>>, <<[op |-> "init"]>>}
  BY Scheduled DEF WriteDelete, Written
<1>2. whole' = FALSE /\ UNCHANGED <<entry, success, tried, owed, pc, ctr>>
  BY DEF WriteDelete, Written
<1>3. todo' \in Seq(Op)
  BY <1>1, Schedules
<1>4. whole' \in BOOLEAN
  BY <1>2, Zenon
<1>5. TypeOK'
  BY <1>2, <1>3, <1>4 DEF LogInv, TypeOK
<1>6. TodoOK'
  BY <1>1, <1>2 DEF TodoOK
<1>7. WordsInOrder'
  BY <1>2 DEF LogInv, WordsInOrder
<1> QED BY <1>2, <1>5, <1>6, <1>7 DEF LogInv

LEMMA InitStep ==
  ASSUME LogInv, WriteInit
  PROVE  LogInv'
<1>1. pc = "reset" /\ todo' \in {<<>>, <<[op |-> "init"]>>}
  BY Scheduled DEF WriteInit, Written
<1>2. /\ whole' = TRUE /\ entry' = 0 /\ success' = {} /\ tried' = 0
      /\ owed' = 0 /\ UNCHANGED <<pc, ctr>>
  BY DEF WriteInit, Written
<1>3. todo' \in Seq(Op)
  BY <1>1, Schedules
<1>4. whole' \in BOOLEAN
  BY <1>2, Zenon
<1>5. entry' \in 0..BITS /\ success' \subseteq 1..entry'
  BY <1>2, Sizes
<1>6. TypeOK'
  BY <1>2, <1>3, <1>4, <1>5 DEF LogInv, TypeOK
<1>7. TodoOK'
  BY <1>1, <1>2 DEF TodoOK
<1>8. WordsInOrder'
  BY <1>2 DEF WordsInOrder
<1>9. /\ tried' <= entry' /\ success' \subseteq 1..(entry' - tried')
      /\ owed' <= entry' /\ entry' - owed' <= BITS - WORD_BITS
      /\ 1..(entry' - owed') \subseteq success'
  BY <1>2, Sizes
<1> QED BY <1>6, <1>7, <1>8, <1>9 DEF LogInv

LEMMA SuccessStep ==
  ASSUME LogInv, WriteSuccess
  PROVE  LogInv'
<1>1. pc = "reset" /\ \E j \in Int : Copying(j)
  BY Scheduled DEF WriteSuccess
<1>2. PICK j \in Int : Copying(j)
  BY <1>1
<1>3. /\ j \in 0..(BYTES - 1) /\ Len(todo) = BYTES - j /\ todo \in Seq(Op)
      /\ tried = 0 /\ entry <= BITS - WORD_BITS
      /\ \A p \in 1..entry : Byte(p) < j => p \in success
      /\ entry \in Nat /\ entry <= BITS /\ BITS \in Nat /\ BYTES \in Nat \ {0}
      /\ success \subseteq 1..entry /\ owed \in Nat
  BY <1>2, Sizes DEF Copying, LogInv, TypeOK
<1>4. Len(todo) \in Nat \ {0}
  BY <1>3
<1>5. Head(todo).byte = j
  <2>3. Head(todo) = todo[1] /\ 1 \in 1..Len(todo)
    BY <1>3, <1>4
  <2>1. Head(todo) = [op |-> "copy", byte |-> j + 1 - 1]
    BY <1>2, <2>3 DEF Copying
  <2>2. Head(todo).byte = j + 1 - 1
    BY <2>1
  <2> QED BY <2>2
<1>6. /\ success' = success \cup {p \in 1..entry : Byte(p) = j}
      /\ owed' = IF Tail(todo) = <<>> THEN 0 ELSE owed
      /\ todo' = Tail(todo) /\ UNCHANGED <<pc, ctr, whole, entry, tried>>
  BY <1>5 DEF WriteSuccess, Written
<1>7. /\ todo' \in Seq(Op) /\ Len(todo') = BYTES - (j + 1)
      /\ \A i \in 1..Len(todo') : todo'[i] = todo[i + 1]
  BY <1>3, <1>4, <1>6
<1>8. success' \subseteq 1..entry
  BY <1>3, <1>6
<1>9. \A p \in 1..entry : Byte(p) < j + 1 => p \in success'
  <2> TAKE p \in 1..entry
  <2>1. Byte(p) \in Int
    BY <1>3, ByteRange
  <2> QED BY <1>3, <1>6, <2>1
<1>10. owed' \in Nat
  BY <1>3, <1>6
<1>11. TypeOK'
  BY <1>6, <1>7, <1>8, <1>10 DEF LogInv, TypeOK
<1>12. todo' # <<>> => Copying(j + 1)'
  <2> SUFFICES ASSUME todo' # <<>> PROVE Copying(j + 1)'
    OBVIOUS
  <2>1. Len(todo') # 0
    BY <1>7
  <2>2. j + 1 \in 0..(BYTES - 1)
    BY <1>3, <1>7, <2>1
  <2>3. ASSUME NEW i \in 1..Len(todo')
        PROVE  todo'[i] = [op |-> "copy", byte |-> (j + 1) + i - 1]
    <3>1. i + 1 \in 1..Len(todo) /\ j + (i + 1) - 1 = (j + 1) + i - 1
      BY <1>3, <1>7
    <3>2. todo[i + 1] = [op |-> "copy", byte |-> j + (i + 1) - 1]
      BY <1>2, <3>1 DEF Copying
    <3> QED BY <1>7, <3>1, <3>2
  <2> QED BY <1>3, <1>6, <1>7, <1>9, <2>2, <2>3 DEF Copying
<1>13. TodoOK'
  BY <1>1, <1>6, <1>12 DEF TodoOK
<1>14. WordsInOrder'
  <2> SUFFICES ASSUME NEW p \in 1..entry, NEW q \in 1..entry,
                      q \in success', Word(p) < Word(q)
               PROVE  p \in success'
    BY <1>6 DEF WordsInOrder
  <2>1. CASE q \in success
    BY <1>6, <2>1 DEF LogInv, WordsInOrder
  <2>2. CASE Byte(q) = j
    <3>1. Byte(p) < j
      BY <1>3, <2>2, ByteOrder
    <3> QED BY <1>3, <1>6, <3>1
  <2> QED BY <1>6, <2>1, <2>2
<1>15. /\ tried' <= entry' /\ success' \subseteq 1..(entry' - tried')
  BY <1>3, <1>6, <1>8
<1>16. /\ owed' <= entry' /\ entry' - owed' <= BITS - WORD_BITS
       /\ 1..(entry' - owed') \subseteq success'
  <2>1. CASE todo' # <<>>
    BY <1>6, <2>1 DEF LogInv
  <2>2. CASE todo' = <<>>
    <3>1. owed' = 0 /\ j + 1 = BYTES
      BY <1>3, <1>6, <1>7, <2>2
    <3>2. \A p \in 1..entry : Byte(p) < BYTES
      <4> TAKE p \in 1..entry
      <4>1. Byte(p) \in 0..(BYTES - 1)
        BY <1>3, ByteRange
      <4> QED BY <1>3, <4>1
    <3>3. 1..entry \subseteq success'
      BY <1>9, <3>1, <3>2
    <3>4. entry' - owed' = entry
      BY <1>3, <1>6, <3>1
    <3> QED BY <1>3, <1>6, <3>1, <3>3, <3>4
  <2> QED BY <2>1, <2>2
<1> QED BY <1>11, <1>13, <1>14, <1>15, <1>16 DEF LogInv

-----------------------------------------------------------------------------
LEMMA LogInit ==
  ASSUME Init
  PROVE  LogInv
<1>1. /\ entry \in Nat /\ entry <= PIN_MAX_TRIES - 1 /\ success = {}
      /\ todo = <<>> /\ pc = "idle" /\ ctr = 0 /\ tried = entry
      /\ owed = entry
  BY Sizes DEF Init
<1>2. whole \in BOOLEAN
  BY Zenon DEF Init
<1>3. entry \in 0..BITS /\ success \subseteq 1..entry /\ ctr \in 0..BITS
  BY <1>1, Sizes
<1>4. TypeOK
  BY <1>1, <1>2, <1>3, Schedules DEF TypeOK
<1>5. TodoOK /\ WordsInOrder
  BY <1>1 DEF TodoOK, WordsInOrder
<1>6. /\ entry - tried = 0 /\ entry - owed = 0 /\ tried <= entry
      /\ owed <= entry /\ 0 <= BITS - WORD_BITS
  BY <1>1, Sizes
<1> QED BY <1>1, <1>4, <1>5, <1>6 DEF LogInv

LEMMA LogStep ==
  ASSUME LogInv, [Next]_vars
  PROVE  LogInv'
<1>1. CASE UNCHANGED vars
  BY <1>1 DEF vars, LogInv, TypeOK, TodoOK, Copying, WordsInOrder,
              pin_fails_increase, pin_logs_init
<1> QED BY <1>1, HandlerStep, EntryStep, SuccessStep, DeleteStep, InitStep
        DEF Next

(* The logs stay within their words: no handler clears a bit beyond the    *)
(* last one of the entry log (pin_fails_increase), and the success log     *)
(* only ever has bits that the entry log has.                              *)
THEOREM TypeCorrect == Spec => []TypeOK
<1>1. LogInv => TypeOK
  BY DEF LogInv
<1> QED BY <1>1, LogInit, LogStep, PTL DEF Spec

(* pin_get_fails counts every entry since a reset last began, up to the    *)
(* limit of storage.c, and none that a reset which finished has recorded,  *)
(* however often pin_fails_reset was cut short by a loss of power.         *)
THEOREM CountCorrect == Spec => []CountInRange
<1>1. LogInv => CountInRange
  <2> SUFFICES ASSUME LogInv
               PROVE  /\ tried <= Fails \/ Fails >= PIN_MAX_TRIES
                      /\ Fails <= owed
    BY DEF CountInRange
  <2>1. /\ entry \in Nat /\ tried \in Nat /\ owed \in Nat /\ tried <= entry
        /\ success \subseteq 1..(entry - tried) /\ owed <= entry
        /\ 1..(entry - owed) \subseteq success
    BY DEF LogInv, TypeOK
  <2>2. Fails <= owed
    BY <2>1, FailsAre, CountAtMost
  <2>3. Fails \in Int
    BY <2>1, FailsAre, CountType
  <2>4. CASE tried <= PIN_MAX_TRIES
    <3>1. PICK a \in Nat : a = tried
      BY <2>1
    <3>2. a <= tried /\ a <= WORD_BITS
      BY <2>1, <2>4, <3>1, Sizes
    <3>3. a <= Count(entry, success)
      BY <2>1, <3>2, CountAtLeast
    <3> QED BY <2>2, <3>1, <3>3, FailsAre
  <2>5. CASE tried > PIN_MAX_TRIES
    <3>1. PICK a \in Nat : a = PIN_MAX_TRIES
      BY Sizes
    <3>2. a <= tried /\ a <= WORD_BITS
      BY <2>1, <2>5, <3>1, Sizes
    <3>3. a <= Count(entry, success)
      BY <2>1, <3>2, CountAtLeast
    <3> QED BY <2>2, <2>3, <3>1, <3>3, FailsAre
  <2> QED BY <2>1, <2>2, <2>4, <2>5, Sizes
<1> QED BY <1>1, LogInit, LogStep, PTL DEF Spec

(* Successes alone never exhaust the log ("PIN log exhausted" in           *)
(* pin_get_fails): pin_fails_reset starts afresh before the last word is   *)
(* in use, so that a full log means PIN_MAX_TRIES entries since a success. *)
THEOREM ExhaustionCorrect == Spec => []ExhaustedOnlyAtLimit
<1>1. LogInv => ExhaustedOnlyAtLimit
  <2> SUFFICES ASSUME LogInv, whole, ~Readable
               PROVE  owed >= PIN_MAX_TRIES
    BY DEF ExhaustedOnlyAtLimit
  <2>1. entry \in 0..BITS /\ success \subseteq 1..entry /\ owed \in Nat
        /\ entry - owed <= BITS - WORD_BITS
    BY DEF LogInv, TypeOK
  <2>2. ~(entry < BITS)
    BY <2>1 DEF Readable
  <2> QED BY <2>1, <2>2, Sizes
<1> QED BY <1>1, LogInit, LogStep, PTL DEF Spec

(* The last word is never recorded in the success log: pin_fails_reset     *)
(* starts afresh instead.                                                  *)
LastWordClear == success \subseteq 1..(BITS - WORD_BITS)

LEMMA LastWordStep ==
  ASSUME LogInv, LastWordClear, [Next]_vars
  PROVE  LastWordClear'
<1>1. CASE WriteSuccess
  <2>1. PICK j \in Int : Copying(j)
    BY <1>1, Scheduled DEF WriteSuccess
  <2>2. entry \in Nat /\ entry <= BITS - WORD_BITS /\ BITS - WORD_BITS \in Int
    BY <2>1, Sizes DEF Copying, LogInv, TypeOK
  <2>3. 1..entry \subseteq 1..(BITS - WORD_BITS)
    BY <2>2
  <2>4. success' \subseteq success \cup 1..entry
    BY <1>1 DEF WriteSuccess
  <2> QED BY <2>3, <2>4 DEF LastWordClear, BITS
<1>2. CASE WriteInit
  BY <1>2 DEF WriteInit, LastWordClear
<1>3. CASE UNCHANGED success
  BY <1>3 DEF LastWordClear, BITS
<1>4. WriteSuccess \/ WriteInit \/ UNCHANGED success
  BY DEF Next, vars, Fault, Halt, UnlockFault, UnlockTooMany, UnlockTry,
         VerifyFault, VerifyWrong, VerifyRight, ResetDone, PowerLoss,
         WriteEntry, WriteDelete, handle_fault, storage_wipe
<1> QED BY <1>1, <1>2, <1>3, <1>4

LEMMA LastWordInit == Init => LastWordClear
BY DEF Init, LastWordClear

(* An undamaged log that stops being readable: its last bit was cleared,   *)
(* and all bits of the last word were failures.                            *)
LEMMA ExhaustionStep ==
  ASSUME LogInv, LogInv', LastWordClear, Next, Readable, whole', ~Readable'
  PROVE  Fails + 1 >= PIN_MAX_TRIES
<1>1. /\ entry \in 0..BITS /\ success \subseteq 1..entry /\ entry < BITS
      /\ entry' \in 0..BITS /\ success' \subseteq 1..(entry')
  BY DEF LogInv, TypeOK, Readable, BITS
<1>2. entry' = BITS
  BY <1>1, Sizes DEF Readable, BITS
<1>3. entry' \in {entry, entry + 1, 0}
  BY DEF Next, Fault, Halt, UnlockFault, UnlockTooMany, UnlockTry,
         VerifyFault, VerifyWrong, VerifyRight, ResetDone, PowerLoss,
         WriteEntry, WriteSuccess, WriteDelete, WriteInit, handle_fault,
         storage_wipe
<1>4. entry = BITS - 1
  BY <1>1, <1>2, <1>3, Sizes
<1>5. PICK u \in Nat, a \in Nat : u = WORD_BITS - 1 /\ a = PIN_MAX_TRIES - 1
  BY Sizes
<1>6. u <= entry /\ a <= u /\ a <= WORD_BITS /\ entry - u = BITS - WORD_BITS
  BY <1>4, <1>5, Sizes
<1>7. a <= Count(entry, success)
  <2>1. entry \in Nat /\ success \subseteq 1..(entry - u)
    BY <1>1, <1>6, Sizes DEF LastWordClear
  <2> QED BY <1>6, <2>1, CountAtLeast
<1>8. Fails \in Int
  BY <1>1, FailsAre, CountType
<1> QED BY <1>5, <1>7, <1>8, FailsAre, Sizes

(* The count goes up by one with an entry, and stays at or above the limit *)
(* where the two words pin_get_fails looks at move on; it goes down only   *)
(* in a reset; and only an entry that brings it to the limit can use up an *)
(* undamaged log. This is what Storage assumes of the counter.             *)
THEOREM CountStepsCorrect == Spec => CountSteps
<1> DEFINE A == /\ Readable /\ Readable' /\ pc # "reset" =>
                     \/ Fails' \in {Fails, Fails + 1}
                     \/ Fails >= PIN_MAX_TRIES /\ Fails' >= PIN_MAX_TRIES
                /\ Readable /\ whole' /\ ~Readable'
                     => Fails + 1 >= PIN_MAX_TRIES
<1>1. ASSUME LogInv, LastWordClear, [Next]_vars PROVE [A]_vars
  <2> SUFFICES ASSUME Next PROVE A
    BY <1>1
  <2>1. ASSUME Readable, whole', ~Readable' PROVE Fails + 1 >= PIN_MAX_TRIES
    BY <1>1, <2>1, LogStep, ExhaustionStep
  <2>2. ASSUME Readable, Readable', pc # "reset"
        PROVE  \/ Fails' \in {Fails, Fails + 1}
               \/ Fails >= PIN_MAX_TRIES /\ Fails' >= PIN_MAX_TRIES
    <3>1. CASE WriteEntry
      <4>1. /\ entry \in Nat /\ success \subseteq 1..entry
            /\ \A p, q \in 1..entry :
                 q \in success /\ Word(p) < Word(q) => p \in success
        BY <1>1 DEF LogInv, TypeOK, WordsInOrder
      <4>2. Fails' = Count(entry + 1, success)
        BY <3>1, FailsAre DEF WriteEntry, Fails, Count, FailSet, Cur, Current
      <4> QED BY <4>1, <4>2, FailsAre, CountNext
    <3>2. CASE UNCHANGED <<entry, success>>
      BY <3>2 DEF Fails, Current
    <3>3. ~WriteSuccess /\ ~WriteDelete /\ ~WriteInit
      BY <1>1, <2>2, Scheduled DEF WriteSuccess, WriteDelete, WriteInit
    <3>4. WriteEntry \/ UNCHANGED <<entry, success>>
      BY <3>3 DEF Next, Fault, Halt, UnlockFault, UnlockTooMany, UnlockTry,
                  VerifyFault, VerifyWrong, VerifyRight, ResetDone, PowerLoss,
                  handle_fault, storage_wipe
    <3> QED BY <3>1, <3>2, <3>4
  <2> QED BY <2>1, <2>2
<1>2. LogInv /\ LastWordClear /\ [Next]_vars => [A]_vars
  BY <1>1
<1> HIDE DEF A
<1>3. Spec => [](LogInv /\ LastWordClear)
  <2>1. Init => LogInv /\ LastWordClear
    BY LogInit, LastWordInit
  <2>2. (LogInv /\ LastWordClear) /\ [Next]_vars => (LogInv /\ LastWordClear)'
    BY LogStep, LastWordStep
  <2> QED BY <2>1, <2>2, PTL DEF Spec
<1>4. Spec => [][A]_vars
  BY <1>2, <1>3, PTL DEF Spec
<1> QED BY <1>4 DEF A, CountSteps

=============================================================================
