------------------------- MODULE TrezorClientProofs -------------------------
(***************************************************************************)
(* Theorems about TrezorClient for every value of the constants: while no  *)
(* exchange has failed and no layout was ended before the ButtonRequest it *)
(* had sent was acknowledged, all that is on its way to the host answers   *)
(* the call in progress, and the client and the device agree on how much   *)
(* of the data of an Ethereum transaction is still to be sent.             *)
(***************************************************************************)
EXTENDS TrezorClient, SequenceTheorems, TLAPS

-----------------------------------------------------------------------------
(* Messages on the wire. A message m travels as Chunks(m) chunks; k of     *)
(* them were read.                                                         *)

Chunks(m) == (8 + m.len + REPLEN - 2) \div (REPLEN - 1)
ChunkAt(m, j) == IF j = 1 THEN First(m) ELSE Rest(m)

ReaderAt(m, k) ==
  IF k = 0 THEN NotReading
  ELSE [reading |-> TRUE, msg |-> m, got |-> 63 * k - 8, garbled |-> FALSE]

(* The chunks of m after the k-th: q on the wire and o still to be written.*)
Stream(r, q, o, m, k) ==
  /\ k \in Nat /\ m.len \in Nat
  /\ r = ReaderAt(m, k)
  /\ q \in Seq({First(m), Rest(m)}) /\ o \in Seq({First(m), Rest(m)})
  /\ Len(q) + Len(o) = Chunks(m) - k
  /\ \A i \in 1..Len(q) : q[i] = ChunkAt(m, k + i)
  /\ \A i \in 1..Len(o) : o[i] = ChunkAt(m, k + Len(q) + i)

LEMMA ChunksPositive ==
  ASSUME NEW m, m.len \in Nat
  PROVE  Chunks(m) \in Nat \ {0}
BY DEF Chunks, REPLEN

LEMMA WriteIs ==
  ASSUME NEW m, m.len \in Nat
  PROVE  /\ write(m) \in Seq({First(m), Rest(m)})
         /\ Len(write(m)) = Chunks(m)
         /\ \A i \in 1..Len(write(m)) : write(m)[i] = ChunkAt(m, i)
<1> DEFINE s == <<First(m)>>
           t == [i \in 1 .. Chunks(m) - 1 |-> Rest(m)]
           S == {First(m), Rest(m)}
<1>1. Chunks(m) \in Nat \ {0}
  BY ChunksPositive
<1>2. write(m) = s \o t
  BY DEF write, Chunks
<1>3. s \in Seq(S) /\ Len(s) = 1 /\ s[1] = First(m)
  OBVIOUS
<1>4. t \in Seq(S) /\ Len(t) = Chunks(m) - 1
      /\ \A i \in 1..(Chunks(m) - 1) : t[i] = Rest(m)
  BY <1>1
<1> HIDE DEF s, t, S
<1>5. /\ s \o t \in Seq(S) /\ Len(s \o t) = Chunks(m)
      /\ \A i \in 1..Chunks(m) :
           (s \o t)[i] = IF i <= 1 THEN s[i] ELSE t[i - 1]
  <2>1. Len(s) = 1 /\ Len(s) + Len(t) = Chunks(m)
    BY <1>1, <1>3, <1>4
  <2>2. /\ s \o t \in Seq(S) /\ Len(s \o t) = Len(s) + Len(t)
        /\ \A i \in 1 .. Len(s) + Len(t) :
             (s \o t)[i] = IF i <= Len(s) THEN s[i] ELSE t[i - Len(s)]
    BY <1>3, <1>4, ConcatProperties
  <2> QED BY <2>1, <2>2
<1>6. \A i \in 1..Chunks(m) : (s \o t)[i] = ChunkAt(m, i)
  BY <1>1, <1>3, <1>4, <1>5 DEF ChunkAt
<1> QED BY <1>2, <1>5, <1>6 DEF S

LEMMA StreamStarts ==
  ASSUME NEW m, m.len \in Nat
  PROVE  /\ Stream(NotReading, <<>>, write(m), m, 0)
         /\ write(m) # <<>> /\ 0 < Chunks(m)
<1>1. <<>> \in Seq({First(m), Rest(m)}) /\ Len(<<>>) = 0
  OBVIOUS
<1> QED BY <1>1, WriteIs, ChunksPositive DEF Stream, ReaderAt

LEMMA StreamWritten ==
  ASSUME NEW r, NEW q, NEW o, NEW m, NEW k, Stream(r, q, o, m, k), o # <<>>
  PROVE  Stream(r, Append(q, Head(o)), Tail(o), m, k)
<1> DEFINE S == {First(m), Rest(m)}
           a == Append(q, Head(o))
           b == Tail(o)
<1>1. /\ q \in Seq(S) /\ o \in Seq(S) /\ Len(q) \in Nat /\ Len(o) \in Nat \ {0}
      /\ k \in Nat /\ m.len \in Nat /\ Chunks(m) \in Nat
  BY ChunksPositive, LenProperties, EmptySeq DEF Stream
<1>2. Head(o) = o[1] /\ Head(o) \in S
  BY <1>1, HeadTailProperties
<1>3. /\ a \in Seq(S) /\ Len(a) = Len(q) + 1 /\ a[Len(q) + 1] = o[1]
      /\ \A i \in 1..Len(q) : a[i] = q[i]
  BY <1>1, <1>2, AppendProperties
<1>4. /\ b \in Seq(S) /\ Len(b) = Len(o) - 1
      /\ \A i \in 1..Len(b) : b[i] = o[i + 1]
  BY <1>1, HeadTailProperties
<1> HIDE DEF a, b, S
<1>5. \A i \in 1..Len(a) : a[i] = ChunkAt(m, k + i)
  <2> TAKE i \in 1..Len(a)
  <2>1. CASE i \in 1..Len(q)
    BY <1>3, <2>1 DEF Stream
  <2>2. CASE i = Len(q) + 1
    <3>1. 1 \in 1..Len(o) /\ k + Len(q) + 1 = k + i
      BY <1>1, <2>2
    <3> QED BY <1>3, <2>2, <3>1 DEF Stream
  <2> QED BY <1>1, <1>3, <2>1, <2>2
<1>6. \A i \in 1..Len(b) : b[i] = ChunkAt(m, k + Len(a) + i)
  <2> TAKE i \in 1..Len(b)
  <2>1. i + 1 \in 1..Len(o) /\ k + Len(q) + (i + 1) = k + Len(a) + i
    BY <1>1, <1>3, <1>4
  <2> QED BY <1>4, <2>1 DEF Stream
<1>7. Len(a) + Len(b) = Chunks(m) - k
  BY <1>1, <1>3, <1>4 DEF Stream
<1> QED BY <1>1, <1>3, <1>4, <1>5, <1>6, <1>7 DEF Stream, S, a, b

(* A reader meets no chunk it does not expect, and knows the last one.     *)
LEMMA StreamRead ==
  ASSUME NEW r, NEW q, NEW o, NEW m, NEW k, Stream(r, q, o, m, k), q # <<>>
  PROVE  LET s == read_chunk(r, Head(q)) IN
         /\ ~BadMagic(r, Head(q))
         /\ Stream(s, Tail(q), o, m, k + 1)
         /\ s.msg = m /\ ~s.garbled
         /\ Complete(s) => Tail(q) = <<>> /\ o = <<>>
         /\ ~Complete(s) => k + 1 < Chunks(m)
<1> DEFINE S == {First(m), Rest(m)}
           c == Head(q)
           s == read_chunk(r, c)
           t == Tail(q)
<1>1. /\ q \in Seq(S) /\ o \in Seq(S) /\ Len(q) \in Nat \ {0} /\ Len(o) \in Nat
      /\ k \in Nat /\ m.len \in Nat /\ Chunks(m) \in Nat
      /\ r = ReaderAt(m, k) /\ Len(q) + Len(o) = Chunks(m) - k
  BY ChunksPositive, LenProperties, EmptySeq DEF Stream
<1>2. c = ChunkAt(m, k + 1)
  BY <1>1, HeadTailProperties DEF Stream
<1>3. /\ t \in Seq(S) /\ Len(t) = Len(q) - 1
      /\ \A i \in 1..Len(t) : t[i] = q[i + 1]
  BY <1>1, HeadTailProperties
<1> HIDE DEF t, c, S
<1>4. ~BadMagic(r, c) /\ s = ReaderAt(m, k + 1)
  <2>1. CASE k = 0
    <3>1. c = First(m) /\ r = NotReading
      BY <1>1, <1>2, <2>1 DEF ChunkAt, ReaderAt
    <3>2. c.first /\ ~r.reading /\ c.msg = m
      BY <3>1 DEF First, NotReading
    <3> QED BY <2>1, <3>2 DEF BadMagic, read_chunk, ReaderAt, REPLEN
  <2>2. CASE k # 0
    <3>1. c = Rest(m)
      BY <1>1, <1>2, <2>2 DEF ChunkAt
    <3>2. ~c.first /\ c.call = m.call
      BY <3>1 DEF Rest
    <3>3. r = [reading |-> TRUE, msg |-> m, got |-> 63 * k - 8,
               garbled |-> FALSE]
      BY <1>1, <2>2 DEF ReaderAt
    <3>4. r.reading /\ r.msg = m /\ r.garbled = FALSE /\ r.got = 63 * k - 8
      BY <3>3
    <3> DEFINE g == r.garbled \/ c.first \/
                      (~c.first /\ c.call # r.msg.call)
               n == r.got + REPLEN - 1
    <3>5. s = [r EXCEPT !.got = n, !.garbled = g]
      BY <3>4 DEF read_chunk
    <3>6. g = FALSE
      BY <3>2, <3>4
    <3>9. n = 63 * k - 8 + 63
      BY <1>1, <3>4 DEF REPLEN
    <3> HIDE DEF g, n
    <3>7. s = [reading |-> TRUE, msg |-> m, got |-> 63 * k - 8 + 63,
               garbled |-> FALSE]
      BY <3>3, <3>5, <3>6, <3>9
    <3>8. 63 * k - 8 + 63 = 63 * (k + 1) - 8 /\ k + 1 # 0
      BY <1>1
    <3> QED BY <3>4, <3>7, <3>8 DEF BadMagic, ReaderAt
  <2> QED BY <2>1, <2>2
<1> HIDE DEF s
<1>5. s = [reading |-> TRUE, msg |-> m, got |-> 63 * (k + 1) - 8,
           garbled |-> FALSE]
  BY <1>1, <1>4 DEF ReaderAt
<1>6. s.msg = m /\ ~s.garbled /\ s.reading /\ s.got = 63 * (k + 1) - 8
  BY <1>5
<1>7. Complete(s) <=> 63 * (k + 1) - 8 >= m.len
  BY <1>6 DEF Complete
<1>8. Complete(s) <=> k + 1 >= Chunks(m)
  <2>1. Chunks(m) = (m.len + 70) \div 63
    BY <1>1 DEF Chunks, REPLEN
  <2> QED BY <1>1, <1>7, <2>1
<1>9. Complete(s) => Len(t) = 0 /\ Len(o) = 0
  BY <1>1, <1>3, <1>8
<1>10. Complete(s) => t = <<>> /\ o = <<>>
  BY <1>1, <1>3, <1>9, EmptySeq
<1>11. Stream(s, t, o, m, k + 1)
  <2>1. \A i \in 1..Len(t) : t[i] = ChunkAt(m, k + 1 + i)
    <3> TAKE i \in 1..Len(t)
    <3>1. i + 1 \in 1..Len(q) /\ k + (i + 1) = k + 1 + i
      BY <1>1, <1>3
    <3> QED BY <1>3, <3>1 DEF Stream
  <2>2. \A i \in 1..Len(o) : o[i] = ChunkAt(m, k + 1 + Len(t) + i)
    <3> TAKE i \in 1..Len(o)
    <3>1. k + Len(q) + i = k + 1 + Len(t) + i
      BY <1>1, <1>3
    <3> QED BY <3>1 DEF Stream
  <2>3. Len(t) + Len(o) = Chunks(m) - (k + 1)
    BY <1>1, <1>3
  <2> QED BY <1>1, <1>3, <1>4, <2>1, <2>2, <2>3 DEF Stream, S
<1> QED BY <1>1, <1>4, <1>6, <1>8, <1>10, <1>11 DEF s, c, t

-----------------------------------------------------------------------------
(* The invariant. While no exchange has failed and no layout ended early,  *)
(* host and device take turns:                                             *)
(* the caller's turn, a message on its way to the device, the workflow's   *)
(* turn, a message on its way to the host. A workflow left behind by a     *)
(* caller that dropped its request is only ever in "ack", where the next   *)
(* message of the host aborts it; while the call it serves goes on, it     *)
(* agrees with the client on the call and on the data left.                *)

AckTypes == {"ButtonAck", "PinMatrixAck", "PassphraseAck", "EthereumTxAck",
             "TxAck", "EntropyAck"}
Interactors == {"caller", "handled", "no one"}

IsClient(c) ==
  c = [phase |-> c.phase, n |-> c.n, op |-> c.op, expects |-> c.expects,
       interaction |-> c.interaction, left |-> c.left, req |-> c.req,
       out |-> c.out, reader |-> c.reader, features |-> c.features]

IsDevice(d) ==
  d = [phase |-> d.phase, op |-> d.op, call |-> d.call, asks |-> d.asks,
       requests |-> d.requests, left |-> d.left, stage |-> d.stage,
       expects |-> d.expects, layout |-> d.layout, out |-> d.out,
       reader |-> d.reader]

(* A layout is not shown while the workflow is at work, and the one thing  *)
(* it asks for is a ButtonAck.                                             *)
Shows(d) ==
  d.layout => /\ d.phase \in {"user", "write", "ack"}
              /\ d.phase # "user" => d.expects = "ButtonAck"

WellFormed ==
  /\ IsClient(client) /\ IsDevice(device)
  /\ client.left \in Int
  /\ client.phase # "idle" => client.interaction \in Interactors
  /\ device.expects \in AckTypes \cup {"none"} /\ Shows(device)

Agree == device.call = client.n /\ device.left = client.left

Opens(m) == m.type \in DOMAIN Operations
OpeningLeft(m) ==
  IF m.type \in DOMAIN EthereumSigning
  THEN m.value.data_length - m.value.initial ELSE 0
AckLeft(m) == IF m.type = "EthereumTxAck" THEN m.value ELSE 0

HostTurn ==
  /\ client.phase \in {"idle", "asked", "progress", "entropy"}
  /\ toDevice = <<>> /\ toHost = <<>>
  /\ client.reader = NotReading /\ device.reader = NotReading
  /\ device.phase \in {"idle", "ack"}
  /\ client.phase = "idle" => client.left = 0
  /\ client.phase = "asked" => client.req \in Interactions
  /\ client.phase # "idle" /\ device.phase = "ack" => Agree

Sending(m, k) ==
  /\ client.phase \in {"write", "read"}
  /\ client.phase = "write" <=> client.out # <<>>
  /\ toHost = <<>> /\ client.reader = NotReading
  /\ device.phase \in {"idle", "ack"}
  /\ Stream(device.reader, toDevice, client.out, m, k) /\ k < Chunks(m)
  /\ m.call = client.n
  /\ Opens(m) => OpeningLeft(m) = client.left
  /\ ~Opens(m) => AckLeft(m) \in Int
  /\ ~Opens(m) /\ device.phase = "ack" =>
       device.call = client.n /\ device.left = client.left + AckLeft(m)

Working ==
  /\ client.phase = "read"
  /\ toDevice = <<>> /\ toHost = <<>>
  /\ client.reader = NotReading /\ device.reader = NotReading
  /\ device.phase \in {"work", "user"}
  /\ Agree

Answering(m, k) ==
  /\ client.phase = "read"
  /\ toDevice = <<>> /\ device.reader = NotReading
  /\ device.phase \in {"write", "idle", "ack"}
  /\ device.phase = "write" <=> device.out # <<>>
  /\ Stream(client.reader, toHost, device.out, m, k) /\ k < Chunks(m)
  /\ m.call = client.n
  /\ device.phase = "ack" \/ (device.phase = "write" /\ device.expects # "none")
       => Agree
  /\ device.phase = "write" /\ device.layout =>
       toHost = <<>> /\ client.reader = NotReading /\ Chunks(m) = 1

Turn ==
  \/ HostTurn
  \/ Working
  \/ \E m, k : Sending(m, k) \/ Answering(m, k)

TurnInv == ~failed /\ ~early => WellFormed /\ Turn

-----------------------------------------------------------------------------
(* What the host's operators return.                                       *)

LEMMA OperationTypes ==
  /\ \A type \in AckTypes \cup {"none"} : type \notin DOMAIN Operations
  /\ DOMAIN EthereumSigning \subseteq DOMAIN Operations
BY DEF AckTypes, Operations, init_device, ManagementCalls, reset_device,
       BitcoinCalls, EthereumCalls, EthereumSigning, SolanaCalls

LEMMA OperationInteraction ==
  ASSUME NEW op \in DOMAIN Operations
  PROVE  Operations[op].interaction \in Interactors
<1>1. \A e, i : Operation(e, i).interaction = i
  BY DEF Operation
<1>2. ASSUME op \in DOMAIN init_device
      PROVE  init_device[op].interaction \in Interactors
  <2>1. op = "Initialize"
    BY <1>2 DEF init_device
  <2>2. init_device.Initialize.interaction = "no one"
    BY DEF init_device, Operation
  <2> QED BY <2>1, <2>2 DEF Interactors
<1>3. ASSUME op \in DOMAIN ManagementCalls
      PROVE  ManagementCalls[op].interaction \in Interactors
  <2>1. PICK e : ManagementCalls[op] = Operation(e, "caller")
    BY <1>3, Zenon DEF ManagementCalls
  <2> QED BY <1>1, <2>1 DEF Interactors
<1>4. ASSUME op \in DOMAIN reset_device
      PROVE  reset_device[op].interaction \in Interactors
  <2>1. op = "ResetDevice"
    BY <1>4 DEF reset_device
  <2>2. reset_device.ResetDevice.interaction = "caller"
    BY DEF reset_device, Operation
  <2> QED BY <2>1, <2>2 DEF Interactors
<1>5. ASSUME op \in DOMAIN BitcoinCalls
      PROVE  BitcoinCalls[op].interaction \in Interactors
  <2>1. op \in {"GetPublicKey", "GetAddress", "SignMessage", "SignTx"}
    BY <1>5 DEF BitcoinCalls
  <2>2. /\ BitcoinCalls.GetPublicKey.interaction = "caller"
        /\ BitcoinCalls.GetAddress.interaction = "caller"
        /\ BitcoinCalls.SignMessage.interaction = "caller"
        /\ BitcoinCalls.SignTx.interaction = "caller"
    BY DEF BitcoinCalls, Operation
  <2> QED BY <2>1, <2>2 DEF Interactors
<1>6. ASSUME op \in DOMAIN EthereumCalls
      PROVE  EthereumCalls[op].interaction \in Interactors
  <2>1. op \in {"EthereumGetAddress", "EthereumSignMessage"}
    BY <1>6 DEF EthereumCalls
  <2>2. /\ EthereumCalls.EthereumGetAddress.interaction = "handled"
        /\ EthereumCalls.EthereumSignMessage.interaction = "handled"
    BY DEF EthereumCalls, Operation
  <2> QED BY <2>1, <2>2 DEF Interactors
<1>7. ASSUME op \in DOMAIN EthereumSigning
      PROVE  EthereumSigning[op].interaction \in Interactors
  BY <1>1, <1>7 DEF EthereumSigning, Interactors
<1>8. ASSUME op \in DOMAIN SolanaCalls
      PROVE  SolanaCalls[op].interaction \in Interactors
  <2>1. op = "SolanaGetAddress"
    BY <1>8 DEF SolanaCalls
  <2>2. SolanaCalls.SolanaGetAddress.interaction = "handled"
    BY DEF SolanaCalls, Operation
  <2> QED BY <2>1, <2>2 DEF Interactors
<1> QED BY <1>2, <1>3, <1>4, <1>5, <1>6, <1>7, <1>8 DEF Operations

LEMMA AckOfType ==
  ASSUME NEW type \in Interactions \cup
                      {"EthereumTxRequest", "TxRequest", "EntropyRequest"}
  PROVE  AckOf(type) \in AckTypes
BY DEF AckOf, AckTypes, Interactions

(* The client x that has the answer m to write, for the call of c.         *)
Writes(x, c, m) ==
  /\ IsClient(x) /\ x.phase = "write" /\ x.out = write(m)
  /\ x.reader = NotReading /\ x.interaction \in Interactors
  /\ x.n = c.n /\ m.call = c.n /\ m.len \in Nat /\ x.left \in Int

LEMMA CallRaw ==
  ASSUME NEW c, IsClient(c), c.reader = NotReading, c.left \in Int,
         c.interaction \in Interactors, NEW type, NEW value,
         NEW x \in call_raw(c, type, value)
  PROVE  \E m : /\ Writes(x, c, m) /\ x.left = c.left
                /\ m.type = type /\ m.value = value
<1>1. PICK len \in LENGTHS :
        x = [c EXCEPT !.phase = "write", !.req = 0,
                      !.out = write(Message(type, len, value, c.n))]
  BY DEF call_raw
<1> DEFINE m == Message(type, len, value, c.n)
<1>2. /\ m.type = type /\ m.value = value /\ m.call = c.n /\ m.len \in Nat
  BY TrezorClientAssumption DEF Message
<1> HIDE DEF m
<1>3. x = [c EXCEPT !.phase = "write", !.req = 0, !.out = write(m)]
  BY <1>1 DEF m
<1>4. /\ IsClient(x) /\ x.phase = "write" /\ x.out = write(m)
      /\ x.reader = c.reader /\ x.interaction = c.interaction
      /\ x.n = c.n /\ x.left = c.left
  BY <1>3 DEF IsClient
<1> QED BY <1>2, <1>4 DEF Writes

LEMMA ReturnedIs ==
  ASSUME NEW c
  PROVE  LET x == Returned(c)
         IN /\ IsClient(x) /\ x.phase = "idle" /\ x.n = c.n /\ x.left = 0
            /\ x.reader = NotReading
<1> DEFINE no == FALSE
<1>1. PICK t : t = trezor_with_transport
  OBVIOUS
<1>2. /\ t = [phase |-> "idle", n |-> 0, op |-> "none", expects |-> "none",
              interaction |-> "none", left |-> 0, req |-> 0, out |-> <<>>,
              reader |-> NotReading, features |-> no]
  BY <1>1 DEF trezor_with_transport
<1> HIDE DEF no
<1>3. IsClient(t) /\ t.phase = "idle" /\ t.left = 0 /\ t.reader = NotReading
  BY <1>2 DEF IsClient
<1>4. PICK x : x = [t EXCEPT !.n = c.n, !.features = c.features]
  OBVIOUS
<1>5. IsClient(x) /\ x.phase = "idle" /\ x.left = 0 /\ x.reader = NotReading
      /\ x.n = c.n
  BY <1>3, <1>4 DEF IsClient
<1> QED BY <1>1, <1>4, <1>5 DEF Returned

(* The client's reply to the device within a call: of the data left, the   *)
(* reply takes AckLeft.                                                    *)
Replies(x, c, m) ==
  /\ Writes(x, c, m) /\ ~Opens(m)
  /\ AckLeft(m) \in Int /\ c.left = x.left + AckLeft(m)

(* The client c that gives the caller what the device asks for.            *)
Asks(x, c) ==
  /\ IsClient(x) /\ x.phase \in {"asked", "progress", "entropy"}
  /\ x.reader = NotReading /\ x.interaction \in Interactors
  /\ x.n = c.n /\ x.left = c.left
  /\ x.phase = "asked" => x.req \in Interactions

LEMMA PlainReply ==
  ASSUME NEW c, IsClient(c), c.reader = NotReading, c.left \in Int,
         c.interaction \in Interactors, NEW value,
         NEW type \in AckTypes \ {"EthereumTxAck"},
         NEW x \in call_raw(c, type, value)
  PROVE  \E m : Replies(x, c, m)
<1>1. PICK m : Writes(x, c, m) /\ x.left = c.left /\ m.type = type
  BY CallRaw
<1>2. ~Opens(m) /\ AckLeft(m) = 0
  BY <1>1, OperationTypes DEF Opens, AckLeft
<1> QED BY <1>1, <1>2 DEF Replies

LEMMA DataReply ==
  ASSUME NEW c, IsClient(c), c.reader = NotReading, c.left \in Int,
         NEW x \in ethereum_tx_ack(c)
  PROVE  \E m : Replies(x, c, m)
<1>1. PICK p : p = Piece(c.left)
  OBVIOUS
<1>2. PICK l : l = c.left - p
  OBVIOUS
<1>3. p \in Int /\ l \in Int /\ c.left = l + p
  <2>1. p \in Int
    BY <1>1, TrezorClientAssumption DEF Piece, Smaller
  <2> QED BY <1>2, <2>1
<1>4. PICK d : d = [c EXCEPT !.interaction = "no one", !.left = l]
  OBVIOUS
<1>5. /\ IsClient(d) /\ d.reader = NotReading /\ d.n = c.n
      /\ d.left = l /\ d.interaction = "no one"
  BY <1>4 DEF IsClient
<1>6. x \in call_raw(d, "EthereumTxAck", p)
  BY <1>1, <1>2, <1>4 DEF ethereum_tx_ack
<1>7. PICK m : /\ Writes(x, d, m) /\ x.left = d.left
               /\ m.type = "EthereumTxAck" /\ m.value = p
  <2>1. d.left \in Int
    BY <1>3, <1>5
  <2>2. d.interaction \in Interactors
    BY <1>5 DEF Interactors
  <2>3. PICK type : type = "EthereumTxAck"
    OBVIOUS
  <2>4. x \in call_raw(d, type, p)
    BY <1>6, <2>3
  <2>5. \E m : /\ Writes(x, d, m) /\ x.left = d.left
               /\ m.type = type /\ m.value = p
    <3>1. IsClient(d) /\ d.reader = NotReading
      BY <1>5
    <3> QED BY <3>1, <2>1, <2>2, <2>4, CallRaw
  <2> QED BY <2>3, <2>5
<1>8. ~Opens(m) /\ AckLeft(m) = p
  BY <1>7, OperationTypes DEF Opens, AckLeft, AckTypes
<1>9. c.left = x.left + AckLeft(m) /\ AckLeft(m) \in Int
  BY <1>3, <1>5, <1>7, <1>8
<1> QED BY <1>5, <1>7, <1>8, <1>9 DEF Replies, Writes

LEMMA HandlerOutcome ==
  ASSUME NEW c, IsClient(c), c.reader = NotReading, c.left \in Int,
         c.interaction \in Interactors, NEW msg,
         NEW x \in result_handler(c, msg)
  PROVE  \/ x.phase = "idle" /\ x.left = 0 /\ x.reader = NotReading /\ IsClient(x)
         \/ Asks(x, c)
         \/ \E m : Replies(x, c, m)
<1>1. CASE x = Returned(c)
  BY <1>1, ReturnedIs
<1>2. CASE \E yes : x = [Returned(c) EXCEPT !.features = yes]
  <2>1. PICK yes : x = [Returned(c) EXCEPT !.features = yes]
    BY <1>2
  <2>2. PICK y : y = Returned(c)
    OBVIOUS
  <2>3. IsClient(y) /\ y.phase = "idle" /\ y.left = 0 /\ y.reader = NotReading
    BY <2>2, ReturnedIs
  <2> QED BY <2>1, <2>2, <2>3 DEF IsClient
<1>3. CASE x \in ethereum_tx_ack(c)
  BY <1>3, DataReply
<1>4. CASE x = [c EXCEPT !.phase = "progress", !.req = msg.value]
  BY <1>4 DEF Asks, IsClient
<1>5. CASE x = [c EXCEPT !.phase = "entropy"]
  BY <1>5 DEF Asks, IsClient
<1>6. \/ x = Returned(c) \/ x = [Returned(c) EXCEPT !.features = TRUE]
      \/ x \in ethereum_tx_ack(c)
      \/ x = [c EXCEPT !.phase = "progress", !.req = msg.value]
      \/ x = [c EXCEPT !.phase = "entropy"]
  BY Zenon DEF result_handler
<1>7. x = [Returned(c) EXCEPT !.features = TRUE] =>
        \E yes : x = [Returned(c) EXCEPT !.features = yes]
  BY Zenon
<1> QED BY <1>1, <1>2, <1>3, <1>4, <1>5, <1>6, <1>7

LEMMA CallOutcome ==
  ASSUME NEW c, IsClient(c), c.reader = NotReading, c.left \in Int,
         c.interaction \in Interactors, NEW msg,
         NEW x \in call(c, msg)
  PROVE  \/ x.phase = "idle" /\ x.left = 0 /\ x.reader = NotReading /\ IsClient(x)
         \/ Asks(x, c)
         \/ \E m : Replies(x, c, m)
<1>1. CASE x \in result_handler(c, msg)
  BY <1>1, HandlerOutcome
<1>2. CASE x = Returned(c)
  BY <1>2, ReturnedIs
<1>3. CASE msg.type \in Interactions /\ x \in handle_interaction(c, msg.type)
  <2>1. \/ x \in call_raw(c, "ButtonAck", 0) \/ x = Returned(c)
        \/ x \in call_raw(c, "PassphraseAck", "on_device")
    BY <1>3 DEF Interactions, handle_interaction
  <2> QED BY <1>2, <2>1, PlainReply DEF AckTypes
<1>4. CASE msg.type \in Interactions /\
           x = [c EXCEPT !.phase = "asked", !.req = msg.type]
  BY <1>4 DEF Asks, IsClient
<1> QED BY <1>1, <1>2, <1>3, <1>4 DEF call, Interactors

-----------------------------------------------------------------------------
(* What the device's operators return: a workflow at work for call n with  *)
(* l of the data to come, or a message m to write for call n.              *)

Works(x, n, l) ==
  /\ IsDevice(x) /\ x.phase \in {"work", "user"} /\ x.reader = NotReading
  /\ x.call = n /\ x.left = l /\ x.expects \in AckTypes \cup {"none"}
  /\ Shows(x)

Responds(x, n, l, m) ==
  /\ IsDevice(x) /\ x.phase = "write" /\ x.out = write(m)
  /\ x.reader = NotReading /\ x.expects \in AckTypes \cup {"none"}
  /\ m.call = n /\ m.len \in Nat
  /\ x.expects # "none" => x.call = n /\ x.left = l
  /\ Shows(x) /\ (x.layout => Chunks(m) = 1)

LEMMA NoWorkflowIs ==
  /\ IsDevice(NoWorkflow) /\ NoWorkflow.phase = "idle"
  /\ NoWorkflow.reader = NotReading /\ NoWorkflow.expects = "none"
  /\ ~NoWorkflow.layout
<1>1. PICK x, no : x = NoWorkflow /\ no = FALSE
  OBVIOUS
<1>2. x = [phase |-> "idle", op |-> "none", call |-> 0, asks |-> 0,
           requests |-> 0, left |-> 0, stage |-> "confirm",
           expects |-> "none", layout |-> no, out |-> <<>>,
           reader |-> NotReading]
  BY <1>1 DEF NoWorkflow
<1>3. /\ IsDevice(x) /\ x.phase = "idle" /\ x.reader = NotReading
      /\ x.expects = "none" /\ x.layout = no
  BY <1>2 DEF IsDevice
<1> QED BY <1>1, <1>3

LEMMA AnswerIs ==
  ASSUME NEW n, NEW l, NEW type, NEW value, NEW x \in Answer(n, type, value)
  PROVE  \E m : Responds(x, n, l, m)
<1>1. PICK len \in LENGTHS :
        x = [NoWorkflow EXCEPT !.phase = "write",
                               !.out = write(Message(type, len, value, n))]
  BY DEF Answer
<1>2. PICK m : m = Message(type, len, value, n)
  OBVIOUS
<1>3. m.call = n /\ m.len \in Nat
  BY <1>2, TrezorClientAssumption DEF Message
<1>4. PICK t : t = NoWorkflow
  OBVIOUS
<1>5. IsDevice(t) /\ t.reader = NotReading /\ t.expects = "none" /\ ~t.layout
  BY <1>4, NoWorkflowIs
<1>6. x = [t EXCEPT !.phase = "write", !.out = write(m)]
  BY <1>1, <1>2, <1>4
<1>7. /\ IsDevice(x) /\ x.phase = "write" /\ x.out = write(m)
      /\ x.reader = NotReading /\ x.expects = "none" /\ x.layout = t.layout
  BY <1>5, <1>6 DEF IsDevice
<1> QED BY <1>3, <1>5, <1>7 DEF Responds, Shows

LEMMA RequestIs ==
  ASSUME NEW d, IsDevice(d), d.reader = NotReading, ~d.layout, NEW value,
         NEW type, AckOf(type) \in AckTypes, NEW x \in Request(d, type, value)
  PROVE  \E m : Responds(x, d.call, d.left, m)
<1>1. PICK len \in LENGTHS :
        x = [d EXCEPT !.phase = "write", !.expects = AckOf(type),
                      !.out = write(Message(type, len, value, d.call))]
  BY DEF Request
<1>2. PICK m : m = Message(type, len, value, d.call)
  OBVIOUS
<1>3. m.call = d.call /\ m.len \in Nat
  BY <1>2, TrezorClientAssumption DEF Message
<1>4. PICK a : a = AckOf(type)
  OBVIOUS
<1>5. x = [d EXCEPT !.phase = "write", !.expects = a, !.out = write(m)]
  BY <1>1, <1>2, <1>4
<1>6. /\ IsDevice(x) /\ x.phase = "write" /\ x.out = write(m)
      /\ x.reader = NotReading /\ x.expects = a
      /\ x.call = d.call /\ x.left = d.left /\ x.layout = d.layout
  BY <1>5 DEF IsDevice
<1> QED BY <1>3, <1>4, <1>6 DEF Responds, Shows

LEMMA HandleOutcome ==
  ASSUME NEW msg, NEW l, NEW garbled, ~garbled,
         NEW x \in handle_single_message(msg, garbled)
  PROVE  \/ Opens(msg) /\ Works(x, msg.call, OpeningLeft(msg))
         \/ \E m : Responds(x, msg.call, l, m)
<1>1. CASE ~Opens(msg)
  <2>1. x \in Answer(msg.call, "Failure", 0)
    BY <1>1 DEF handle_single_message, Opens
  <2> QED BY <2>1, AnswerIs
<1>2. CASE Opens(msg)
  <2>1. PICK a : a = OpeningLeft(msg)
    OBVIOUS
  <2>2. PICK t : t = NoWorkflow
    OBVIOUS
  <2>3. x = [t EXCEPT !.phase = "work", !.op = msg.type,
                      !.call = msg.call, !.left = a]
    BY <1>2, <2>1, <2>2 DEF handle_single_message, Opens, OpeningLeft
  <2>4. /\ IsDevice(t) /\ t.reader = NotReading /\ t.expects = "none"
        /\ ~t.layout
    BY <2>2, NoWorkflowIs
  <2>5. /\ IsDevice(x) /\ x.phase = "work" /\ x.reader = NotReading
        /\ x.call = msg.call /\ x.left = a /\ x.expects = "none"
        /\ x.layout = t.layout
    BY <2>3, <2>4 DEF IsDevice
  <2> QED BY <1>2, <2>1, <2>4, <2>5 DEF Works, Shows
<1> QED BY <1>1, <1>2

LEMMA ShownIs ==
  ASSUME NEW d, IsDevice(d), d.reader = NotReading
  PROVE  Works(Shown(d), d.call, d.left)
<1>1. PICK x, yes : x = Shown(d) /\ yes = TRUE
  OBVIOUS
<1>2. x = [d EXCEPT !.phase = "user", !.expects = "none", !.layout = yes]
  BY <1>1 DEF Shown
<1>3. /\ IsDevice(x) /\ x.phase = "user" /\ x.expects = "none"
      /\ x.reader = NotReading /\ x.call = d.call /\ x.left = d.left
  BY <1>2 DEF IsDevice
<1> QED BY <1>1, <1>3 DEF Works, Shows

LEMMA AckedOutcome ==
  ASSUME NEW d, IsDevice(d), d.reader = NotReading, NEW msg, NEW l \in Int,
         msg.type = "ButtonAck" \/ ~d.layout,
         AckLeft(msg) \in Int, d.left = l + AckLeft(msg),
         NEW garbled, ~garbled, NEW x \in acked(d, msg, garbled)
  PROVE  Works(x, d.call, l) \/ \E m : Responds(x, d.call, l, m)
<1>1. PICK on : on = [d EXCEPT !.phase = "work", !.expects = "none"]
  OBVIOUS
<1>2. /\ IsDevice(on) /\ on.phase = "work" /\ on.expects = "none"
      /\ on.reader = NotReading /\ on.call = d.call /\ on.left = d.left
      /\ on.layout = d.layout
  BY <1>1 DEF IsDevice
<1>3. CASE x \in Answer(d.call, "Failure", 0)
  BY <1>3, AnswerIs
<1>4. CASE msg.type = "ButtonAck" /\ x = Shown(d)
  <2>1. d.left = l
    BY <1>4 DEF AckLeft
  <2> QED BY <1>4, <2>1, ShownIs
<1>5. CASE /\ msg.type = "EthereumTxAck"
           /\ x = [on EXCEPT !.left = on.left - msg.value]
  <2>1. PICK v : v = on.left - msg.value
    OBVIOUS
  <2>2. v = l
    BY <1>2, <1>5, <2>1 DEF AckLeft
  <2>3. x = [on EXCEPT !.left = l]
    BY <1>5, <2>1, <2>2
  <2>4. /\ IsDevice(x) /\ x.phase = "work" /\ x.expects = "none"
        /\ x.reader = NotReading /\ x.call = d.call /\ x.left = l
        /\ x.layout = d.layout
    BY <1>2, <2>3 DEF IsDevice
  <2> QED BY <1>5, <2>4 DEF Works, Shows
<1>6. CASE msg.type = "EntropyAck" /\ x = [on EXCEPT !.stage = "done"]
  <2>1. /\ IsDevice(x) /\ x.phase = "work" /\ x.expects = "none"
        /\ x.reader = NotReading /\ x.call = d.call /\ x.left = d.left
        /\ x.layout = d.layout
    BY <1>2, <1>6 DEF IsDevice
  <2>2. d.left = l
    BY <1>6 DEF AckLeft
  <2> QED BY <1>6, <2>1, <2>2 DEF Works, Shows
<1>7. CASE msg.type \notin {"ButtonAck", "EthereumTxAck"} /\ x = on
  <2>1. d.left = l
    BY <1>7 DEF AckLeft
  <2> QED BY <1>2, <1>7, <2>1 DEF Works, Shows
<1>8. \/ x \in Answer(d.call, "Failure", 0)
      \/ msg.type = "ButtonAck" /\ x = Shown(d)
      \/ msg.type = "EthereumTxAck" /\ x = [on EXCEPT !.left = on.left - msg.value]
      \/ msg.type = "EntropyAck" /\ x = [on EXCEPT !.stage = "done"]
      \/ msg.type \notin {"ButtonAck", "EthereumTxAck"} /\ x = on
  BY <1>1 DEF acked
<1> QED BY <1>3, <1>4, <1>5, <1>6, <1>7, <1>8

LEMMA ReceivedOutcome ==
  ASSUME NEW d, IsDevice(d), d.reader = NotReading,
         d.expects \in AckTypes \cup {"none"}, Shows(d),
         NEW msg, NEW n, NEW l \in Int, msg.call = n,
         Opens(msg) => OpeningLeft(msg) = l,
         ~Opens(msg) => AckLeft(msg) \in Int,
         ~Opens(msg) /\ d.phase = "ack" =>
           d.call = n /\ d.left = l + AckLeft(msg),
         NEW garbled, ~garbled, NEW x \in received(d, msg, garbled)
  PROVE  Works(x, n, l) \/ \E m : Responds(x, n, l, m)
<1>1. CASE d.phase = "ack" /\ msg.type = d.expects
  <2>1. ~Opens(msg)
    BY <1>1, OperationTypes DEF Opens
  <2>2. x \in acked(d, msg, garbled)
    BY <1>1 DEF received
  <2>3. d.call = n /\ d.left = l + AckLeft(msg) /\ AckLeft(msg) \in Int
    BY <1>1, <2>1
  <2>4. msg.type = "ButtonAck" \/ ~d.layout
    BY <1>1 DEF Shows
  <2>5. Works(x, d.call, l) \/ \E m : Responds(x, d.call, l, m)
    BY <2>2, <2>3, <2>4, AckedOutcome
  <2> QED BY <2>3, <2>5
<1>2. CASE ~(d.phase = "ack" /\ msg.type = d.expects)
  <2>1. x \in handle_single_message(msg, garbled)
    BY <1>2 DEF received
  <2> QED BY <2>1, HandleOutcome
<1> QED BY <1>1, <1>2

LEMMA AskingIs ==
  ASSUME NEW d, IsDevice(d)
  PROVE  LET e == Asking(d)
         IN /\ IsDevice(e) /\ e.phase = d.phase /\ e.reader = d.reader
            /\ e.call = d.call /\ e.left = d.left /\ e.layout = d.layout
<1>1. PICK e : e = [d EXCEPT !.asks = @ + 1]
  OBVIOUS
<1>2. /\ IsDevice(e) /\ e.phase = d.phase /\ e.reader = d.reader
      /\ e.call = d.call /\ e.left = d.left /\ e.layout = d.layout
  BY <1>1 DEF IsDevice
<1> QED BY <1>1, <1>2 DEF Asking

LEMMA WorkOutcome ==
  ASSUME NEW d, IsDevice(d), d.reader = NotReading, ~d.layout,
         NEW x, \/ x \in asks(d) \/ x \in goes_on(d)
                \/ x \in Answer(d.call, "Failure", 0)
  PROVE  \E m : Responds(x, d.call, d.left, m)
<1>1. ASSUME NEW type, NEW value, x \in Answer(d.call, type, value)
      PROVE  \E m : Responds(x, d.call, d.left, m)
  BY <1>1, AnswerIs
<1>2. ASSUME NEW e, IsDevice(e), e.reader = NotReading, ~e.layout,
             e.call = d.call, e.left = d.left, NEW value,
             NEW type \in Interactions \cup
                   {"EthereumTxRequest", "TxRequest", "EntropyRequest"},
             x \in Request(e, type, value)
      PROVE  \E m : Responds(x, d.call, d.left, m)
  BY <1>2, AckOfType, RequestIs
<1>3. CASE x \in asks(d)
  <2>1. PICK e : e = Asking(d)
    OBVIOUS
  <2>2. PICK type \in {"ButtonRequest", "PassphraseRequest"} :
          x \in Request(e, type, 0)
    BY <1>3, <2>1 DEF asks
  <2>3. /\ IsDevice(e) /\ e.reader = NotReading /\ ~e.layout
        /\ e.call = d.call /\ e.left = d.left
    BY <2>1, AskingIs
  <2>4. type \in Interactions
    BY DEF Interactions
  <2> QED BY <1>2, <2>2, <2>3, <2>4
<1>4. CASE x \in sign_ethereum(d)
  <2>1. PICK e : e = [d EXCEPT !.stage = "streaming"]
    OBVIOUS
  <2>2. /\ IsDevice(e) /\ e.reader = NotReading /\ e.layout = d.layout
        /\ e.call = d.call /\ e.left = d.left
    BY <2>1 DEF IsDevice
  <2>3. \/ x \in Request(e, "EthereumTxRequest", Smaller(d.left, CHUNK))
        \/ x \in Answer(d.call, "EthereumTxRequest", 0)
    BY <1>4, <2>1 DEF sign_ethereum
  <2> QED BY <1>1, <1>2, <2>2, <2>3
<1>5. CASE x \in sign_tx(d)
  <2>1. PICK e : e = [d EXCEPT !.requests = @ + 1]
    OBVIOUS
  <2>2. /\ IsDevice(e) /\ e.reader = NotReading /\ e.layout = d.layout
        /\ e.call = d.call /\ e.left = d.left
    BY <2>1 DEF IsDevice
  <2>3. \/ \E req : x \in Request(e, "TxRequest", req)
        \/ x \in Answer(d.call, "TxRequest", Finished)
    BY <1>5, <2>1 DEF sign_tx
  <2> QED BY <1>1, <1>2, <2>2, <2>3
<1>6. CASE x \in goes_on(d)
  <2>1. \/ x \in sign_ethereum(d) \/ x \in sign_tx(d)
        \/ x \in Request(d, "EntropyRequest", 0)
        \/ \E type : x \in Answer(d.call, type, 0)
    BY <1>6 DEF goes_on
  <2> QED BY <1>1, <1>2, <1>4, <1>5, <2>1
<1> QED BY <1>1, <1>3, <1>6

-----------------------------------------------------------------------------
(* How a turn begins.                                                      *)

LEMMA SendingBegins ==
  ASSUME WellFormed, NEW c, NEW m, Writes(client', c, m),
         toDevice' = <<>>, toHost' = <<>>, device' = device,
         device.reader = NotReading, device.phase \in {"idle", "ack"},
         Opens(m) => OpeningLeft(m) = client'.left,
         ~Opens(m) => AckLeft(m) \in Int,
         ~Opens(m) /\ device.phase = "ack" =>
           device.call = c.n /\ device.left = client'.left + AckLeft(m)
  PROVE  TurnInv'
<1>1. WellFormed'
  BY DEF WellFormed, Writes
<1>2. Sending(m, 0)'
  <2>1. m.len \in Nat
    BY DEF Writes
  <2>2. /\ Stream(NotReading, <<>>, write(m), m, 0)
        /\ write(m) # <<>> /\ 0 < Chunks(m)
    BY <2>1, StreamStarts
  <2>3. Stream(device.reader', toDevice', client.out', m, 0)
    BY <2>2 DEF Writes
  <2> QED BY <2>2, <2>3 DEF Sending, Writes
<1> QED BY <1>1, <1>2 DEF TurnInv, Turn

LEMMA ReplyBegins ==
  ASSUME WellFormed, NEW m, Replies(client', client, m),
         toDevice' = <<>>, toHost' = <<>>, device' = device,
         device.reader = NotReading, device.phase \in {"idle", "ack"},
         device.phase = "ack" => Agree
  PROVE  TurnInv'
<1>1. Writes(client', client, m)
  BY DEF Replies
<1>2. ~Opens(m) /\ AckLeft(m) \in Int /\ client.left = client'.left + AckLeft(m)
  BY DEF Replies
<1>3. device.phase = "ack" =>
        device.call = client.n /\ device.left = client'.left + AckLeft(m)
  BY <1>2 DEF Agree
<1> QED BY <1>1, <1>2, <1>3, SendingBegins

LEMMA WorkBegins ==
  ASSUME WellFormed, Works(device', client.n, client.left), client' = client,
         client.phase = "read", client.reader = NotReading,
         toDevice' = <<>>, toHost' = <<>>
  PROVE  TurnInv'
<1>1. WellFormed'
  BY DEF WellFormed, Works
<1>2. Working'
  BY DEF Working, Works, Agree
<1> QED BY <1>1, <1>2 DEF TurnInv, Turn

LEMMA AnsweringBegins ==
  ASSUME WellFormed, NEW m, Responds(device', client.n, client.left, m),
         client' = client, client.phase = "read", client.reader = NotReading,
         toDevice' = <<>>, toHost' = <<>>
  PROVE  TurnInv'
<1>1. WellFormed'
  BY DEF WellFormed, Responds
<1>2. Answering(m, 0)'
  <2>1. m.len \in Nat
    BY DEF Responds
  <2>2. /\ Stream(NotReading, <<>>, write(m), m, 0)
        /\ write(m) # <<>> /\ 0 < Chunks(m)
    BY <2>1, StreamStarts
  <2>3. Stream(client.reader', toHost', device.out', m, 0)
    BY <2>2 DEF Responds
  <2> QED BY <2>2, <2>3 DEF Answering, Responds, Agree
<1> QED BY <1>1, <1>2 DEF TurnInv, Turn

LEMMA CallerBegins ==
  ASSUME WellFormed, device' = device,
         \/ /\ IsClient(client') /\ client'.phase = "idle" /\ client'.left = 0
            /\ client'.reader = NotReading
         \/ Asks(client', client),
         toDevice' = <<>>, toHost' = <<>>, device.reader = NotReading,
         device.phase \in {"idle", "ack"}, device.phase = "ack" => Agree
  PROVE  TurnInv'
<1>1. WellFormed'
  BY DEF WellFormed, Asks
<1>2. HostTurn'
  BY DEF HostTurn, Asks, Agree
<1> QED BY <1>1, <1>2 DEF TurnInv, Turn

LEMMA DropBegins ==
  ASSUME WellFormed, HostTurn, device' = device, client' = Returned(client),
         toDevice' = <<>>, toHost' = <<>>
  PROVE  TurnInv'
<1>1. /\ IsClient(client') /\ client'.phase = "idle" /\ client'.left = 0
      /\ client'.reader = NotReading
  BY ReturnedIs
<1>2. WellFormed'
  BY <1>1 DEF WellFormed
<1>3. HostTurn'
  BY <1>1 DEF HostTurn
<1> QED BY <1>2, <1>3 DEF TurnInv, Turn

-----------------------------------------------------------------------------
(* The steps.                                                              *)

LEMMA WhoseTurn ==
  ASSUME Turn
  PROVE  /\ client.phase \in {"idle", "asked", "progress", "entropy"} =>
              HostTurn
         /\ client.phase = "write" => \E m, k : Sending(m, k)
         /\ client.phase = "read" /\ toHost # <<>> =>
              \E m, k : Answering(m, k)
         /\ device.phase \in {"idle", "ack", "user"} /\ toDevice # <<>> =>
              \E m, k : Sending(m, k)
         /\ device.phase = "write" => \E m, k : Answering(m, k)
         /\ device.phase \in {"work", "user"} => Working
BY DEF Turn, HostTurn, Sending, Working, Answering

LEMMA CallStep ==
  ASSUME WellFormed, Turn, NEW op \in OPS, Call(op)
  PROVE  TurnInv'
<1>1. HostTurn /\ client.phase = "idle" /\ op \in DOMAIN Operations
  BY WhoseTurn, TrezorClientAssumption DEF Call
<1>2. client.left = 0 /\ client.reader = NotReading /\ IsClient(client)
  BY <1>1 DEF HostTurn, WellFormed
<1>3. Operations[op].interaction \in Interactors
  BY <1>1, OperationInteraction
<1>4. PICK c : c = [client EXCEPT !.n = @ + 1, !.op = op,
                      !.expects = Operations[op].expects,
                      !.interaction = Operations[op].interaction]
  OBVIOUS
<1>5. /\ IsClient(c) /\ c.reader = NotReading /\ c.left = 0
      /\ c.interaction = Operations[op].interaction
  BY <1>2, <1>4 DEF IsClient
<1>6. ASSUME NEW m, Writes(client', c, m), Opens(m),
             OpeningLeft(m) = client'.left
      PROVE  TurnInv'
  BY <1>1, <1>6, SendingBegins DEF HostTurn, Call
<1>7. CASE op \in DOMAIN EthereumSigning
  <2>1. PICK data \in DATA :
          client' \in call_raw([c EXCEPT !.left = data - Piece(data)], op,
                               [data_length |-> data, initial |-> Piece(data)])
    BY <1>4, <1>7 DEF Call
  <2>2. PICK l : l = data - Piece(data)
    OBVIOUS
  <2>3. l \in Int
    BY <2>2, TrezorClientAssumption DEF Piece, Smaller
  <2>4. PICK d : d = [c EXCEPT !.left = l]
    OBVIOUS
  <2>5. /\ IsClient(d) /\ d.reader = NotReading /\ d.left = l /\ d.n = c.n
        /\ d.interaction = c.interaction
    BY <1>5, <2>4 DEF IsClient
  <2>6. PICK value : value = [data_length |-> data, initial |-> Piece(data)]
    OBVIOUS
  <2>7. client' \in call_raw(d, op, value)
    BY <2>1, <2>2, <2>4, <2>6
  <2>8. PICK m : /\ Writes(client', d, m) /\ client'.left = d.left
                 /\ m.type = op /\ m.value = value
    <3>1. d.left \in Int /\ d.interaction \in Interactors
      BY <1>3, <1>5, <2>3, <2>5
    <3>2. IsClient(d) /\ d.reader = NotReading
      BY <2>5
    <3> QED BY <2>7, <3>1, <3>2, CallRaw
  <2>9. value.data_length - value.initial = l
    BY <2>2, <2>6
  <2>10. Opens(m) /\ OpeningLeft(m) = client'.left
    BY <1>1, <1>7, <2>5, <2>8, <2>9 DEF Opens, OpeningLeft
  <2>11. Writes(client', c, m)
    BY <2>5, <2>8 DEF Writes
  <2> QED BY <1>6, <2>10, <2>11
<1>8. CASE op \notin DOMAIN EthereumSigning
  <2>1. client' \in call_raw(c, op, 0)
    BY <1>4, <1>8 DEF Call
  <2>2. PICK m : /\ Writes(client', c, m) /\ client'.left = c.left
                 /\ m.type = op
    <3>1. c.left \in Int /\ c.interaction \in Interactors
      BY <1>3, <1>5
    <3>2. IsClient(c) /\ c.reader = NotReading
      BY <1>5
    <3> QED BY <2>1, <3>1, <3>2, CallRaw
  <2>3. Opens(m) /\ OpeningLeft(m) = client'.left
    BY <1>1, <1>5, <1>8, <2>2 DEF Opens, OpeningLeft
  <2> QED BY <1>6, <2>2, <2>3
<1> QED BY <1>7, <1>8

LEMMA WriteChunkStep ==
  ASSUME WellFormed, Turn, WriteChunk
  PROVE  TurnInv'
<1>1. PICK m, k : Sending(m, k)
  BY WhoseTurn DEF WriteChunk
<1>2. client.out # <<>>
  BY <1>1 DEF Sending, WriteChunk
<1>3. PICK b : b = Tail(client.out)
  OBVIOUS
<1>4. PICK p : p = IF b = <<>> THEN "read" ELSE "write"
  OBVIOUS
<1>5. Stream(device.reader, toDevice', b, m, k)
  BY <1>1, <1>2, <1>3, StreamWritten DEF Sending, WriteChunk
<1>6. client' = [client EXCEPT !.out = b, !.phase = p]
  BY <1>3, <1>4 DEF WriteChunk
<1>7. /\ IsClient(client') /\ client'.out = b /\ client'.phase = p
      /\ client'.n = client.n /\ client'.left = client.left
      /\ client'.interaction = client.interaction
      /\ client'.reader = client.reader
  BY <1>6 DEF WellFormed, IsClient
<1>8. toHost' = toHost /\ device' = device
  BY DEF WriteChunk
<1>9. WellFormed'
  BY <1>7, <1>8 DEF WellFormed, WriteChunk
<1>10. Sending(m, k)'
  BY <1>1, <1>4, <1>5, <1>7, <1>8 DEF Sending
<1> QED BY <1>9, <1>10 DEF TurnInv, Turn

LEMMA ReadChunkStep ==
  ASSUME WellFormed, Turn, ReadChunk
  PROVE  TurnInv'
<1>1. PICK m, k : Answering(m, k)
  BY WhoseTurn DEF ReadChunk
<1>2. PICK s : s = read_chunk(client.reader, Head(toHost))
  OBVIOUS
<1>3. /\ ~BadMagic(client.reader, Head(toHost))
      /\ Stream(s, Tail(toHost), device.out, m, k + 1)
      /\ s.msg = m /\ ~s.garbled
      /\ Complete(s) => Tail(toHost) = <<>> /\ device.out = <<>>
      /\ ~Complete(s) => k + 1 < Chunks(m)
  <2>1. Stream(client.reader, toHost, device.out, m, k) /\ toHost # <<>>
    BY <1>1 DEF Answering, ReadChunk
  <2> QED BY <1>2, <2>1, StreamRead
<1>4. /\ toHost' = Tail(toHost) /\ toDevice' = toDevice /\ device' = device
  BY DEF ReadChunk
<1>5. PICK c : c = [client EXCEPT !.reader = NotReading]
  OBVIOUS
<1>6. /\ IsClient(c) /\ c.reader = NotReading /\ c.phase = client.phase
      /\ c.n = client.n /\ c.left = client.left
      /\ c.interaction = client.interaction
  BY <1>5 DEF WellFormed, IsClient
<1>7. \/ ~Complete(s) /\ client' = [c EXCEPT !.reader = s]
      \/ Complete(s) /\ client' \in call(c, s.msg)
  BY <1>2, <1>3, <1>5 DEF ReadChunk
<1>8. CASE ~Complete(s) /\ client' = [c EXCEPT !.reader = s]
  <2>1. /\ IsClient(client') /\ client'.reader = s
        /\ client'.phase = client.phase /\ client'.n = client.n
        /\ client'.left = client.left
        /\ client'.interaction = client.interaction
    BY <1>6, <1>8 DEF IsClient
  <2>2. WellFormed'
    BY <1>4, <2>1 DEF WellFormed
  <2>3. ~(device.phase = "write" /\ device.layout)
    BY <1>1 DEF Answering, ReadChunk
  <2>4. Answering(m, k + 1)'
    BY <1>1, <1>3, <1>4, <1>8, <2>1, <2>3 DEF Answering, Agree
  <2> QED BY <2>2, <2>4 DEF TurnInv, Turn
<1>9. CASE Complete(s) /\ client' \in call(c, s.msg)
  <2>1. c.left \in Int /\ c.interaction \in Interactors
    BY <1>1, <1>6 DEF WellFormed, Answering
  <2>2. PICK msg : msg = s.msg
    OBVIOUS
  <2>3. \/ /\ client'.phase = "idle" /\ client'.left = 0
           /\ client'.reader = NotReading /\ IsClient(client')
        \/ Asks(client', c) \/ \E r : Replies(client', c, r)
    <3>1. IsClient(c) /\ c.reader = NotReading
      BY <1>6
    <3>2. client' \in call(c, msg)
      BY <1>9, <2>2
    <3> QED BY <2>1, <3>1, <3>2, CallOutcome
  <2>4. /\ toHost' = <<>> /\ toDevice' = <<>> /\ device.reader = NotReading
        /\ device.phase \in {"idle", "ack"}
        /\ device.phase = "ack" => Agree
    BY <1>1, <1>3, <1>4, <1>9 DEF Answering
  <2>5. Asks(client', c) => Asks(client', client)
    BY <1>6 DEF Asks
  <2>6. \A r : Replies(client', c, r) => Replies(client', client, r)
    BY <1>6 DEF Replies, Writes
  <2>7. CASE \E r : Replies(client', client, r)
    BY <1>4, <2>4, <2>7, ReplyBegins
  <2>8. CASE \/ /\ client'.phase = "idle" /\ client'.left = 0
                /\ client'.reader = NotReading /\ IsClient(client')
             \/ Asks(client', client)
    BY <1>4, <2>4, <2>8, CallerBegins
  <2> QED BY <2>3, <2>5, <2>6, <2>7, <2>8
<1> QED BY <1>7, <1>8, <1>9

LEMMA HostTurnReplies ==
  ASSUME WellFormed, HostTurn, client.phase # "idle",
         UNCHANGED <<toDevice, toHost, device>>,
         NEW m, Replies(client', client, m)
  PROVE  TurnInv'
<1>1. /\ toHost' = <<>> /\ toDevice' = <<>> /\ device' = device
      /\ device.reader = NotReading /\ device.phase \in {"idle", "ack"}
      /\ device.phase = "ack" => Agree
  BY DEF HostTurn
<1> QED BY <1>1, ReplyBegins

LEMMA CallerStep ==
  ASSUME WellFormed, Turn,
         Ack \/ AckPsbt \/ Drop \/ \E len \in {31, 32} : AckEntropy(len)
  PROVE  TurnInv'
<1>1. HostTurn /\ client.phase # "idle" /\ UNCHANGED <<toDevice, toHost, device>>
  BY WhoseTurn DEF Ack, AckPsbt, Drop, AckEntropy
<1>2. /\ IsClient(client) /\ client.reader = NotReading /\ client.left \in Int
      /\ client.interaction \in Interactors
  BY <1>1 DEF WellFormed, HostTurn
<1>3. CASE client' = Returned(client)
  BY <1>1, <1>3, DropBegins DEF HostTurn
<1>4. ASSUME NEW type \in AckTypes \ {"EthereumTxAck"}, NEW value,
             client' \in call_raw(client, type, value)
      PROVE  TurnInv'
  <2>1. PICK m : Replies(client', client, m)
    BY <1>2, <1>4, PlainReply
  <2> QED BY <1>1, <2>1, HostTurnReplies
<1>5. CASE Ack
  <2>1. client.req \in Interactions
    BY <1>1, <1>5 DEF Ack, HostTurn
  <2>2. AckOf(client.req) \in AckTypes \ {"EthereumTxAck"}
    BY <2>1 DEF AckOf, AckTypes, Interactions
  <2>3. \E value : client' \in call_raw(client, AckOf(client.req), value)
    BY <1>5, Zenon DEF Ack
  <2> QED BY <1>4, <2>2, <2>3
<1>6. CASE AckPsbt
  <2>1. PICK type : type = "TxAck"
    OBVIOUS
  <2>2. type \in AckTypes \ {"EthereumTxAck"}
    BY <2>1 DEF AckTypes
  <2>3. client' \in call_raw(client, type, 0) \/ client' = Returned(client)
    BY <1>6, <2>1 DEF AckPsbt
  <2> QED BY <1>3, <1>4, <2>2, <2>3
<1>7. CASE \E len \in {31, 32} : AckEntropy(len)
  <2>1. PICK c : c = [client EXCEPT !.expects = "Success"]
    OBVIOUS
  <2>2. /\ IsClient(c) /\ c.reader = NotReading /\ c.n = client.n
        /\ c.left = client.left /\ c.interaction = client.interaction
    BY <1>2, <2>1 DEF IsClient
  <2>3. CASE client' \in call_raw(c, "EntropyAck", 0)
    <3>1. PICK type : type = "EntropyAck"
      OBVIOUS
    <3>2. type \in AckTypes \ {"EthereumTxAck"}
      BY <3>1 DEF AckTypes
    <3>3. client' \in call_raw(c, type, 0)
      BY <2>3, <3>1
    <3>4. c.left \in Int /\ c.interaction \in Interactors
      BY <1>2, <2>2
    <3>5. IsClient(c) /\ c.reader = NotReading
      BY <2>2
    <3>6. PICK m : Replies(client', c, m)
      BY <3>2, <3>3, <3>4, <3>5, PlainReply
    <3>7. Replies(client', client, m)
      BY <2>2, <3>6 DEF Replies, Writes
    <3> QED BY <1>1, <3>7, HostTurnReplies
  <2>4. client' \in call_raw(c, "EntropyAck", 0) \/ client' = Returned(client)
    BY <1>7, <2>1 DEF AckEntropy
  <2> QED BY <1>3, <2>3, <2>4
<1>8. CASE Drop
  BY <1>3, <1>8 DEF Drop
<1> QED BY <1>5, <1>6, <1>7, <1>8

LEMMA ReadReportStep ==
  ASSUME WellFormed, Turn, ReadReport
  PROVE  TurnInv'
<1>1. PICK m, k : Sending(m, k)
  BY WhoseTurn DEF ReadReport
<1>2. PICK s : s = read_chunk(device.reader, Head(toDevice))
  OBVIOUS
<1>3. /\ ~BadMagic(device.reader, Head(toDevice))
      /\ Stream(s, Tail(toDevice), client.out, m, k + 1)
      /\ s.msg = m /\ ~s.garbled
      /\ Complete(s) => Tail(toDevice) = <<>> /\ client.out = <<>>
      /\ ~Complete(s) => k + 1 < Chunks(m)
  <2>1. Stream(device.reader, toDevice, client.out, m, k) /\ toDevice # <<>>
    BY <1>1 DEF Sending, ReadReport
  <2> QED BY <1>2, <2>1, StreamRead
<1>4. /\ toDevice' = Tail(toDevice) /\ toHost' = toHost /\ client' = client
  BY DEF ReadReport, hostVars
<1>5. PICK d : d = [device EXCEPT !.reader = NotReading]
  OBVIOUS
<1>6. /\ IsDevice(d) /\ d.reader = NotReading /\ d.phase = device.phase
      /\ d.call = device.call /\ d.left = device.left
      /\ d.expects = device.expects /\ d.layout = device.layout
  BY <1>5 DEF WellFormed, IsDevice
<1>7. \/ ~Complete(s) /\ device' = [d EXCEPT !.reader = s]
      \/ Complete(s) /\ device' \in received(d, s.msg, s.garbled)
  BY <1>2, <1>3, <1>5 DEF ReadReport
<1>8. CASE ~Complete(s) /\ device' = [d EXCEPT !.reader = s]
  <2>1. /\ IsDevice(device') /\ device'.reader = s
        /\ device'.phase = device.phase /\ device'.call = device.call
        /\ device'.left = device.left /\ device'.expects = device.expects
        /\ device'.layout = device.layout
    BY <1>6, <1>8 DEF IsDevice
  <2>2. WellFormed'
    BY <1>4, <2>1 DEF WellFormed, Shows
  <2>3. Sending(m, k + 1)'
    BY <1>1, <1>3, <1>4, <1>8, <2>1 DEF Sending
  <2> QED BY <2>2, <2>3 DEF TurnInv, Turn
<1>9. CASE Complete(s) /\ device' \in received(d, s.msg, s.garbled)
  <2>1. PICK g : g = s.garbled
    OBVIOUS
  <2>2. ~g /\ device' \in received(d, m, g)
    BY <1>3, <1>9, <2>1
  <2>3. /\ d.expects \in AckTypes \cup {"none"} /\ client.left \in Int
        /\ m.call = client.n
        /\ Opens(m) => OpeningLeft(m) = client.left
        /\ ~Opens(m) => AckLeft(m) \in Int
        /\ ~Opens(m) /\ d.phase = "ack" =>
             d.call = client.n /\ d.left = client.left + AckLeft(m)
    BY <1>1, <1>6 DEF WellFormed, Sending
  <2>4. IsDevice(d) /\ d.reader = NotReading /\ Shows(d)
    BY <1>6 DEF WellFormed, Shows
  <2>5. \/ Works(device', client.n, client.left)
        \/ \E a : Responds(device', client.n, client.left, a)
    <3>1. PICK n, l : n = client.n /\ l = client.left
      OBVIOUS
    <3>2. /\ d.expects \in AckTypes \cup {"none"} /\ l \in Int
          /\ m.call = n
          /\ Opens(m) => OpeningLeft(m) = l
          /\ ~Opens(m) => AckLeft(m) \in Int
          /\ ~Opens(m) /\ d.phase = "ack" =>
               d.call = n /\ d.left = l + AckLeft(m)
      BY <2>3, <3>1
    <3>3. Works(device', n, l) \/ \E a : Responds(device', n, l, a)
      BY <2>2, <2>4, <3>2, ReceivedOutcome
    <3> QED BY <3>1, <3>3
  <2>6. /\ toDevice' = <<>> /\ toHost' = <<>> /\ client.phase = "read"
        /\ client.reader = NotReading
    BY <1>1, <1>3, <1>4, <1>9 DEF Sending
  <2> QED BY <1>4, <2>5, <2>6, WorkBegins, AnsweringBegins
<1> QED BY <1>7, <1>8, <1>9

LEMMA WriteReportStep ==
  ASSUME WellFormed, Turn, WriteReport
  PROVE  TurnInv'
<1>1. PICK m, k : Answering(m, k)
  BY WhoseTurn DEF WriteReport
<1>2. device.out # <<>>
  BY <1>1 DEF Answering, WriteReport
<1>3. PICK b : b = Tail(device.out)
  OBVIOUS
<1>4. PICK p : p = IF b # <<>> THEN "write"
                   ELSE IF device.expects = "none" THEN "idle" ELSE "ack"
  OBVIOUS
<1>5. Stream(client.reader, toHost', b, m, k)
  BY <1>1, <1>2, <1>3, StreamWritten DEF Answering, WriteReport
<1>6. device' = [device EXCEPT !.out = b, !.phase = p]
  BY <1>3, <1>4 DEF WriteReport
<1>7. /\ IsDevice(device') /\ device'.out = b /\ device'.phase = p
      /\ device'.call = device.call /\ device'.left = device.left
      /\ device'.expects = device.expects /\ device'.reader = device.reader
      /\ device'.layout = device.layout
  BY <1>6 DEF WellFormed, IsDevice
<1>8. toDevice' = toDevice /\ client' = client /\ device.phase = "write"
  BY DEF WriteReport, hostVars
<1>9. WellFormed'
  <2>1. Shows(device')
    BY <1>4, <1>7, <1>8 DEF WellFormed, Shows
  <2> QED BY <1>7, <1>8, <2>1 DEF WellFormed
<1>10. Answering(m, k)'
  <2>1. device.layout => b = <<>>
    <3>1. /\ toHost \in Seq({First(m), Rest(m)}) /\ Len(toHost) \in Nat
          /\ b \in Seq({First(m), Rest(m)}) /\ Len(b) \in Nat /\ k \in Nat
          /\ Len(toHost') + Len(b) = Chunks(m) - k
      BY <1>1, <1>5, LenProperties DEF Answering, Stream
    <3>2. Len(toHost') = Len(toHost) + 1
      BY <3>1 DEF WriteReport
    <3>3. device.layout => Len(b) = 0
      BY <1>1, <1>8, <3>1, <3>2 DEF Answering
    <3> QED BY <3>1, <3>3, EmptySeq
  <2>2. p \in {"write", "idle", "ack"} /\ (p = "write" <=> b # <<>>)
        /\ (p = "ack" => device.expects # "none")
    BY <1>4
  <2> QED BY <1>1, <1>5, <1>7, <1>8, <2>1, <2>2 DEF Answering, Agree
<1> QED BY <1>9, <1>10 DEF TurnInv, Turn

LEMMA WorkStep ==
  ASSUME WellFormed, Turn, Work
  PROVE  TurnInv'
<1>1. Working
  BY WhoseTurn DEF Work
<1>2. /\ IsDevice(device) /\ device.reader = NotReading /\ ~device.layout
      /\ device.call = client.n /\ device.left = client.left
  BY <1>1 DEF Working, WellFormed, Shows, Agree, Work
<1>3. /\ toDevice' = <<>> /\ toHost' = <<>> /\ client' = client
      /\ client.phase = "read" /\ client.reader = NotReading
  BY <1>1 DEF Work, Working, hostVars
<1>4. CASE device' \in shows(device)
  <2>1. PICK e : e = Asking(device)
    OBVIOUS
  <2>2. device' = Shown(e)
    BY <1>4, <2>1 DEF shows
  <2>3. /\ IsDevice(e) /\ e.reader = NotReading
        /\ e.call = client.n /\ e.left = client.left
    BY <1>2, <2>1, AskingIs
  <2>4. Works(device', client.n, client.left)
    BY <2>2, <2>3, ShownIs
  <2> QED BY <1>3, <2>4, WorkBegins
<1>5. CASE \/ device' \in asks(device) \/ device' \in goes_on(device)
           \/ device' \in Answer(device.call, "Failure", 0)
  <2>1. PICK m : Responds(device', device.call, device.left, m)
    BY <1>2, <1>5, WorkOutcome
  <2> QED BY <1>2, <1>3, <2>1, AnsweringBegins
<1> QED BY <1>4, <1>5 DEF Work

LEMMA HandleUsbStep ==
  ASSUME WellFormed, Turn, handle_usb
  PROVE  TurnInv'
<1>1. Working /\ device.phase = "user"
  BY WhoseTurn DEF handle_usb
<1>2. /\ IsDevice(device)
      /\ device.call = client.n /\ device.left = client.left
  BY <1>1 DEF Working, WellFormed, Agree
<1>3. /\ toDevice' = <<>> /\ toHost' = <<>> /\ client' = client
      /\ client.phase = "read" /\ client.reader = NotReading
  BY <1>1 DEF handle_usb, Working, hostVars
<1>4. PICK m : m = Message("ButtonRequest", 4, 0, device.call)
  OBVIOUS
<1>5. m.call = client.n /\ m.len = 4
  BY <1>2, <1>4 DEF Message
<1>6. m.len \in Nat /\ Chunks(m) = 1
  BY <1>5 DEF Chunks, REPLEN
<1>7. PICK e : e = Asking(device)
  OBVIOUS
<1>8. IsDevice(e) /\ e.call = client.n /\ e.left = client.left
  BY <1>2, <1>7, AskingIs
<1>9. device' = [e EXCEPT !.phase = "write", !.expects = "ButtonAck",
                          !.reader = NotReading, !.out = write(m)]
  BY <1>4, <1>7 DEF handle_usb
<1>10. /\ IsDevice(device') /\ device'.phase = "write"
       /\ device'.expects = "ButtonAck" /\ device'.reader = NotReading
       /\ device'.out = write(m)
       /\ device'.call = client.n /\ device'.left = client.left
  BY <1>8, <1>9 DEF IsDevice
<1>11. Responds(device', client.n, client.left, m)
  BY <1>5, <1>6, <1>10 DEF Responds, Shows, AckTypes
<1> QED BY <1>3, <1>11, AnsweringBegins

(* The user ends a layout that has no ButtonRequest on its way to the host *)
(* or waiting to be acknowledged.                                          *)
LEMMA UserStep ==
  ASSUME WellFormed, Turn, User, ~early'
  PROVE  TurnInv'
<1>1. device.phase \in {"user", "write"} /\ device.layout
  BY DEF User, WellFormed, Shows
<1>2. /\ toDevice = <<>> /\ toHost = <<>> /\ Agree
      /\ client.phase = "read" /\ client.reader = NotReading
  <2>1. CASE device.phase = "user"
    BY <2>1, WhoseTurn DEF Working
  <2>2. CASE device.phase = "write"
    <3>1. PICK m, k : Answering(m, k)
      BY <2>2, WhoseTurn
    <3>2. device.expects # "none"
      BY <1>1, <2>2 DEF WellFormed, Shows
    <3> QED BY <1>1, <2>2, <3>1, <3>2 DEF Answering
  <2> QED BY <1>1, <2>1, <2>2
<1>3. /\ IsDevice(device) /\ device.call = client.n /\ device.left = client.left
  BY <1>2 DEF WellFormed, Agree
<1>4. toDevice' = <<>> /\ toHost' = <<>> /\ client' = client
  BY <1>2 DEF User, hostVars
<1>5. CASE device' \in Answer(device.call, "Failure", 0)
  <2>1. PICK m : Responds(device', client.n, client.left, m)
    BY <1>3, <1>5, AnswerIs
  <2> QED BY <1>2, <1>4, <2>1, AnsweringBegins
<1>6. CASE device' = [device EXCEPT !.phase = "work", !.expects = "none",
                                    !.layout = FALSE, !.out = <<>>,
                                    !.reader = NotReading]
  <2>1. PICK no : no = FALSE
    OBVIOUS
  <2>2. device' = [device EXCEPT !.phase = "work", !.expects = "none",
                                 !.layout = no, !.out = <<>>,
                                 !.reader = NotReading]
    BY <1>6, <2>1
  <2>3. /\ IsDevice(device') /\ device'.phase = "work"
        /\ device'.expects = "none" /\ device'.layout = no
        /\ device'.reader = NotReading
        /\ device'.call = client.n /\ device'.left = client.left
    BY <1>3, <2>2 DEF IsDevice
  <2>4. Works(device', client.n, client.left)
    BY <2>1, <2>3 DEF Works, Shows
  <2> QED BY <1>2, <1>4, <2>4, WorkBegins
<1> QED BY <1>5, <1>6 DEF User

LEMMA TurnStep ==
  ASSUME TurnInv, [Next]_vars
  PROVE  TurnInv'
<1>1. CASE failed \/ failed'
  <2>1. ReadChunk /\ failed => failed'
    BY Zenon DEF ReadChunk
  <2>2. WriteFails \/ ReadTimesOut => failed'
    BY Zenon DEF WriteFails, ReadTimesOut
  <2>3. [Next]_vars => \/ UNCHANGED failed \/ ReadChunk
                       \/ WriteFails \/ ReadTimesOut
    BY Zenon DEF Next, vars, hostVars, Call, WriteChunk, Ack, AckPsbt, Drop,
                 AckEntropy, ReadReport, WriteReport, Work, handle_usb, User
  <2> QED BY <1>1, <2>1, <2>2, <2>3 DEF TurnInv
<1>2. CASE early
  <2>1. User => early'
    BY <1>2, Zenon DEF User
  <2>2. [Next]_vars => UNCHANGED early \/ User
    BY Zenon DEF Next, vars, Call, WriteChunk, WriteFails, ReadChunk,
                 ReadTimesOut, Ack, AckPsbt, Drop, AckEntropy, ReadReport,
                 WriteReport, Work, handle_usb
  <2> QED BY <1>2, <2>1, <2>2 DEF TurnInv
<1>3. CASE early'
  BY <1>3 DEF TurnInv
<1>4. CASE ~failed /\ ~failed' /\ ~early /\ ~early'
  <2>1. WellFormed /\ Turn
    BY <1>4 DEF TurnInv
  <2>2. CASE UNCHANGED vars
    BY <2>1, <2>2 DEF TurnInv, vars, WellFormed, Shows, Turn, HostTurn,
                      Working, Sending, Answering, Agree
  <2>3. ~WriteFails /\ ~ReadTimesOut
    BY <1>4 DEF WriteFails, ReadTimesOut
  <2> QED BY <1>4, <2>1, <2>2, <2>3, CallStep, WriteChunkStep, ReadChunkStep,
             CallerStep, ReadReportStep, WriteReportStep, WorkStep,
             HandleUsbStep, UserStep
          DEF Next
<1> QED BY <1>1, <1>2, <1>3, <1>4

LEMMA TurnInit ==
  ASSUME Init
  PROVE  TurnInv
<1>1. /\ IsClient(client) /\ client.phase = "idle" /\ client.left = 0
      /\ client.reader = NotReading
  <2>1. PICK no : no = FALSE
    OBVIOUS
  <2>2. client = [phase |-> "idle", n |-> 0, op |-> "none",
                  expects |-> "none", interaction |-> "none", left |-> 0,
                  req |-> 0, out |-> <<>>, reader |-> NotReading,
                  features |-> no]
    BY <2>1 DEF Init, trezor_with_transport
  <2> QED BY <2>2 DEF IsClient
<1>2. /\ IsDevice(device) /\ device.phase = "idle"
      /\ device.reader = NotReading /\ device.expects = "none"
      /\ ~device.layout
  BY NoWorkflowIs DEF Init
<1>3. toDevice = <<>> /\ toHost = <<>>
  BY DEF Init
<1> QED BY <1>1, <1>2, <1>3 DEF TurnInv, Turn, WellFormed, Shows, HostTurn

-----------------------------------------------------------------------------
(* What is on its way to the host is the answer to the call in progress:   *)
(* the client, which matches responses to calls by their type alone        *)
(* (Trezor::call), is never given one of an earlier call, although callers *)
(* drop interactions and leave workflows of the device waiting, and        *)
(* layouts send ButtonRequests while the user is at work on them           *)
(* (handle_usb). That no transfer failed, and that no layout was ended     *)
(* with such a request unacknowledged, are conditions of AnswersMatch.     *)
THEOREM ResponsesMatchCalls == Spec => []AnswersMatch
<1>1. TurnInv => AnswersMatch
  <2> SUFFICES ASSUME TurnInv, ~failed, ~early, toHost # <<>>
               PROVE  /\ client.phase = "read"
                      /\ \A i \in DOMAIN toHost : CallOf(toHost[i]) = client.n
    BY DEF AnswersMatch
  <2>1. PICK m, k : Answering(m, k)
    BY DEF TurnInv, Turn, HostTurn, Working, Sending
  <2>2. client.phase = "read" /\ m.call = client.n
    BY <2>1 DEF Answering
  <2>3. /\ toHost \in Seq({First(m), Rest(m)}) /\ k \in Nat
        /\ \A i \in 1..Len(toHost) : toHost[i] = ChunkAt(m, k + i)
    BY <2>1 DEF Answering, Stream
  <2>4. CallOf(First(m)) = m.call /\ CallOf(Rest(m)) = m.call
    BY DEF CallOf, First, Rest
  <2>5. ASSUME NEW i \in DOMAIN toHost
        PROVE  CallOf(toHost[i]) = client.n
    <3>1. i \in 1..Len(toHost)
      BY <2>3
    <3> QED BY <2>2, <2>3, <2>4, <3>1 DEF ChunkAt
  <2> QED BY <2>2, <2>5
<1> QED BY <1>1, TurnInit, TurnStep, PTL DEF Spec

(* Whenever a workflow that signs an Ethereum transaction is at work, the  *)
(* data it still waits for (send_request_chunk) is the data its host has   *)
(* still to send (ethereum_sign_tx): the device asks for more exactly      *)
(* while the client has more. The conditions are those of AnswersMatch.    *)
THEOREM DataAgrees == Spec => []DataStreamed
<1>1. TurnInv => DataStreamed
  BY DEF TurnInv, Turn, DataStreamed, HostTurn, Working, Sending, Answering,
         Agree
<1> QED BY <1>1, TurnInit, TurnStep, PTL DEF Spec

=============================================================================
