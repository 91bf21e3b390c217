---------------------------- MODULE TrezorClient ----------------------------
(* The host's client (rust/trezor-client) and the wire session of the      *)
(* device it talks to (core/src/trezor/wire), over a link that carries     *)
(* chunks in order.  The link may fail under a write, and a read may time  *)
(* out while the device's answer is still to come.                         *)
EXTENDS ProtocolV1, SignTx

CONSTANTS
  OPS,           \* the operations the caller uses
  MAX_CALLS,     \* how many it starts
  LENGTHS,       \* the lengths of payloads, on both sides of a full chunk
  CHUNK,         \* how much Ethereum data fits in a message (1024 bytes)
  DATA,          \* how much data the transactions have, in the same units
  MAX_ASKS,      \* how many interactions a workflow of the device asks for
  MAX_REQUESTS   \* how many parts of a transaction it asks for

VARIABLES
  client,    \* Trezor, and how far the call in progress is
  toDevice,  \* the chunks written by the host and not read yet
  toHost,    \* the reports written by the device and not read yet
  device,    \* the session and its workflow
  failed,    \* whether an exchange has ended with a transport error
  early      \* whether a layout has ended while a ButtonRequest of its own
             \* was not acknowledged

hostVars == <<client, failed>>
vars == <<client, toDevice, toHost, device, failed, early>>

--------------------------------------------------------------------------
(* An operation: the type of response that ends its call, and who answers  *)
(* when the device asks for interaction first: the caller, which is given  *)
(* the TrezorResponse, handle_interaction, or no one: ok() is an error.    *)
Operation(expects, interaction) ==
  [expects |-> expects, interaction |-> interaction]

init_device == [Initialize |-> Operation("Features", "no one")]

ManagementCalls ==
  [type \in {"Ping", "ChangePin", "WipeDevice", "RecoveryDevice",
             "BackupDevice", "ApplySettings", "SignIdentity",
             "GetECDHSessionKey"} |->
     Operation(CASE type = "SignIdentity" -> "SignedIdentity"
                 [] type = "GetECDHSessionKey" -> "ECDHSessionKey"
                 [] OTHER -> "Success", "caller")]

reset_device == [ResetDevice |-> Operation("EntropyRequest", "caller")]

BitcoinCalls ==
  [GetPublicKey |-> Operation("PublicKey", "caller"),
   GetAddress |-> Operation("Address", "caller"),
   SignMessage |-> Operation("MessageSignature", "caller"),
   SignTx |-> Operation("TxRequest", "caller")]

EthereumCalls ==
  [EthereumGetAddress |-> Operation("EthereumAddress", "handled"),
   EthereumSignMessage |-> Operation("EthereumMessageSignature", "handled")]

EthereumSigning ==
  [type \in {"EthereumSignTx", "EthereumSignTxEIP1559"} |->
     Operation("EthereumTxRequest", "handled")]

SolanaCalls == [SolanaGetAddress |-> Operation("SolanaAddress", "handled")]

Operations ==
  [type \in UNION {DOMAIN init_device, DOMAIN ManagementCalls,
                   DOMAIN reset_device, DOMAIN BitcoinCalls,
                   DOMAIN EthereumCalls, DOMAIN EthereumSigning,
                   DOMAIN SolanaCalls} |->
     CASE type \in DOMAIN init_device -> init_device[type]
       [] type \in DOMAIN ManagementCalls -> ManagementCalls[type]
       [] type \in DOMAIN reset_device -> reset_device[type]
       [] type \in DOMAIN BitcoinCalls -> BitcoinCalls[type]
       [] type \in DOMAIN EthereumCalls -> EthereumCalls[type]
       [] type \in DOMAIN EthereumSigning -> EthereumSigning[type]
       [] type \in DOMAIN SolanaCalls -> SolanaCalls[type]]

Interactions == {"ButtonRequest", "PinMatrixRequest", "PassphraseRequest"}

(* The message the device reads after one it asks with.                    *)
AckOf(type) ==
  CASE type = "ButtonRequest" -> "ButtonAck"
    [] type = "PinMatrixRequest" -> "PinMatrixAck"
    [] type = "PassphraseRequest" -> "PassphraseAck"
    [] type = "EthereumTxRequest" -> "EthereumTxAck"
    [] type = "TxRequest" -> "TxAck"
    [] type = "EntropyRequest" -> "EntropyAck"

Smaller(a, b) == IF a < b THEN a ELSE b

ASSUME TrezorClientAssumption ==
  /\ OPS \subseteq DOMAIN Operations
  /\ {MAX_CALLS, CHUNK, MAX_ASKS, MAX_REQUESTS} \subseteq Nat \ {0}
  /\ LENGTHS \subseteq Nat /\ DATA \subseteq Nat

--------------------------------------------------------------------------
(* The host.  call_raw writes the message, then reads one.                 *)
trezor_with_transport ==
  [phase |-> "idle", n |-> 0, op |-> "none", expects |-> "none",
   interaction |-> "none", left |-> 0, req |-> 0, out |-> <<>>,
   reader |-> NotReading, features |-> FALSE]

Returned(c) ==
  [trezor_with_transport EXCEPT !.n = c.n, !.features = c.features]

call_raw(c, type, value) ==
  {[c EXCEPT !.phase = "write", !.req = 0,
             !.out = write(Message(type, len, value, c.n))] : len \in LENGTHS}

(* The next piece of the data of an Ethereum transaction; what is left     *)
(* once the piece is taken off is c.left.                                  *)
Piece(data) == Smaller(CHUNK, data)

ethereum_tx_ack_keeps_data(c) ==
  call_raw([c EXCEPT !.interaction = "no one"], "EthereumTxAck", Piece(c.left))

ethereum_tx_ack(c) ==
  call_raw([c EXCEPT !.interaction = "no one", !.left = @ - Piece(@)],
           "EthereumTxAck", Piece(c.left))

(* The result handlers: what an expected response leads to.                *)
result_handler(c, msg) ==
  CASE c.op = "Initialize" -> {[Returned(c) EXCEPT !.features = TRUE]}
    [] c.op \in DOMAIN EthereumSigning ->
         IF msg.value > 0 THEN ethereum_tx_ack(c) ELSE {Returned(c)}
    [] c.op = "SignTx" ->
         {[c EXCEPT !.phase = "progress", !.req = msg.value]}
    [] c.op = "ResetDevice" /\ c.expects = "EntropyRequest" ->
         {[c EXCEPT !.phase = "entropy"]}
    [] OTHER -> {Returned(c)}

(* The passphrase is to be entered on the device: _on_device is not set by *)
(* the core.                                                               *)
handle_interaction(c, type) ==
  CASE type = "ButtonRequest" -> call_raw(c, "ButtonAck", 0)
    [] type = "PinMatrixRequest" -> {Returned(c)}
    [] type = "PassphraseRequest" -> call_raw(c, "PassphraseAck", "on_device")

(* Trezor::call sorts the response by its type alone.                      *)
call(c, msg) ==
  IF msg.type = c.expects THEN result_handler(c, msg)
  ELSE IF msg.type \in Interactions
       THEN CASE c.interaction = "caller" ->
                   {[c EXCEPT !.phase = "asked", !.req = msg.type]}
              [] c.interaction = "handled" -> handle_interaction(c, msg.type)
              [] c.interaction = "no one" -> {Returned(c)}
       ELSE {Returned(c)}

--------------------------------------------------------------------------
(* The device.  The session handler runs the workflow of one message; the  *)
(* workflow asks the host, waits for the user, and answers.  While a       *)
(* layout is shown the user may end it, whatever its handle_usb does: wait *)
(* ("user"), write a ButtonRequest ("write") or wait for its ButtonAck     *)
(* ("ack").                                                                *)
NoWorkflow ==
  [phase |-> "idle", op |-> "none", call |-> 0, asks |-> 0, requests |-> 0,
   left |-> 0, stage |-> "confirm", expects |-> "none", layout |-> FALSE,
   out |-> <<>>, reader |-> NotReading]

(* A layout is shown.                                                      *)
Shown(d) == [d EXCEPT !.phase = "user", !.expects = "none", !.layout = TRUE]

Answer(call_, type, value) ==
  {[NoWorkflow EXCEPT !.phase = "write",
                      !.out = write(Message(type, len, value, call_))] :
     len \in LENGTHS}

Request(d, type, value) ==
  {[d EXCEPT !.phase = "write", !.expects = AckOf(type),
             !.out = write(Message(type, len, value, d.call))] :
     len \in LENGTHS}

(* _handle_single_message: a type without a handler is refused, a payload  *)
(* that does not decode too (one put together from two messages may).      *)
handle_single_message(msg, garbled) ==
  (IF garbled \/ msg.type \notin DOMAIN Operations
   THEN Answer(msg.call, "Failure", 0) ELSE {}) \cup
  (IF msg.type \in DOMAIN Operations
   THEN {[NoWorkflow EXCEPT
            !.phase = "work", !.op = msg.type, !.call = msg.call,
            !.left = IF msg.type \in DOMAIN EthereumSigning
                     THEN msg.value.data_length - msg.value.initial ELSE 0]}
   ELSE {})

(* What the workflow does with the answer it waited for.                   *)
acked(d, msg, garbled) ==
  LET on == [d EXCEPT !.phase = "work", !.expects = "none"]
  IN (IF garbled \/ (msg.type = "PassphraseAck" /\ msg.value = "nothing")
      THEN Answer(d.call, "Failure", 0) ELSE {}) \cup
     (CASE msg.type = "ButtonAck" -> {Shown(d)}
        [] msg.type = "PassphraseAck" /\ msg.value = "nothing" -> {}
        [] msg.type = "EthereumTxAck" -> {[on EXCEPT !.left = @ - msg.value]}
        [] msg.type = "EntropyAck" -> {[on EXCEPT !.stage = "done"]}
        [] OTHER -> {on})

(* Context.read: a message that is not the one expected aborts the         *)
(* workflow, without an answer, and handle_session runs its own instead.   *)
received_answers_aborted(d, msg, garbled) ==
  IF d.phase = "ack" /\ msg.type = d.expects THEN acked(d, msg, garbled)
  ELSE IF d.phase # "idle" THEN Answer(d.call, "Failure", 0)
  ELSE handle_single_message(msg, garbled)

received(d, msg, garbled) ==
  IF d.phase = "ack" /\ msg.type = d.expects THEN acked(d, msg, garbled)
  ELSE handle_single_message(msg, garbled)

(* The steps of the workflows: to ask for a confirmation or the            *)
(* passphrase (interact, call_any), to show a layout that asks for itself, *)
(* to fail, or to go on to the next request or the result.                 *)
MayAsk(d) ==
  /\ d.asks < MAX_ASKS
  /\ d.op # "Initialize"
  /\ d.op \in DOMAIN EthereumSigning => d.stage = "confirm"

Asking(d) == [d EXCEPT !.asks = @ + 1]

asks(d) ==
  IF MayAsk(d)
  THEN UNION {Request(Asking(d), type, 0) :
                type \in {"ButtonRequest", "PassphraseRequest"}}
  ELSE {}

shows(d) == IF MayAsk(d) THEN {Shown(Asking(d))} ELSE {}

(* send_request_chunk, until no data is left; then _sign_digest.           *)
sign_ethereum(d) ==
  IF d.left > 0
  THEN Request([d EXCEPT !.stage = "streaming"], "EthereumTxRequest",
               Smaller(d.left, CHUNK))
  ELSE Answer(d.call, "EthereumTxRequest", 0)

sign_tx(d) ==
  Answer(d.call, "TxRequest", Finished) \cup
  (IF d.requests < MAX_REQUESTS
   THEN UNION {Request([d EXCEPT !.requests = @ + 1], "TxRequest", req) :
                 req \in DeviceRequests}
   ELSE {})

goes_on(d) ==
  CASE d.op \in DOMAIN EthereumSigning -> sign_ethereum(d)
    [] d.op = "SignTx" -> sign_tx(d)
    [] d.op = "ResetDevice" ->
         IF d.stage = "confirm" THEN Request(d, "EntropyRequest", 0)
         ELSE Answer(d.call, "Success", 0)
    [] OTHER -> Answer(d.call, Operations[d.op].expects, 0)

--------------------------------------------------------------------------
Init ==
  /\ client = trezor_with_transport
  /\ toDevice = <<>>
  /\ toHost = <<>>
  /\ device = NoWorkflow
  /\ failed = FALSE
  /\ early = FALSE

(* The caller starts an operation; the transactions of Ethereum come with  *)
(* the first piece of their data.                                          *)
Call(op) ==
  LET c == [client EXCEPT !.n = @ + 1, !.op = op,
                          !.expects = Operations[op].expects,
                          !.interaction = Operations[op].interaction]
  IN /\ client.phase = "idle"
     /\ client.n < MAX_CALLS
     /\ IF op \in DOMAIN EthereumSigning
        THEN \E data \in DATA :
               client' \in call_raw([c EXCEPT !.left = data - Piece(data)], op,
                                    [data_length |-> data,
                                     initial |-> Piece(data)])
        ELSE client' \in call_raw(c, op, 0)
     /\ UNCHANGED <<toDevice, toHost, device, failed, early>>

(* write_chunk, until the message is out.                                  *)
WriteChunk ==
  /\ client.phase = "write"
  /\ toDevice' = Append(toDevice, Head(client.out))
  /\ client' = [client EXCEPT !.out = Tail(@),
                  !.phase = IF Tail(client.out) = <<>> THEN "read" ELSE @]
  /\ UNCHANGED <<toHost, device, failed, early>>

WriteFails ==
  /\ client.phase = "write"
  /\ client' = Returned(client)
  /\ failed' = TRUE
  /\ UNCHANGED <<toDevice, toHost, device, early>>

(* read_chunk.  A chunk that starts no message where one should is an      *)
(* error, a message put together from two may be one to decode.            *)
ReadChunk ==
  /\ client.phase = "read"
  /\ toHost # <<>>
  /\ toHost' = Tail(toHost)
  /\ LET reader == read_chunk(client.reader, Head(toHost))
         c == [client EXCEPT !.reader = NotReading]
     IN IF BadMagic(client.reader, Head(toHost))
        THEN client' = Returned(c) /\ failed' = TRUE
        ELSE /\ \/ ~Complete(reader) /\ client' = [c EXCEPT !.reader = reader]
                \/ Complete(reader) /\ client' \in call(c, reader.msg)
                \/ Complete(reader) /\ reader.garbled /\ client' = Returned(c)
             /\ UNCHANGED failed
  /\ UNCHANGED <<toDevice, device, early>>

ReadTimesOut ==
  /\ client.phase = "read"
  /\ toHost = <<>>
  /\ client' = Returned(client)
  /\ failed' = TRUE
  /\ UNCHANGED <<toDevice, toHost, device, early>>

(* The caller acknowledges the interaction it was given.                   *)
Ack ==
  /\ client.phase = "asked"
  /\ \E value \in IF client.req = "PassphraseRequest"
                  THEN {"passphrase", "on_device", "nothing"} ELSE {0} :
       client' \in call_raw(client, AckOf(client.req), value)
  /\ UNCHANGED <<toDevice, toHost, device, failed, early>>

(* SignTxProgress::ack_psbt, which must not be called once finished.       *)
AckPsbt ==
  /\ client.phase = "progress"
  /\ client.req # Finished
  /\ IF ack_psbt(client.req) THEN client' \in call_raw(client, "TxAck", 0)
                             ELSE client' = Returned(client)
  /\ UNCHANGED <<toDevice, toHost, device, failed, early>>

(* EntropyRequest::ack_entropy takes 32 bytes.                             *)
AckEntropy(len) ==
  /\ client.phase = "entropy"
  /\ IF len # 32 THEN client' = Returned(client)
     ELSE client' \in call_raw([client EXCEPT !.expects = "Success"],
                               "EntropyAck", 0)
  /\ UNCHANGED <<toDevice, toHost, device, failed, early>>

(* The caller drops what the call returned and leaves the device waiting.  *)
Drop ==
  /\ client.phase \in {"asked", "progress", "entropy"}
  /\ client' = Returned(client)
  /\ UNCHANGED <<toDevice, toHost, device, failed, early>>

(* codec_v1.read_message, run by the session, by Context.call, or by       *)
(* handle_usb while the user is waited for.                                *)
ReadReport ==
  /\ device.phase \in {"idle", "ack", "user"}
  /\ toDevice # <<>>
  /\ toDevice' = Tail(toDevice)
  /\ LET reader == read_chunk(device.reader, Head(toDevice))
         d == [device EXCEPT !.reader = NotReading]
     IN IF BadMagic(device.reader, Head(toDevice))
        THEN device' \in Answer(Head(toDevice).call, "Failure", 0)
        ELSE IF Complete(reader)
             THEN device' \in received(d, reader.msg, reader.garbled)
             ELSE device' = [d EXCEPT !.reader = reader]
  /\ UNCHANGED <<hostVars, toHost, early>>

(* codec_v1.write_message, then the read of the answer, or the next        *)
(* message.                                                                *)
WriteReport ==
  /\ device.phase = "write"
  /\ toHost' = Append(toHost, Head(device.out))
  /\ device' = [device EXCEPT !.out = Tail(@),
                  !.phase = IF Tail(device.out) # <<>> THEN @
                            ELSE IF device.expects = "none" THEN "idle"
                            ELSE "ack"]
  /\ UNCHANGED <<hostVars, toDevice, early>>

Work ==
  /\ device.phase = "work"
  /\ \/ device' \in asks(device) \cup shows(device)
     \/ device' \in goes_on(device)
     \/ device' \in Answer(device.call, "Failure", 0)
  /\ UNCHANGED <<hostVars, toDevice, toHost, early>>

(* handle_usb stops reading and writes a ButtonRequest its layout has      *)
(* published (_send_button_request, on input or on a timer).  A code and a *)
(* number of pages fit in one chunk.                                       *)
handle_usb ==
  /\ device.phase = "user"
  /\ device.asks < MAX_ASKS
  /\ device' = [Asking(device) EXCEPT
                  !.phase = "write", !.expects = "ButtonAck",
                  !.reader = NotReading,
                  !.out = write(Message("ButtonRequest", 4, 0, device.call))]
  /\ UNCHANGED <<hostVars, toDevice, toHost, early>>

(* The user ends the layout (ui.Result), which closes handle_usb: what it  *)
(* has read of a message and what it was to write is gone, and it no       *)
(* longer waits for a ButtonAck.                                           *)
User ==
  /\ device.layout
  /\ \/ device' = [device EXCEPT !.phase = "work", !.expects = "none",
                                 !.layout = FALSE, !.out = <<>>,
                                 !.reader = NotReading]
     \/ device' \in Answer(device.call, "Failure", 0)
  /\ early' = (early \/ device.phase = "ack")
  /\ UNCHANGED <<hostVars, toDevice, toHost>>

HostStep == WriteChunk \/ ReadChunk
DeviceStep == ReadReport \/ WriteReport \/ Work

Next ==
  \/ \E op \in OPS : Call(op)
  \/ WriteChunk \/ WriteFails \/ ReadChunk \/ ReadTimesOut
  \/ Ack \/ AckPsbt \/ Drop
  \/ \E len \in {31, 32} : AckEntropy(len)
  \/ ReadReport \/ WriteReport \/ Work \/ handle_usb \/ User

(* The host's thread and the device's event loop run, and the user answers *)
(* the screens shown; the caller owes nothing, and nothing times out.      *)
Spec ==
  /\ Init /\ [][Next]_vars
  /\ WF_vars(HostStep) /\ WF_vars(DeviceStep) /\ WF_vars(User)

--------------------------------------------------------------------------
CallOf(chunk) == IF chunk.first THEN chunk.msg.call ELSE chunk.call

(* The client matches a response to its call by type alone.  As long as no *)
(* exchange failed and no layout was ended before the host acknowledged    *)
(* the ButtonRequest it was showing, that is enough: all that is on its    *)
(* way to the host belongs to the call the host is reading the answer of,  *)
(* although callers drop requests and leave workflows of the device        *)
(* behind, and layouts ask while the user is at work on them.              *)
AnswersMatch ==
  ~failed /\ ~early /\ toHost # <<>> =>
    /\ client.phase = "read"
    /\ \A i \in DOMAIN toHost : CallOf(toHost[i]) = client.n

(* The client counts the data of an Ethereum transaction down by what it   *)
(* sends and the device by what it gets; without a failed exchange and a   *)
(* layout ended early they agree at every step of the signing, so that the *)
(* device asks for more exactly when the client has more, and signs all of *)
(* it.                                                                     *)
DataStreamed ==
  /\ ~failed /\ ~early
  /\ device.phase = "work" /\ device.op \in DOMAIN EthereumSigning
  => device.left = client.left

(* A call that was started returns to the caller, with the result, an      *)
(* error or the device's next request: the loops of the client and of the  *)
(* device that feed each other come to an end, and neither waits for a     *)
(* chunk the other does not send.  Failed exchanges are excepted; a layout *)
(* ended early is not, for its ButtonAck is answered too.                  *)
Busy == client.phase \in {"write", "read"}
CallAnswered == Busy ~> (~Busy \/ failed)
=============================================================================
