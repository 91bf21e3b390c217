------------------------------- MODULE SignTx -------------------------------
(* The answers of the client to the requests the device makes while it     *)
(* signs a transaction (flows/sign_tx.rs, utils.rs).  A transaction is its *)
(* numbers of inputs and outputs; scripts, amounts and paths are left out. *)
EXTENDS Integers, Sequences

CONSTANTS
  PREV,     \* the transactions whose outputs are spent, by their txid
  INPUTS,   \* the inputs of the PSBT: the output spent (txid and vout) and
            \* the utxo it holds
  OUTPUTS   \* how many outputs the unsigned transaction has

ASSUME SignTxAssumption ==
  /\ \A h \in DOMAIN PREV : PREV[h].inputs \in Nat /\ PREV[h].outputs \in Nat
  /\ \A i \in DOMAIN INPUTS :
       /\ INPUTS[i].txid \in DOMAIN PREV /\ INPUTS[i].vout \in Nat
       /\ INPUTS[i].utxo \in {"none", "witness_utxo", "non_witness_utxo"}
  /\ OUTPUTS \in Nat

NoHash == "no tx_hash"
TxRequest(type, tx_hash, index) ==
  [request_type |-> type, tx_hash |-> tx_hash, request_index |-> index]
Finished == TxRequest("TXFINISHED", NoHash, 0)

(* psbt_find_input: the first input that spends the transaction.           *)
psbt_find_input(h) ==
  INPUTS[CHOOSE i \in DOMAIN INPUTS :
           /\ INPUTS[i].txid = h
           /\ \A j \in 1 .. i - 1 : INPUTS[j].txid # h]
Known(h) == \E i \in DOMAIN INPUTS : INPUTS[i].txid = h
HoldsTx(h) == Known(h) /\ psbt_find_input(h).utxo = "non_witness_utxo"

(* Whether the request can be answered; it is an error otherwise.  The     *)
(* transaction an input holds must have the output the input spends.       *)
HasUtxo(input) ==
  \/ input.utxo = "witness_utxo"
  \/ input.utxo = "non_witness_utxo" /\ input.vout < PREV[input.txid].outputs

ack_input_request(req) ==
  IF req.tx_hash = NoHash
  THEN /\ req.request_index < Len(INPUTS)
       /\ HasUtxo(INPUTS[req.request_index + 1])
  ELSE HoldsTx(req.tx_hash) /\ req.request_index < PREV[req.tx_hash].inputs

ack_output_request(req) ==
  IF req.tx_hash = NoHash THEN req.request_index < OUTPUTS
  ELSE IF HoldsTx(req.tx_hash)
       THEN req.request_index < PREV[req.tx_hash].outputs
       ELSE Known(req.tx_hash) /\ psbt_find_input(req.tx_hash).utxo # "none"

ack_meta_request(req) == req.tx_hash = NoHash \/ HoldsTx(req.tx_hash)

ack_psbt(req) ==
  CASE req.request_type = "TXINPUT" -> ack_input_request(req)
    [] req.request_type = "TXOUTPUT" -> ack_output_request(req)
    [] req.request_type = "TXMETA" -> ack_meta_request(req)

(* What the device asks for: the parts of the transaction and of those it  *)
(* spends from.                                                            *)
DeviceRequests ==
  {TxRequest("TXINPUT", NoHash, i - 1) : i \in DOMAIN INPUTS} \cup
  {TxRequest("TXOUTPUT", NoHash, i - 1) : i \in 1 .. OUTPUTS} \cup
  UNION {{TxRequest("TXMETA", h, 0)} \cup
         {TxRequest("TXINPUT", h, i - 1) : i \in 1 .. PREV[h].inputs} \cup
         {TxRequest("TXOUTPUT", h, i - 1) : i \in 1 .. PREV[h].outputs} :
           h \in {INPUTS[i].txid : i \in DOMAIN INPUTS}}
=============================================================================
