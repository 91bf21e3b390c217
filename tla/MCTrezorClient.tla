--------------------------- MODULE MCTrezorClient ---------------------------
(* One operation of each kind, two calls: the second meets what the first  *)
(* left behind.  Payloads of 55 bytes fill one chunk, those of 56 take a   *)
(* second.  The transaction spends an output known by its transaction, one *)
(* known by itself only, and one its transaction does not have.            *)
EXTENDS TrezorClient

MCPrev == [a |-> [inputs |-> 1, outputs |-> 1], b |-> [inputs |-> 1, outputs |-> 1]]
MCInputs == << [txid |-> "a", vout |-> 0, utxo |-> "non_witness_utxo"],
               [txid |-> "b", vout |-> 0, utxo |-> "witness_utxo"],
               [txid |-> "a", vout |-> 1, utxo |-> "non_witness_utxo"] >>
=============================================================================
