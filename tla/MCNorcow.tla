------------------------------ MODULE MCNorcow ------------------------------
(* Norcow for TLC: the two builds, each with the values it tells apart.    *)
EXTENDS Norcow

(* Programmed in place: <<1, 0>> over <<0, 1>> or <<0, 0>> not at all,     *)
(* <<0, 1>> over <<1, 0>> half-way, <<0, 0>> over everything.              *)
Bitwise == [bit_access |-> TRUE, sector_size |-> 6, small_item_size |-> 0,
            inputs |-> {<<0, 1>>, <<1, 0>>, <<0, 0>>}]

(* A one-block item and a large one, never updated in place for the other. *)
Blockwise == [bit_access |-> FALSE, sector_size |-> 5, small_item_size |-> 1,
              inputs |-> {<<0>>, <<0, 1>>}]

BothBuilds == {Bitwise, Blockwise}
=============================================================================
