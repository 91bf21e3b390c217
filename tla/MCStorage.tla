----------------------------- MODULE MCStorage -----------------------------
(* Storage for TLC.                                                        *)
EXTENDS Storage, TLC

(* Any entry may be the one that makes norcow move the items.              *)
AllKeys == Keys

(* A move of the items that is cut short costs one entry.                  *)
OneEntry == {{k} : k \in Keys}

(* PINs are only compared with each other and with the wipe code, and the  *)
(* protected keys are alike.                                               *)
Symmetry == Permutations(Pins) \cup Permutations(Protected)
=============================================================================
