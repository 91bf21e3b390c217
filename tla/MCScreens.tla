----------------------------- MODULE MCScreens -----------------------------
(***************************************************************************)
(* Screens with a word list that has shared prefixes, a word that is the    *)
(* prefix of another one and doubled letters.                               *)
(***************************************************************************)
EXTENDS Screens

MCWords == { << 1, 1 >>, << 1, 1, 2 >>, << 1, 2 >>, << 2, 1, 1 >>, << 2, 2 >> }
=============================================================================
