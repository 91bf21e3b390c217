---------------------------- MODULE MCSwipeFlow ----------------------------
(* Every flow, with screens of one page, which turns nothing, and of two,  *)
(* which can turn forth and back and be left at either end; and one flow   *)
(* alone.                                                                  *)
EXTENDS SwipeFlow

MCFlows == FlowTable
OnlyGetAddress == [GetAddress |-> GetAddress]
=============================================================================
