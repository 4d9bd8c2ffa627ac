---------------------------- MODULE MCFuzzBattery ----------------------------
(***************************************************************************)
(* Two vectors of functions that do the same, storing anywhere and ending  *)
(* in any way; one of functions that may store otherwise; and one of       *)
(* functions that may end otherwise.                                       *)
(***************************************************************************)
EXTENDS FuzzBattery

MCBatteries ==
  {[vectors |-> 2, cells |-> Cells, ends |-> Ends, differ |-> FALSE],
   [vectors |-> 1, cells |-> {"buffer", "heap", "stack"}, ends |-> {"return"},
    differ |-> TRUE],
   [vectors |-> 1, cells |-> {"heap"}, ends |-> Ends, differ |-> TRUE]}

OneVector == {[vectors |-> 1, cells |-> {"buffer", "heap"}, ends |-> {"return", "fault"},
               differ |-> FALSE]}
=============================================================================
