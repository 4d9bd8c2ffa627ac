--------------------------- MODULE MCMipsEmulator ---------------------------
(***************************************************************************)
(* Code of three words; the words around it are other functions, 8 is not  *)
(* mapped.                                                                 *)
(***************************************************************************)
EXTENDS MipsEmulator

MCMemory == 1 .. 5
MCCode == 2 .. 4
MCValues == {3, 5, Sentinel}
MCTargets == {2, 5, 8}
MCStarts == {2}
=============================================================================
