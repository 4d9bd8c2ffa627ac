----------------------------- MODULE MCRunProcess -----------------------------
(***************************************************************************)
(* A pipe of one piece and up to two pieces of output, so that a writer    *)
(* blocks while the other stream is full.                                  *)
(***************************************************************************)
EXTENDS RunProcess

World(timeout, hang, close) ==
  [timeout |-> timeout, hang |-> hang, close |-> close]

(***************************************************************************)
(* Every call that must return: processes that end, without a timeout, and *)
(* processes that hang on to their outputs, with one.                      *)
(***************************************************************************)
Attended == {World(FALSE, FALSE, TRUE), World(TRUE, TRUE, FALSE)}

(***************************************************************************)
(* A process that closes its outputs and runs on, and a timeout.           *)
(***************************************************************************)
Detached == {World(TRUE, TRUE, TRUE)}
=============================================================================
