------------------------- MODULE EvaluateModuleSpec -------------------------
(***************************************************************************)
(* What EquivalenceRunner::EvaluateModule promises its caller, without     *)
(* saying how many threads produce it: one summary, delivered once, that   *)
(* holds the verdict of every target function in target order, cut after   *)
(* the first divergent one when stop_on_first_divergence is set.           *)
(***************************************************************************)
EXTENDS Integers

CONSTANTS
  NumTargets,             \* targets.size()
  StopOnFirstDivergence   \* options_.stop_on_first_divergence

Index == 0 .. NumTargets - 1

(***************************************************************************)
(* FunctionEquivalenceStatus, without its k prefixes.                      *)
(***************************************************************************)
Status == {"ExactBinaryMatch", "FuzzProvenEquivalent", "Divergent",
           "CompilationOrExtractError"}

(***************************************************************************)
(* What a target is made of, as far as its verdict can tell: streams that  *)
(* are missing, streams the fast pass accepts, and streams on which the    *)
(* fuzzing battery finds no, or some, counterexample.                      *)
(***************************************************************************)
TargetKind == {"empty", "fastpass", "equivalent", "counterexample"}

EvaluateFunction(kind) ==
  CASE kind = "empty"          -> "CompilationOrExtractError"
    [] kind = "fastpass"       -> "ExactBinaryMatch"
    [] kind = "equivalent"     -> "FuzzProvenEquivalent"
    [] kind = "counterexample" -> "Divergent"

IsDivergent(kind) == EvaluateFunction(kind) = "Divergent"

-----------------------------------------------------------------------------

VARIABLES
  targets,    \* the module's functions, fixed by the caller
  delivered   \* the summary handed back: {} before, {function_results} after

(***************************************************************************)
(* The indices a sequential reader of the module would report: those with  *)
(* no divergent function before them.                                      *)
(***************************************************************************)
Reported == {i \in Index : StopOnFirstDivergence =>
                             \A j \in 0 .. i - 1 : ~IsDivergent(targets[j])}

Verdicts == [i \in Reported |-> EvaluateFunction(targets[i])]

Init == /\ targets \in [Index -> TargetKind]
        /\ delivered = {}

Deliver == /\ delivered = {}
           /\ delivered' = {Verdicts}
           /\ UNCHANGED targets

Spec == Init /\ [][Deliver]_<<targets, delivered>>
=============================================================================
