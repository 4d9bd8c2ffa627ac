------------------------- MODULE EvaluateModulePool -------------------------
(***************************************************************************)
(* EquivalenceRunner::EvaluateModule (fuzzer/equivalence_runner.cc): the   *)
(* sequential loop and the pool of worker threads that share two relaxed   *)
(* atomics, next_target_idx and first_divergent_idx.                       *)
(*                                                                         *)
(* first_divergent_idx only ever decreases, so its modification order is   *)
(* the numeric order of `hist`, the values it has held.  A relaxed load,   *)
(* which a failing compare_exchange also is, may return any of them that   *)
(* is not older than the last one its thread has seen (`view`).  A         *)
(* compare_exchange that succeeds acts on the newest value.                *)
(***************************************************************************)
EXTENDS Integers, FiniteSets

CONSTANTS
  NumTargets,              \* targets.size()
  NumThreads,              \* options_.num_threads
  HardwareConcurrency,     \* answers of std::thread::hardware_concurrency()
  StopOnFirstDivergence    \* options_.stop_on_first_divergence

ASSUME PoolConstants == /\ NumTargets \in Nat
                        /\ NumThreads \in Nat
                        /\ HardwareConcurrency \subseteq Nat
                        /\ StopOnFirstDivergence \in BOOLEAN

ThreadCount(hw) == IF NumThreads # 0 THEN NumThreads
                   ELSE IF hw > 0 THEN hw ELSE 1

Pooled(hw) == ThreadCount(hw) > 1 /\ NumTargets > 1

ActualThreads(hw) ==
  IF ThreadCount(hw) < NumTargets THEN ThreadCount(hw) ELSE NumTargets

\* No pool has more; one that is not created stays at "none".
Workers == 1 .. NumTargets

Index == 0 .. NumTargets - 1

VARIABLES
  targets,     \* the functions to compare, by what decides their verdict
  phase,       \* where the calling thread is
  next,        \* next_target_idx; the loop index of the sequential branch
  first,       \* first_divergent_idx, its newest value
  hist,        \* every value first_divergent_idx has held
  results,     \* summary.function_results before resize or filtering
  evaluated,   \* indices written with a verdict (the evaluated[] bytes)
  kept,        \* indices whose result is left in summary.function_results
  pc, idx, prev, view  \* each worker: its place, idx, prev, last value loaded

vars == <<targets, phase, next, first, hist, results, evaluated, kept,
          pc, idx, prev, view>>

worker == <<pc, idx, prev, view>>

(***************************************************************************)
(* What the caller has received.                                           *)
(***************************************************************************)
Delivered == IF phase = "done" THEN {[i \in kept |-> results[i]]} ELSE {}

Abstract == INSTANCE EvaluateModuleSpec WITH delivered <- Delivered

IsDivergent(i) == Abstract!EvaluateFunction(targets[i]) = "Divergent"

(***************************************************************************)
(* function_results.resize() leaves default results, whose status reads    *)
(* as an exact match until a verdict overwrites it.                        *)
(***************************************************************************)
DefaultStatus == "ExactBinaryMatch"

PC == {"none", "fetch", "check", "evaluate", "load", "cas", "exited"}

Init == /\ targets \in [Index -> Abstract!TargetKind]
        /\ phase = "start"
        /\ next = 0
        /\ first = NumTargets
        /\ hist = {NumTargets}
        /\ results = [i \in Index |-> DefaultStatus]
        /\ evaluated = {}
        /\ kept = Index
        /\ pc = [t \in Workers |-> "none"]
        /\ idx = [t \in Workers |-> 0]
        /\ prev = [t \in Workers |-> NumTargets]
        /\ view = [t \in Workers |-> NumTargets]

-----------------------------------------------------------------------------
Verdict(i) == /\ results' = [results EXCEPT ![i] =
                               Abstract!EvaluateFunction(targets[i])]
              /\ evaluated' = evaluated \union {i}

Goto(t, l) == pc' = [pc EXCEPT ![t] = l]

Readable(t) == {v \in hist : v <= view[t]}

(***************************************************************************)
(* Seeded faults: each is one definition below with a slip the code could  *)
(* have.  None of them is part of Next; they show that the properties at   *)
(* the end can tell.                                                       *)
(***************************************************************************)
FaultStepResize ==                            \* resize(i), not i + 1
  /\ phase = "sequential"
  /\ next < NumTargets
  /\ Verdict(next)
  /\ next' = next + 1
  /\ IF StopOnFirstDivergence /\ IsDivergent(next)
     THEN kept' = 0 .. next - 1 /\ phase' = "done"
     ELSE UNCHANGED <<kept, phase>>
  /\ UNCHANGED <<targets, first, hist, worker>>

FaultJoin ==                                  \* i < limit, not i <= limit
  /\ phase = "pool"
  /\ \A t \in Workers : pc[t] \in {"none", "exited"}
  /\ kept' = IF first < NumTargets THEN 0 .. first - 1 ELSE kept
  /\ phase' = "done"
  /\ UNCHANGED <<targets, next, first, hist, results, evaluated, worker>>

FaultFetch(t) ==                              \* load and store, not fetch_add
  /\ phase = "pool"
  /\ pc[t] = "fetch"
  /\ idx' = [idx EXCEPT ![t] = next]
  /\ next' \in {next, next + 1}
  /\ Goto(t, IF next >= NumTargets THEN "exited"
             ELSE IF StopOnFirstDivergence THEN "check" ELSE "evaluate")
  /\ UNCHANGED <<targets, phase, first, hist, results, evaluated, kept,
                 prev, view>>

FaultCheck(t) ==                              \* stop at any divergence
  /\ pc[t] = "check"
  /\ \E v \in Readable(t) :
       /\ view' = [view EXCEPT ![t] = v]
       /\ Goto(t, IF v < NumTargets THEN "exited" ELSE "evaluate")
  /\ UNCHANGED <<targets, phase, next, first, hist, results, evaluated, kept,
                 idx, prev>>

FaultReload(t, v) == /\ view' = [view EXCEPT ![t] = v]   \* prev by value
                     /\ Goto(t, "cas")
                     /\ UNCHANGED prev

FaultCas(t) ==                                \* store, not compare_exchange
  /\ pc[t] = "cas"
  /\ first' = idx[t]
  /\ hist' = hist \union {idx[t]}
  /\ view' = [view EXCEPT ![t] = idx[t]]
  /\ Goto(t, "exited")
  /\ UNCHANGED <<targets, phase, next, results, evaluated, kept, idx, prev>>

-----------------------------------------------------------------------------
(***************************************************************************)
(* The calling thread.                                                     *)
(***************************************************************************)
Start ==
  /\ phase = "start"
  /\ \E hw \in HardwareConcurrency :
       IF Pooled(hw)
       THEN /\ phase' = "pool"
            /\ pc' = [t \in Workers |->
                        IF t <= ActualThreads(hw) THEN "fetch" ELSE "none"]
       ELSE phase' = "sequential" /\ UNCHANGED pc
  /\ UNCHANGED <<targets, next, first, hist, results, evaluated, kept, idx,
                 prev, view>>

SequentialStep ==
  /\ phase = "sequential"
  /\ next < NumTargets
  /\ Verdict(next)
  /\ next' = next + 1
  /\ IF StopOnFirstDivergence /\ IsDivergent(next)
     THEN /\ kept' = 0 .. next
          /\ phase' = "done"
     ELSE UNCHANGED <<kept, phase>>
  /\ UNCHANGED <<targets, first, hist, worker>>

SequentialEnd == /\ phase = "sequential"
                 /\ next >= NumTargets
                 /\ phase' = "done"
                 /\ UNCHANGED <<targets, next, first, hist, results,
                                evaluated, kept, worker>>

Join ==
  /\ phase = "pool"
  /\ \A t \in Workers : pc[t] \in {"none", "exited"}
  /\ kept' = IF StopOnFirstDivergence /\ first < NumTargets
             THEN {i \in 0 .. first : i \in evaluated}
             ELSE kept
  /\ phase' = "done"
  /\ UNCHANGED <<targets, next, first, hist, results, evaluated, worker>>

-----------------------------------------------------------------------------
(***************************************************************************)
(* A worker thread.                                                        *)
(***************************************************************************)
Fetch(t) ==
  /\ phase = "pool"
  /\ pc[t] = "fetch"
  /\ idx' = [idx EXCEPT ![t] = next]
  /\ next' = next + 1
  /\ Goto(t, IF next >= NumTargets THEN "exited"
             ELSE IF StopOnFirstDivergence THEN "check" ELSE "evaluate")
  /\ UNCHANGED <<targets, phase, first, hist, results, evaluated, kept,
                 prev, view>>

Check(t) ==
  /\ pc[t] = "check"
  /\ \E v \in Readable(t) :
       /\ view' = [view EXCEPT ![t] = v]
       /\ Goto(t, IF idx[t] >= v THEN "exited" ELSE "evaluate")
  /\ UNCHANGED <<targets, phase, next, first, hist, results, evaluated, kept,
                 idx, prev>>

Evaluate(t) ==
  /\ pc[t] = "evaluate"
  /\ Verdict(idx[t])
  /\ Goto(t, IF StopOnFirstDivergence /\ IsDivergent(idx[t])
             THEN "load" ELSE "fetch")
  /\ UNCHANGED <<targets, phase, next, first, hist, kept, idx, prev, view>>

(***************************************************************************)
(* prev = v, then the test idx < prev of the loop.                         *)
(***************************************************************************)
Reload(t, v) == /\ prev' = [prev EXCEPT ![t] = v]
                /\ view' = [view EXCEPT ![t] = v]
                /\ Goto(t, IF idx[t] < v THEN "cas" ELSE "exited")

Load(t) ==
  /\ pc[t] = "load"
  /\ \E v \in Readable(t) : Reload(t, v)
  /\ UNCHANGED <<targets, phase, next, first, hist, results, evaluated, kept,
                 idx>>

(***************************************************************************)
(* compare_exchange_weak that sees the newest value: it stores idx, or     *)
(* finds that value in prev.                                               *)
(***************************************************************************)
Cas(t) ==
  /\ pc[t] = "cas"
  /\ IF first = prev[t]
     THEN /\ first' = idx[t]
          /\ hist' = hist \union {idx[t]}
          /\ view' = [view EXCEPT ![t] = idx[t]]
          /\ Goto(t, "exited")
          /\ UNCHANGED prev
     ELSE /\ Reload(t, first)
          /\ UNCHANGED <<first, hist>>
  /\ UNCHANGED <<targets, phase, next, results, evaluated, kept, idx>>

(***************************************************************************)
(* compare_exchange_weak that fails spuriously or on a stale load.         *)
(***************************************************************************)
CasFail(t) ==
  /\ pc[t] = "cas"
  /\ \E v \in Readable(t) : Reload(t, v)
  /\ UNCHANGED <<targets, phase, next, first, hist, results, evaluated, kept,
                 idx>>

WorkerStep(t) == \/ Fetch(t)
                 \/ Check(t)
                 \/ Evaluate(t)
                 \/ Load(t)
                 \/ Cas(t)
                 \/ CasFail(t)

Caller == Start \/ SequentialStep \/ SequentialEnd \/ Join

Next == Caller \/ \E t \in Workers : WorkerStep(t)

Spec == Init /\ [][Next]_vars

(***************************************************************************)
(* The caller and every worker are scheduled.  compare_exchange_weak does  *)
(* not fail spuriously forever, and a store becomes visible in finite      *)
(* time, so a worker that keeps trying decides on the newest value.        *)
(***************************************************************************)
Fairness == /\ WF_vars(Caller)
            /\ \A t \in Workers : WF_vars(WorkerStep(t)) /\ SF_vars(Cas(t))

FairSpec == Spec /\ Fairness
-----------------------------------------------------------------------------
Holding(t) == pc[t] \in {"check", "evaluate"}
Publishing(t) == pc[t] \in {"load", "cas"}

TypeOK ==
  /\ targets \in [Index -> Abstract!TargetKind]
  /\ phase \in {"start", "sequential", "pool", "done"}
  /\ next \in Nat
  /\ hist \subseteq 0 .. NumTargets
  /\ first \in hist
  /\ results \in [Index -> Abstract!Status]
  /\ evaluated \subseteq Index
  /\ kept \subseteq Index
  /\ pc \in [Workers -> PC]
  /\ idx \in [Workers -> Nat]
  /\ prev \in [Workers -> 0 .. NumTargets]
  /\ view \in [Workers -> 0 .. NumTargets]

(***************************************************************************)
(* No function is ever evaluated twice: a worker about to evaluate holds   *)
(* an index nobody has evaluated and no other worker holds.                *)
(***************************************************************************)
EvaluatedOnce ==
  \A t \in Workers : Holding(t) =>
    /\ idx[t] \notin evaluated
    /\ \A u \in Workers \ {t} : Holding(u) => idx[u] # idx[t]

(***************************************************************************)
(* The summary never counts a slot nobody evaluated: a default result      *)
(* would be read as an exact binary match.                                 *)
(***************************************************************************)
NoDefaultReported == phase = "done" => kept \subseteq evaluated

(***************************************************************************)
(* What the threads may leave behind when they stop early: no index below  *)
(* a published divergence was skipped, however stale the value a worker    *)
(* decided on.                                                             *)
(***************************************************************************)
NothingSkippedBeforeFirst ==
  phase = "pool" =>
    \A i \in Index :
      i < next /\ i < first =>
        i \in evaluated \/ \E t \in Workers : Holding(t) /\ idx[t] = i

(***************************************************************************)
(* first_divergent_idx moves only down, and only to a divergent function   *)
(* that has its verdict: two racing workers never overwrite the smaller    *)
(* index with the larger.                                                  *)
(***************************************************************************)
FirstDescends ==
  [][first' # first => /\ first' < first
                       /\ first' \in evaluated
                       /\ results[first'] = "Divergent"]_vars

(***************************************************************************)
(* The summary is the one a sequential evaluation delivers, whatever the   *)
(* threads do.                                                             *)
(***************************************************************************)
ImplementsSpec == Abstract!Spec

(***************************************************************************)
(* EvaluateModule returns.                                                 *)
(***************************************************************************)
Terminates == <>(phase = "done")
=============================================================================
