--------------------------- MODULE Fuzzer_proofs ---------------------------
(***************************************************************************)
(* What is proved of the differential fuzzer: first of the pool of threads *)
(* that evaluates the functions of a module (EvaluateModulePool), then of  *)
(* the vectors that one of those evaluations runs (FuzzBattery).           *)
(***************************************************************************)
EXTENDS EvaluateModulePool, FuzzBattery, FiniteSetTheorems, SequenceTheorems,
        WellFoundedInduction, TLAPS

-----------------------------------------------------------------------------
(***************************************************************************)
(* The inductive invariant of EvaluateModulePool and what follows from it  *)
(* for every number of targets and threads: type correctness, no default   *)
(* verdict in a summary, and the implementation of EvaluateModuleSpec.     *)
(***************************************************************************)
Right(i) == results[i] = Abstract!EvaluateFunction(targets[i])

Before(i) == \A j \in 0 .. i - 1 : ~IsDivergent(j)

(***************************************************************************)
(* What the shared variables say of one another.                           *)
(***************************************************************************)
SharedInv ==
  /\ \A i \in evaluated : i < next /\ Right(i)
  /\ \A v \in hist : first <= v
  /\ \A v \in hist : v # NumTargets =>
       StopOnFirstDivergence /\ v \in evaluated /\ IsDivergent(v)

(***************************************************************************)
(* What a worker at each place knows.                                      *)
(***************************************************************************)
WorkerInv(t) ==
  /\ pc[t] \in {"check", "evaluate", "load", "cas"} =>
       idx[t] \in Index /\ idx[t] < next
  /\ Holding(t) => idx[t] \notin evaluated
  /\ pc[t] \in {"check", "load", "cas"} => StopOnFirstDivergence
  /\ Publishing(t) => idx[t] \in evaluated /\ IsDivergent(idx[t])
  /\ pc[t] = "cas" => idx[t] < prev[t] /\ prev[t] \in hist
  /\ pc[t] = "exited" =>
       next >= NumTargets \/ (StopOnFirstDivergence /\ first < NumTargets)

Distinct == \A t, u \in Workers :
              Holding(t) /\ Holding(u) /\ t # u => idx[t] # idx[u]

(***************************************************************************)
(* Every index handed out is evaluated, held, or not below a published     *)
(* divergence.                                                             *)
(***************************************************************************)
Covered == \A i \in Index :
             i < next => \/ i \in evaluated
                         \/ \E t \in Workers : Holding(t) /\ idx[t] = i
                         \/ StopOnFirstDivergence /\ first <= i

(***************************************************************************)
(* A divergence found is published, or about to be.                        *)
(***************************************************************************)
Noticed == StopOnFirstDivergence =>
             \A i \in evaluated :
               IsDivergent(i) => \/ first <= i
                                 \/ \E t \in Workers :
                                      Publishing(t) /\ idx[t] = i

PoolInv == /\ phase \in {"start", "pool"} =>
                 Distinct /\ Covered /\ Noticed /\ kept = Index
           /\ phase = "start" => next = 0

(***************************************************************************)
(* The sequential branch leaves the workers and the atomics alone.         *)
(***************************************************************************)
SequentialInv ==
  /\ phase \in {"start", "sequential"} =>
       \A t \in Workers : pc[t] = "none"
  /\ phase = "pool" => 1 \in Workers /\ pc[1] # "none"
  /\ phase = "sequential" =>
       /\ next <= NumTargets
       /\ evaluated = 0 .. next - 1
       /\ kept = Index
       /\ StopOnFirstDivergence => Before(next)

DoneInv == phase = "done" => /\ kept \subseteq evaluated
                             /\ kept = {i \in Index :
                                   StopOnFirstDivergence => Before(i)}
                             /\ \A t \in Workers : pc[t] \in {"none", "exited"}

IInv == /\ TypeOK
        /\ SharedInv
        /\ \A t \in Workers : WorkerInv(t)
        /\ PoolInv
        /\ SequentialInv
        /\ DoneInv

-----------------------------------------------------------------------------
(***************************************************************************)
(* Every kind of target has a verdict.                                     *)
(***************************************************************************)
LEMMA VerdictType ==
  \A k \in Abstract!TargetKind : Abstract!EvaluateFunction(k) \in Abstract!Status
  BY DEF Abstract!TargetKind, Abstract!EvaluateFunction, Abstract!Status

(***************************************************************************)
(* A pool has at least two threads, for as many targets or more.           *)
(***************************************************************************)
LEMMA PoolHasWorkers ==
  ASSUME NEW hw \in HardwareConcurrency, Pooled(hw)
  PROVE  1 \in Workers /\ 1 <= ActualThreads(hw)
  BY PoolConstants DEF Pooled, Workers, ActualThreads, ThreadCount

(***************************************************************************)
(* The initial states satisfy the invariant.                               *)
(***************************************************************************)
LEMMA InitIInv == Init => IInv
<1> SUFFICES ASSUME Init PROVE IInv
  OBVIOUS
<1> USE PoolConstants
<1>1. TypeOK
  BY DEF Init, TypeOK, Index, DefaultStatus, PC, Abstract!Status
<1>2. SharedInv
  BY DEF Init, SharedInv
<1>3. \A t \in Workers : WorkerInv(t)
  BY DEF Init, WorkerInv, Holding, Publishing
<1>4. PoolInv
  BY DEF Init, PoolInv, Distinct, Covered, Noticed, Holding, Index
<1>5. SequentialInv /\ DoneInv
  BY DEF Init, SequentialInv, DoneInv
<1> QED
  BY <1>1, <1>2, <1>3, <1>4, <1>5 DEF IInv
-----------------------------------------------------------------------------
(***************************************************************************)
(* The calling thread preserves the invariant.                             *)
(***************************************************************************)
LEMMA StartIInv == IInv /\ Start => IInv'
<1> SUFFICES ASSUME IInv, Start PROVE IInv'
  OBVIOUS
<1>0. PICK hw \in HardwareConcurrency :
        IF Pooled(hw)
        THEN /\ phase' = "pool"
             /\ pc' = [t \in Workers |->
                         IF t <= ActualThreads(hw) THEN "fetch" ELSE "none"]
        ELSE phase' = "sequential" /\ UNCHANGED pc
  BY DEF Start
<1>a. /\ \A t \in Workers : pc'[t] \in {"none", "fetch"}
      /\ pc' \in [Workers -> PC]
      /\ phase' = "sequential" => \A t \in Workers : pc'[t] = "none"
  <2>1. \A t \in Workers : pc[t] = "none"
    BY DEF IInv, SequentialInv, Start
  <2>2. CASE Pooled(hw)
    BY <1>0, <2>2 DEF PC
  <2>3. CASE ~Pooled(hw)
    BY <1>0, <2>1, <2>3 DEF IInv, TypeOK
  <2> QED
    BY <2>2, <2>3
<1>b. phase' = "pool" => 1 \in Workers /\ pc'[1] # "none"
  BY <1>0, PoolHasWorkers
<1>c. phase' \in {"sequential", "pool"}
  BY <1>0
<1>d. next = 0 /\ kept = Index /\ evaluated = {}
  BY PoolConstants DEF IInv, TypeOK, PoolInv, SharedInv, Index, Start
<1> USE DEF Start
<1>1. TypeOK'
  BY <1>a, <1>c DEF IInv, TypeOK
<1>2. SharedInv'
  BY DEF IInv, SharedInv, Right, IsDivergent
<1>3. (\A t \in Workers : WorkerInv(t))'
  BY <1>a DEF WorkerInv, Holding, Publishing
<1>4. PoolInv'
  BY <1>a, <1>c, <1>d DEF PoolInv, Distinct, Covered, Noticed, Holding, Index
<1>5. SequentialInv'
  BY <1>a, <1>b, <1>c, <1>d, PoolConstants DEF SequentialInv, Before
<1>6. DoneInv'
  BY <1>c DEF DoneInv
<1> QED
  BY <1>1, <1>2, <1>3, <1>4, <1>5, <1>6 DEF IInv

LEMMA SequentialStepIInv == IInv /\ SequentialStep => IInv'
<1> SUFFICES ASSUME IInv, SequentialStep PROVE IInv'
  OBVIOUS
<1> USE PoolConstants DEF SequentialStep, worker
<1>0. next \in Index /\ next \in Nat /\ targets[next] \in Abstract!TargetKind
  BY DEF IInv, TypeOK, Index
<1>1. TypeOK'
  <2>1. /\ results' \in [Index -> Abstract!Status]
        /\ evaluated' \subseteq Index
    BY <1>0, VerdictType DEF IInv, TypeOK, Verdict
  <2>2. kept' \subseteq Index
    <3>1. 0 .. next \subseteq Index
      BY <1>0 DEF Index
    <3> QED
      BY <3>1 DEF IInv, TypeOK
  <2>3. next' \in Nat /\ phase' \in {"start", "sequential", "pool", "done"}
    BY <1>0 DEF IInv, TypeOK
  <2> QED
    BY <2>1, <2>2, <2>3 DEF IInv, TypeOK
<1>2. SharedInv'
  BY <1>0 DEF IInv, TypeOK, SharedInv, Right, IsDivergent, Verdict, Index
<1>3. (\A t \in Workers : WorkerInv(t))'
  BY <1>0 DEF IInv, SequentialInv, WorkerInv, Holding, Publishing
<1>4. PoolInv'
  BY DEF PoolInv
<1>5. SequentialInv'
  BY <1>0 DEF IInv, SequentialInv, Before, IsDivergent, Verdict
<1>6. DoneInv'
  <2> SUFFICES ASSUME StopOnFirstDivergence, IsDivergent(next)
               PROVE DoneInv'
    BY DEF DoneInv
  <2>1. /\ evaluated = 0 .. next - 1
        /\ Before(next)
        /\ evaluated' = evaluated \union {next}
        /\ kept' = 0 .. next
        /\ \A t \in Workers : pc'[t] = "none"
    BY DEF IInv, SequentialInv, Verdict
  <2>2. kept' \subseteq evaluated'
    BY <2>1, <1>0
  <2>3. \A i \in Index : Before(i)' <=> i <= next
    BY <2>1, <1>0 DEF Before, IsDivergent, Index
  <2> QED
    BY <2>1, <2>2, <2>3, <1>0 DEF DoneInv, Index
<1> QED
  BY <1>1, <1>2, <1>3, <1>4, <1>5, <1>6 DEF IInv

LEMMA SequentialEndIInv == IInv /\ SequentialEnd => IInv'
<1> SUFFICES ASSUME IInv, SequentialEnd PROVE IInv'
  OBVIOUS
<1> USE PoolConstants DEF SequentialEnd, worker
<1>1. TypeOK'
  BY DEF IInv, TypeOK
<1>2. SharedInv'
  BY DEF IInv, SharedInv, Right, IsDivergent
<1>3. (\A t \in Workers : WorkerInv(t))'
  BY DEF IInv, WorkerInv, Holding, Publishing, IsDivergent
<1>4. PoolInv' /\ SequentialInv'
  BY DEF PoolInv, SequentialInv
<1>5. DoneInv'
  <2>1. next = NumTargets /\ evaluated = Index /\ kept = Index
    BY DEF IInv, TypeOK, SequentialInv, Index
  <2>2. StopOnFirstDivergence => \A i \in Index : Before(i)'
    BY <2>1 DEF IInv, SequentialInv, Before, IsDivergent, Index
  <2> QED
    BY <2>1, <2>2 DEF IInv, SequentialInv, DoneInv
<1> QED
  BY <1>1, <1>2, <1>3, <1>4, <1>5 DEF IInv

(***************************************************************************)
(* After the join every worker has exited, so an index below the smallest  *)
(* published divergence is evaluated and not divergent.                    *)
(***************************************************************************)
LEMMA JoinIInv == IInv /\ Join => IInv'
<1> SUFFICES ASSUME IInv, Join PROVE IInv'
  OBVIOUS
<1> USE PoolConstants DEF Join, worker
<1>1. TypeOK'
  BY DEF IInv, TypeOK
<1>2. SharedInv'
  BY DEF IInv, SharedInv, Right, IsDivergent
<1>3. (\A t \in Workers : WorkerInv(t))'
  BY DEF IInv, WorkerInv, Holding, Publishing, IsDivergent
<1>4. PoolInv' /\ SequentialInv'
  BY DEF PoolInv, SequentialInv
<1>5. DoneInv'
  <2>0. /\ first \in 0 .. NumTargets /\ next \in Nat
        /\ evaluated \subseteq Index
        /\ kept = Index
    BY DEF IInv, TypeOK, PoolInv
  <2>1. \A i \in Index : i < next =>
          i \in evaluated \/ (StopOnFirstDivergence /\ first <= i)
    BY DEF IInv, PoolInv, Covered, Holding
  <2>2. StopOnFirstDivergence =>
          \A i \in evaluated : IsDivergent(i) => first <= i
    BY DEF IInv, PoolInv, Noticed, Publishing
  <2>3. first # NumTargets => first \in evaluated /\ IsDivergent(first)
    BY DEF IInv, TypeOK, SharedInv
  <2>4. \A i \in Index : Before(i)' <=> Before(i)
    BY DEF Before, IsDivergent
  <2>5. CASE StopOnFirstDivergence /\ first < NumTargets
    <3>1. first < next
      BY <2>3, <2>5 DEF IInv, SharedInv
    <3>2. kept' = 0 .. first /\ kept' \subseteq evaluated
      BY <2>0, <2>1, <2>3, <2>5, <3>1 DEF Index
    <3>3. \A i \in Index : Before(i) <=> i <= first
      BY <2>0, <2>2, <2>3, <2>5, <3>2 DEF Before, Index
    <3> QED
      BY <2>0, <2>4, <2>5, <3>2, <3>3 DEF DoneInv, Index
  <2>6. CASE ~(StopOnFirstDivergence /\ first < NumTargets)
    <3>1. 1 \in Workers /\ pc[1] = "exited"
      BY DEF IInv, SequentialInv
    <3>2. next >= NumTargets
      BY <2>6, <3>1 DEF IInv, WorkerInv
    <3>3. evaluated = Index
      <4>1. \A i \in Index : i \in Nat /\ i < next /\ i < NumTargets
        BY <2>0, <3>2 DEF Index
      <4>2. \A i \in Index : i \in evaluated
        BY <2>0, <2>1, <2>6, <4>1
      <4> QED
        BY <2>0, <4>2
    <3>4. StopOnFirstDivergence => \A i \in Index : Before(i)
      BY <2>0, <2>2, <2>6, <3>3 DEF Before, Index
    <3> QED
      BY <2>0, <2>4, <2>6, <3>3, <3>4 DEF DoneInv, Index
  <2> QED
    BY <2>5, <2>6
<1> QED
  BY <1>1, <1>2, <1>3, <1>4, <1>5 DEF IInv

-----------------------------------------------------------------------------
(***************************************************************************)
(* Each worker step preserves the invariant.                               *)
(***************************************************************************)
LEMMA WorkerInPool ==
  ASSUME IInv, NEW t \in Workers, pc[t] \notin {"none", "fetch", "exited"}
  PROVE  phase = "pool"
  BY DEF IInv, TypeOK, SequentialInv, DoneInv

LEMMA FetchIInv ==
  ASSUME IInv, NEW t \in Workers, Fetch(t)
  PROVE  IInv'
<1> USE PoolConstants DEF Fetch, Goto
<1>0. next \in Nat /\ next' = next + 1
  BY DEF IInv, TypeOK
<1>1. TypeOK'
  BY <1>0 DEF IInv, TypeOK, PC
<1>2. SharedInv'
  BY <1>0 DEF IInv, TypeOK, SharedInv, Right, IsDivergent, Index
<1>3. (\A u \in Workers : WorkerInv(u))'
  <2> SUFFICES ASSUME NEW u \in Workers PROVE WorkerInv(u)'
    OBVIOUS
  <2>1. next \notin evaluated
    BY <1>0 DEF IInv, SharedInv
  <2>2. CASE u = t
    BY <1>0, <2>1, <2>2 DEF IInv, TypeOK, WorkerInv, Holding, Publishing, Index
  <2>3. CASE u # t
    BY <1>0, <2>3 DEF IInv, TypeOK, WorkerInv, Holding, Publishing, Index,
                      IsDivergent
  <2> QED
    BY <2>2, <2>3
<1>4. PoolInv'
  <2>1. \A u \in Workers \ {t} : pc'[u] = pc[u] /\ idx'[u] = idx[u]
    BY DEF IInv, TypeOK
  <2>2. /\ pc[t] = "fetch"
        /\ idx'[t] = next
        /\ pc'[t] = IF next >= NumTargets THEN "exited"
                    ELSE IF StopOnFirstDivergence THEN "check" ELSE "evaluate"
    BY DEF IInv, TypeOK
  <2>3. Distinct'
    <3>1. \A u \in Workers : Holding(u) => idx[u] < next
      BY DEF IInv, WorkerInv, Holding
    <3> QED
      BY <1>0, <2>1, <2>2, <3>1 DEF IInv, PoolInv, Distinct, Holding
  <2>4. Covered'
    <3> SUFFICES ASSUME NEW i \in Index, i < next + 1
                 PROVE  \/ i \in evaluated
                        \/ \E u \in Workers : Holding(u)' /\ idx'[u] = i
                        \/ StopOnFirstDivergence /\ first <= i
      BY <1>0 DEF Covered
    <3>1. CASE i = next
      BY <2>2, <3>1 DEF Holding, Index
    <3>2. CASE i < next
      BY <2>1, <2>2, <3>2 DEF IInv, PoolInv, Covered, Holding
    <3> QED
      BY <1>0, <3>1, <3>2 DEF Index
  <2>5. Noticed'
    BY <2>1, <2>2 DEF IInv, PoolInv, Noticed, Publishing, IsDivergent
  <2> QED
    BY <2>3, <2>4, <2>5 DEF IInv, PoolInv
<1>5. SequentialInv' /\ DoneInv'
  BY DEF IInv, SequentialInv, DoneInv
<1> QED
  BY <1>1, <1>2, <1>3, <1>4, <1>5 DEF IInv

LEMMA CheckIInv ==
  ASSUME IInv, NEW t \in Workers, Check(t)
  PROVE  IInv'
<1> USE PoolConstants DEF Check, Goto
<1>0. phase = "pool"
  BY WorkerInPool
<1>1. PICK v \in hist : /\ view' = [view EXCEPT ![t] = v]
                        /\ Goto(t, IF idx[t] >= v THEN "exited" ELSE "evaluate")
  BY DEF Readable
<1>2. /\ v \in 0 .. NumTargets /\ first \in 0 .. NumTargets /\ first <= v
      /\ idx[t] \in Index
      /\ StopOnFirstDivergence
      /\ pc'[t] = IF idx[t] >= v THEN "exited" ELSE "evaluate"
      /\ \A u \in Workers \ {t} : pc'[u] = pc[u]
  BY <1>1 DEF IInv, TypeOK, SharedInv, WorkerInv
<1>3. idx[t] >= v => first <= idx[t] /\ first < NumTargets
  BY <1>2 DEF Index
<1>4. TypeOK'
  BY <1>1, <1>2 DEF IInv, TypeOK, PC
<1>5. SharedInv'
  BY DEF IInv, SharedInv, Right, IsDivergent
<1>6. (\A u \in Workers : WorkerInv(u))'
  BY <1>2, <1>3 DEF IInv, WorkerInv, Holding, Publishing, IsDivergent
<1>7. PoolInv'
  <2>1. Distinct'
    BY <1>0, <1>2 DEF IInv, PoolInv, Distinct, Holding
  <2>2. Covered'
    BY <1>0, <1>2, <1>3 DEF IInv, PoolInv, Covered, Holding
  <2>3. Noticed'
    BY <1>0, <1>2 DEF IInv, PoolInv, Noticed, Publishing, IsDivergent
  <2> QED
    BY <1>0, <2>1, <2>2, <2>3 DEF IInv, PoolInv
<1>8. SequentialInv' /\ DoneInv'
  BY <1>0 DEF IInv, SequentialInv, DoneInv
<1> QED
  BY <1>4, <1>5, <1>6, <1>7, <1>8 DEF IInv

LEMMA EvaluateIInv ==
  ASSUME IInv, NEW t \in Workers, Evaluate(t)
  PROVE  IInv'
<1> USE PoolConstants DEF Evaluate, Goto
<1>0. phase = "pool"
  BY WorkerInPool
<1>1. /\ idx[t] \in Index /\ idx[t] < next /\ idx[t] \notin evaluated
      /\ targets[idx[t]] \in Abstract!TargetKind
      /\ evaluated' = evaluated \union {idx[t]}
      /\ results' = [results EXCEPT ![idx[t]] =
                       Abstract!EvaluateFunction(targets[idx[t]])]
      /\ pc'[t] = IF StopOnFirstDivergence /\ IsDivergent(idx[t])
                  THEN "load" ELSE "fetch"
      /\ \A u \in Workers \ {t} : pc'[u] = pc[u]
  BY DEF IInv, TypeOK, WorkerInv, Holding, Verdict
<1>2. TypeOK'
  BY <1>1, VerdictType DEF IInv, TypeOK, PC
<1>3. SharedInv'
  BY <1>1 DEF IInv, TypeOK, SharedInv, Right, IsDivergent
<1>4. (\A u \in Workers : WorkerInv(u))'
  <2>1. \A u \in Workers \ {t} : Holding(u) => idx[u] # idx[t]
    BY <1>0 DEF IInv, PoolInv, Distinct, Holding
  <2> QED
    BY <1>1, <2>1 DEF IInv, WorkerInv, Holding, Publishing, IsDivergent
<1>5. PoolInv'
  <2>1. Distinct'
    BY <1>0, <1>1 DEF IInv, PoolInv, Distinct, Holding
  <2>2. Covered'
    BY <1>0, <1>1 DEF IInv, PoolInv, Covered, Holding
  <2>3. Noticed'
    BY <1>0, <1>1 DEF IInv, PoolInv, Noticed, Publishing, IsDivergent
  <2> QED
    BY <1>0, <2>1, <2>2, <2>3 DEF IInv, PoolInv
<1>6. SequentialInv' /\ DoneInv'
  BY <1>0 DEF IInv, SequentialInv, DoneInv
<1> QED
  BY <1>2, <1>3, <1>4, <1>5, <1>6 DEF IInv

(***************************************************************************)
(* A worker that reloads first_divergent_idx and does not store to it.     *)
(***************************************************************************)
LEMMA ReloadIInv ==
  ASSUME IInv, NEW t \in Workers, Publishing(t), NEW v \in hist, Reload(t, v),
         UNCHANGED <<targets, phase, next, first, hist, results, evaluated,
                     kept, idx>>
  PROVE  IInv'
<1> USE PoolConstants DEF Reload, Goto
<1>0. phase = "pool"
  BY WorkerInPool DEF Publishing
<1>1. /\ v \in 0 .. NumTargets /\ first \in 0 .. NumTargets /\ first <= v
      /\ idx[t] \in Index
      /\ StopOnFirstDivergence
      /\ prev'[t] = v
      /\ pc'[t] = IF idx[t] < v THEN "cas" ELSE "exited"
      /\ \A u \in Workers \ {t} : pc'[u] = pc[u] /\ prev'[u] = prev[u]
  BY DEF IInv, TypeOK, SharedInv, WorkerInv, Publishing
<1>2. ~(idx[t] < v) => first <= idx[t] /\ first < NumTargets
  BY <1>1 DEF Index
<1>3. TypeOK'
  BY <1>1 DEF IInv, TypeOK, PC
<1>4. SharedInv'
  BY DEF IInv, SharedInv, Right, IsDivergent
<1>5. (\A u \in Workers : WorkerInv(u))'
  BY <1>1, <1>2 DEF IInv, WorkerInv, Holding, Publishing, IsDivergent
<1>6. PoolInv'
  <2>1. Distinct'
    BY <1>0, <1>1 DEF IInv, PoolInv, Distinct, Holding
  <2>2. Covered'
    BY <1>0, <1>1 DEF IInv, PoolInv, Covered, Holding, Publishing
  <2>3. Noticed'
    BY <1>0, <1>1, <1>2 DEF IInv, PoolInv, Noticed, Publishing, IsDivergent
  <2> QED
    BY <1>0, <2>1, <2>2, <2>3 DEF IInv, PoolInv
<1>7. SequentialInv' /\ DoneInv'
  BY <1>0 DEF IInv, SequentialInv, DoneInv
<1> QED
  BY <1>3, <1>4, <1>5, <1>6, <1>7 DEF IInv

LEMMA CasIInv ==
  ASSUME IInv, NEW t \in Workers, Cas(t)
  PROVE  IInv'
<1>1. CASE first # prev[t]
  BY <1>1, ReloadIInv DEF Cas, Publishing, IInv, TypeOK
<1>2. CASE first = prev[t]
  <2> USE <1>2, PoolConstants DEF Cas, Goto
  <2>0. phase = "pool"
    BY WorkerInPool
  <2>1. /\ idx[t] \in Index /\ idx[t] \in evaluated /\ IsDivergent(idx[t])
        /\ idx[t] \in Nat
        /\ idx[t] < first /\ first \in 0 .. NumTargets
        /\ StopOnFirstDivergence
        /\ first' = idx[t] /\ hist' = hist \union {idx[t]}
        /\ pc'[t] = "exited"
        /\ \A u \in Workers \ {t} : pc'[u] = pc[u]
    BY DEF IInv, TypeOK, WorkerInv, Publishing, Index
  <2>2. TypeOK'
    <3>1. idx[t] \in 0 .. NumTargets
      BY <2>1 DEF Index
    <3>2. /\ hist' \subseteq 0 .. NumTargets
          /\ first' \in hist'
          /\ view' \in [Workers -> 0 .. NumTargets]
      BY <2>1, <3>1 DEF IInv, TypeOK
    <3>3. pc' \in [Workers -> PC]
      BY DEF IInv, TypeOK, PC
    <3> QED
      BY <3>2, <3>3 DEF IInv, TypeOK
  <2>3. SharedInv'
    <3>1. \A v \in hist : v \in 0 .. NumTargets /\ first <= v
      BY DEF IInv, TypeOK, SharedInv
    <3>2. \A v \in hist' : first' <= v
      BY <2>1, <3>1
    <3>3. \A v \in hist' : v # NumTargets =>
            StopOnFirstDivergence /\ v \in evaluated' /\ IsDivergent(v)'
      BY <2>1 DEF IInv, SharedInv, IsDivergent
    <3>4. \A i \in evaluated' : i < next' /\ Right(i)'
      BY DEF IInv, SharedInv, Right
    <3> QED
      BY <3>2, <3>3, <3>4 DEF SharedInv
  <2>4. (\A u \in Workers : WorkerInv(u))'
    <3>1. first' < NumTargets
      BY <2>1
    <3> QED
      BY <2>1, <3>1 DEF IInv, WorkerInv, Holding, Publishing, IsDivergent
  <2>5. PoolInv'
    <3>1. \A i \in Index : first <= i => first' <= i
      BY <2>1 DEF Index
    <3>2. Distinct'
      BY <2>0, <2>1 DEF IInv, PoolInv, Distinct, Holding
    <3>3. Covered'
      BY <2>0, <2>1, <3>1 DEF IInv, PoolInv, Covered, Holding
    <3>4. Noticed'
      BY <2>0, <2>1, <3>1 DEF IInv, TypeOK, PoolInv, Noticed, Publishing,
                              IsDivergent
    <3> QED
      BY <2>0, <3>2, <3>3, <3>4 DEF IInv, PoolInv
  <2>6. SequentialInv' /\ DoneInv'
    BY <2>0, <2>1 DEF IInv, SequentialInv, DoneInv
  <2> QED
    BY <2>2, <2>3, <2>4, <2>5, <2>6 DEF IInv
<1> QED
  BY <1>1, <1>2

LEMMA WorkerIInv ==
  ASSUME IInv, NEW t \in Workers, WorkerStep(t)
  PROVE  IInv'
<1>1. CASE Load(t)
  BY <1>1, ReloadIInv DEF Load, Readable, Publishing
<1>2. CASE CasFail(t)
  BY <1>2, ReloadIInv DEF CasFail, Readable, Publishing
<1> QED
  BY <1>1, <1>2, FetchIInv, CheckIInv, EvaluateIInv, CasIInv DEF WorkerStep

(***************************************************************************)
(* The invariant is inductive.                                             *)
(***************************************************************************)
LEMMA NextIInv == IInv /\ [Next]_vars => IInv'
<1> SUFFICES ASSUME IInv, [Next]_vars PROVE IInv'
  OBVIOUS
<1>1. CASE Caller
  BY <1>1, StartIInv, SequentialStepIInv, SequentialEndIInv, JoinIInv
     DEF Caller
<1>2. CASE \E t \in Workers : WorkerStep(t)
  BY <1>2, WorkerIInv
<1>3. CASE UNCHANGED vars
  <2> USE <1>3 DEF vars
  <2>1. TypeOK' /\ SharedInv'
    BY DEF IInv, TypeOK, SharedInv, Right, IsDivergent
  <2>2. (\A t \in Workers : WorkerInv(t))'
    BY DEF IInv, WorkerInv, Holding, Publishing, IsDivergent
  <2>3. PoolInv'
    BY DEF IInv, PoolInv, Distinct, Covered, Noticed, Holding, Publishing,
           IsDivergent
  <2>4. SequentialInv' /\ DoneInv'
    BY DEF IInv, SequentialInv, DoneInv, Before, IsDivergent
  <2> QED
    BY <2>1, <2>2, <2>3, <2>4 DEF IInv
<1> QED
  BY <1>1, <1>2, <1>3 DEF Next

THEOREM Invariance == Spec => []IInv
  BY InitIInv, NextIInv, PTL DEF Spec

-----------------------------------------------------------------------------
(***************************************************************************)
(* Every variable of EvaluateModule keeps its type.                        *)
(***************************************************************************)
THEOREM TypeCorrect == Spec => []TypeOK
<1>1. IInv => TypeOK
  BY DEF IInv
<1> QED
  BY <1>1, Invariance, PTL

(***************************************************************************)
(* No function of the module is evaluated by two workers, or twice.        *)
(***************************************************************************)
THEOREM EachEvaluatedOnce == Spec => []EvaluatedOnce
<1>1. IInv => EvaluatedOnce
  <2> SUFFICES ASSUME IInv, NEW t \in Workers, Holding(t)
               PROVE  /\ idx[t] \notin evaluated
                      /\ \A u \in Workers \ {t} : Holding(u) => idx[u] # idx[t]
    BY DEF EvaluatedOnce
  <2>1. phase = "pool"
    BY WorkerInPool DEF Holding
  <2> QED
    BY <2>1 DEF IInv, WorkerInv, PoolInv, Distinct
<1> QED
  BY <1>1, Invariance, PTL

(***************************************************************************)
(* A summary holds no default result, which would read as an exact match.  *)
(***************************************************************************)
THEOREM NoDefaultResult == Spec => []NoDefaultReported
<1>1. IInv => NoDefaultReported
  BY DEF IInv, DoneInv, NoDefaultReported
<1> QED
  BY <1>1, Invariance, PTL

(***************************************************************************)
(* While the pool runs, nothing below a published divergence was skipped.  *)
(***************************************************************************)
THEOREM NothingSkipped == Spec => []NothingSkippedBeforeFirst
<1>1. IInv => NothingSkippedBeforeFirst
  <2> SUFFICES ASSUME IInv, phase = "pool",
                      NEW i \in Index, i < next, i < first
               PROVE  i \in evaluated \/ \E t \in Workers :
                                            Holding(t) /\ idx[t] = i
    BY DEF NothingSkippedBeforeFirst
  <2>1. ~(first <= i)
    BY PoolConstants DEF IInv, TypeOK, Index
  <2> QED
    BY <2>1 DEF IInv, PoolInv, Covered
<1> QED
  BY <1>1, Invariance, PTL

(***************************************************************************)
(* first_divergent_idx only descends, onto a function found divergent.     *)
(***************************************************************************)
THEOREM FirstOnlyDescends == Spec => FirstDescends
<1>1. IInv /\ [Next]_vars =>
        [first' # first => /\ first' < first
                           /\ first' \in evaluated
                           /\ results[first'] = "Divergent"]_vars
  <2> SUFFICES ASSUME IInv, Next, first' # first
               PROVE  /\ first' < first
                      /\ first' \in evaluated
                      /\ results[first'] = "Divergent"
    BY DEF vars
  <2>1. PICK t \in Workers : Cas(t)
    BY DEF Next, Caller, Start, SequentialStep, SequentialEnd, Join, WorkerStep,
           Fetch, Check, Evaluate, Load, CasFail
  <2>2. first' = idx[t] /\ first = prev[t]
    BY <2>1 DEF Cas
  <2>3. idx[t] < prev[t] /\ idx[t] \in evaluated /\ IsDivergent(idx[t])
    BY <2>1 DEF Cas, IInv, WorkerInv, Publishing
  <2> QED
    BY <2>2, <2>3 DEF IInv, SharedInv, Right, IsDivergent
<1> QED
  BY <1>1, Invariance, PTL DEF Spec, FirstDescends

(***************************************************************************)
(* The pool implements the sequential promise: the caller receives exactly *)
(* the verdicts a sequential evaluation delivers, once, for every number   *)
(* of targets and threads and every schedule.                              *)
(***************************************************************************)
THEOREM Implementation == Spec => ImplementsSpec
<1> USE DEF Abstract!Index, Index
<1>1. Init => Abstract!Init
  BY DEF Init, Abstract!Init, Delivered
<1>2. IInv /\ IInv' /\ [Next]_vars =>
        [Abstract!Deliver]_<<targets, Delivered>>
  <2> SUFFICES ASSUME IInv, IInv', [Next]_vars
               PROVE  [Abstract!Deliver]_<<targets, Delivered>>
    OBVIOUS
  <2>1. targets' = targets
    BY DEF vars, Next, Caller, Start, SequentialStep, SequentialEnd, Join,
           WorkerStep, Fetch, Check, Evaluate, Load, Cas, CasFail
  <2>2. CASE phase = "done"
    <3>1. ~Next
      <4>1. \A t \in Workers : pc[t] \in {"none", "exited"}
        BY <2>2 DEF IInv, DoneInv
      <4> QED
        BY <2>2, <4>1 DEF Next, Caller, Start, SequentialStep, SequentialEnd,
           Join, WorkerStep, Fetch, Check, Evaluate, Load, Cas, CasFail
    <3> QED
      BY <3>1 DEF vars, Delivered
  <2>3. CASE phase # "done" /\ phase' # "done"
    BY <2>1, <2>3 DEF Delivered
  <2>4. CASE phase # "done" /\ phase' = "done"
    <3>1. kept' = Abstract!Reported
      BY <2>1, <2>4 DEF IInv, DoneInv, Before, IsDivergent,
                        Abstract!Reported, Abstract!IsDivergent
    <3>2. \A i \in kept' : results'[i] = Abstract!EvaluateFunction(targets[i])
      BY <2>1, <2>4 DEF IInv, DoneInv, SharedInv, Right
    <3>3. [i \in kept' |-> results'[i]] = Abstract!Verdicts
      BY <3>1, <3>2 DEF Abstract!Verdicts
    <3> QED
      BY <2>1, <2>4, <3>3 DEF Delivered, Abstract!Deliver
  <2> QED
    BY <2>2, <2>3, <2>4
<1> QED
  BY <1>1, <1>2, Invariance, PTL DEF Spec, ImplementsSpec, Abstract!Spec
-----------------------------------------------------------------------------
(***************************************************************************)
(* The battery's invariant: the memory of each emulator, where RunBattery  *)
(* is, is a given one with the stores of the last run on top, and its log  *)
(* is that run's.                                                          *)
(***************************************************************************)
Ran == {"retry", "compare", "rollback"}

\* Between vectors: what the stack holds is left to the next one's arguments.
Kept(e, arguments) ==
  [c \in Cells |-> CASE c = "code" -> Word
                     [] c = "data" -> IF e \in WithData THEN Data ELSE Zero
                     [] c = "stack" -> arguments
                     [] c \in {"buffer", "heap"} -> Zero]

Prefixes(s) == {SubSeq(s, 1, n) : n \in 0 .. Len(s)}

LastRan(e, s) == mem[e] = After(Fresh(e), s) /\ log[e] = Logged(Fresh(e), s)

MemoryInv ==
  /\ DOMAIN mem = Emus /\ DOMAIN log = Emus
  /\ step = "idle" => mem = Both(Blank)
  /\ step \in {"setup", "end"} => \A e \in Emus : mem[e] = Kept(e, mem[e]["stack"])
  /\ step \in {"run", "clear"} => \A e \in Emus : mem[e] = Fresh(e)
  /\ step \in Ran => \A e \in Emus : \E s \in Prefixes(does[e].stores) : LastRan(e, s)
  /\ step \notin Ran => log = Both(<< >>)

\* A run finds a zero return address; one that calls leaves another.
RegistersInv ==
  /\ DOMAIN regs = Emus
  /\ step \in {"idle", "setup", "end"} => regs = Both(ResetRegs)
  /\ step = "run" => regs = Both([ResetRegs EXCEPT !.args = vector])
  /\ step \in Ran \cup {"clear"} => \A e \in Emus :
       regs[e] = [ra |-> IF does[e].calls THEN "inside" ELSE "sentinel",
                  temps |-> "used", args |-> vector]

EntryInv ==
  /\ DOMAIN entry = Emus
  /\ IF step \in Ran \cup {"clear"}
     THEN \A e \in Emus : /\ entry[e].mem = Fresh(e) /\ entry[e].log = << >>
                          /\ entry[e].regs.args = vector /\ entry[e].run \in {1, 2}
                          /\ entry[e].run = 1 => /\ entry[e].regs.ra = "sentinel"
                                                 /\ entry[e].regs.temps = "zero"
     ELSE entry = Both(NoRun)

BatteryTypes ==
  /\ battery \in Batteries /\ vector \in 0 .. battery.vectors /\ pointer \in BOOLEAN
  /\ step \in {"idle", "setup", "run", "clear", "end"} \cup Ran
  /\ does \in [Emus -> Behaviour(battery.cells)] /\ DOMAIN status = Emus
  /\ verdict \in {"none", "error", "equivalent", "status", "value", "writes"}

\* The run was not cut off, and ended as the function does.
Whole(e) == /\ log[e] = Logged(Fresh(e), does[e].stores)
            /\ status[e] = does[e].ends

\* A second run is as the first would have been, unless it returns elsewhere or uses
\* up its steps as well.
EndInv ==
  /\ step = "retry" => \A e \in Emus : IF does[e].pace = "fast" THEN Whole(e)
                                       ELSE status[e] = "max steps"
  /\ step \in {"compare", "rollback"} /\ ~Calls /\ ~TooSlow =>
       (\A e \in Emus : status[e] = "max steps") \/ (\A e \in Emus : Whole(e))
  /\ step = "rollback" => verdict = Compared

BatteryInv == BatteryTypes /\ MemoryInv /\ RegistersInv /\ EntryInv /\ EndInv
-----------------------------------------------------------------------------
(***************************************************************************)
(* The largest and the least of some numbers.                              *)
(***************************************************************************)
Less == {p \in Nat \X Nat : p[1] < p[2]}

LEMMA LeastNumber ==
  ASSUME NEW T, T \subseteq Nat, T # {}
  PROVE  \E x \in T : \A y \in T : x <= y
<1>1. IsWellFoundedOn(Less, Nat)
  BY NatLessThanWellFounded DEF OpToRel, Less
<1>2. \E x \in T : \A y \in T : <<y, x>> \notin Less
  BY <1>1, WFMin
<1>3. \A x, y \in Nat : <<y, x>> \notin Less => x <= y
  BY DEF Less
<1> QED
  BY <1>2, <1>3

LEMMA MinIs ==
  ASSUME NEW T, T \subseteq Nat, T # {}
  PROVE  Min(T) \in T /\ \A y \in T : Min(T) <= y
  BY LeastNumber DEF Min

LEMMA MaxIs ==
  ASSUME NEW n \in Nat, NEW T, T \subseteq 1 .. n, T # {}
  PROVE  Max(T) \in T /\ \A y \in T : Max(T) >= y
<1> DEFINE Below == {n - y : y \in T}
<1>1. Below \subseteq Nat /\ Below # {}
  <2>1. \A y \in 1 .. n : n - y \in Nat
    OBVIOUS
  <2> QED
    BY <2>1
<1>2. PICK b \in Below : \A y \in Below : b <= y
  BY <1>1, LeastNumber
<1>3. PICK x \in T : b = n - x
  OBVIOUS
<1>4. \A y \in T : x >= y
  <2> TAKE y \in T
  <2>1. n - x <= n - y
    BY <1>2, <1>3
  <2>2. x \in Int /\ y \in Int
    OBVIOUS
  <2> QED
    BY <2>1, <2>2
<1> QED
  BY <1>4 DEF Max

(***************************************************************************)
(* Rolling back the log of a run restores the memory it was made over,     *)
(* whatever the run stored and however often to one cell.                  *)
(***************************************************************************)
LEMMA RollbackRestores ==
  ASSUME NEW m, m = [c \in Cells |-> m[c]], m["code"] = Word,
         NEW n \in Nat, NEW s, DOMAIN s = 1 .. n
  PROVE  RolledBack(After(m, s), Logged(m, s)) = m
<1> DEFINE l == Logged(m, s)
           Hits(c) == {i \in DOMAIN l : l[i].cell = c}
<1>1. DOMAIN l = 1 .. n /\ \A i \in 1 .. n : l[i].cell = s[i].cell
  BY DEF Logged
<1>2. \A c \in Cells : Hits(c) = {i \in DOMAIN s : s[i].cell = c}
  BY <1>1
<1>3. RolledBack(After(m, s), l) =
        [c \in Cells |-> IF Hits(c) = {} THEN After(m, s)[c]
                         ELSE IF c = "code" THEN Word ELSE l[Min(Hits(c))].prev]
  BY DEF RolledBack
<1>4. ASSUME NEW c \in Cells, Hits(c) = {}
      PROVE  After(m, s)[c] = m[c]
  <2>1. {i \in DOMAIN s : s[i].cell = c} = {}
    BY <1>2, <1>4
  <2> QED
    BY <2>1 DEF After
<1>5. ASSUME NEW c \in Cells, Hits(c) # {}
      PROVE  l[Min(Hits(c))].prev = m[c]
  <2> DEFINE k == Min(Hits(c))
  <2>1. Hits(c) \subseteq Nat
    BY <1>1
  <2>2. k \in Hits(c) /\ \A y \in Hits(c) : k <= y
    <3> HIDE DEF Hits
    <3> QED
      BY <1>5, <2>1, MinIs
  <2>3. k \in 1 .. n /\ s[k].cell = c
    BY <1>1, <2>2
  <2>4. {j \in 1 .. k - 1 : s[j].cell = c} = {}
    <3> SUFFICES ASSUME NEW j \in 1 .. k - 1, s[j].cell = c PROVE FALSE
      OBVIOUS
    <3>1. j \in 1 .. n /\ ~(k <= j)
      BY <2>3
    <3>2. j \in Hits(c)
      BY <1>1, <3>1
    <3> QED
      BY <2>2, <3>1, <3>2
  <2> HIDE DEF k
  <2> QED
    BY <2>3, <2>4 DEF Logged, k
<1> HIDE DEF l, Hits
<1> QED
  BY <1>3, <1>4, <1>5 DEF l

(***************************************************************************)
(* Two lists as long as one another in which each value of the first is as *)
(* often: the second has no other values.                                  *)
(***************************************************************************)
At(x, D, f) == {j \in D : f[j] = x}

AsOften(T, C, t, c) == \A i \in T : Cardinality(At(t[i], T, t)) = Cardinality(At(t[i], C, c))

LEMMA SameValues ==
  ASSUME NEW T, NEW C, IsFiniteSet(T), IsFiniteSet(C), Cardinality(T) = Cardinality(C),
         NEW t, NEW c, AsOften(T, C, t, c)
  PROVE  \A j \in C : \E i \in T : t[i] = c[j]
<1> DEFINE In(x) == At(x, T, t)
           On(x) == At(x, C, c)
           Values == {t[i] : i \in T}
           Pairing == [x \in Values |-> CHOOSE b : b \in Bijection(In(x), On(x))]
           Paired == [i \in T |-> Pairing[t[i]][i]]
<1>1. ASSUME NEW x \in Values
      PROVE  Pairing[x] \in Bijection(In(x), On(x))
  <2>1. PICK i \in T : x = t[i]
    OBVIOUS
  <2>2. IsFiniteSet(In(x)) /\ IsFiniteSet(On(x))
    <3>1. In(x) \in SUBSET T /\ On(x) \in SUBSET C
      BY DEF At
    <3> HIDE DEF In, On
    <3> QED
      BY <3>1, FS_Subset
  <2>3. Cardinality(In(x)) = Cardinality(On(x))
    BY <2>1 DEF AsOften
  <2>4. ExistsBijection(In(x), On(x))
    <3> HIDE DEF In, On
    <3> QED
      BY <2>2, <2>3, FS_SameCardinalityBij
  <2>5. \E b : b \in Bijection(In(x), On(x))
    BY <2>4 DEF ExistsBijection
  <2>6. Pairing[x] = CHOOSE b : b \in Bijection(In(x), On(x))
    OBVIOUS
  <2> HIDE DEF In, On, Pairing
  <2> QED
    BY <2>5, <2>6
<1>2. ASSUME NEW i \in T
      PROVE  Paired[i] \in C /\ c[Paired[i]] = t[i]
  <2>1. t[i] \in Values /\ i \in In(t[i]) /\ Paired[i] = Pairing[t[i]][i]
    BY DEF At
  <2>2. Pairing[t[i]] \in [In(t[i]) -> On(t[i])]
    BY <1>1, <2>1 DEF Bijection, Injection
  <2>3. Paired[i] \in On(t[i])
    <3> HIDE DEF In, On, Pairing, Paired
    <3> QED
      BY <2>1, <2>2
  <2> HIDE DEF Paired
  <2> QED
    BY <2>3 DEF At
<1>3. ASSUME NEW i \in T, NEW j \in T, Paired[i] = Paired[j]
      PROVE  i = j
  <2>1. t[i] = t[j]
    <3> HIDE DEF Paired
    <3> QED
      BY <1>2, <1>3
  <2>2. t[i] \in Values /\ i \in In(t[i]) /\ j \in In(t[i])
    BY <2>1 DEF At
  <2>3. Pairing[t[i]][i] = Pairing[t[i]][j]
    BY <1>3, <2>1
  <2>4. \A a, b \in In(t[i]) : Pairing[t[i]][a] = Pairing[t[i]][b] => a = b
    <3>1. Pairing[t[i]] \in Bijection(In(t[i]), On(t[i]))
      BY <1>1, <2>2
    <3> HIDE DEF In, On, Pairing
    <3> QED
      BY <3>1 DEF Bijection, Injection, IsInjective
  <2> HIDE DEF In, Pairing
  <2> QED
    BY <2>2, <2>3, <2>4
<1>4. Paired \in Injection(T, C)
  <2>1. Paired \in [T -> C]
    <3>1. Paired = [i \in T |-> Paired[i]]
      OBVIOUS
    <3> HIDE DEF Paired
    <3> QED
      BY <1>2, <3>1
  <2> HIDE DEF Paired
  <2> QED
    BY <1>3, <2>1 DEF Injection, IsInjective
<1>5. Paired \in Surjection(T, C)
  <2> HIDE DEF Paired
  <2> QED
    BY <1>4, FS_Injection
<1> HIDE DEF Paired
<1> QED
  BY <1>2, <1>5 DEF Surjection

-----------------------------------------------------------------------------
(***************************************************************************)
(* What functions do, and the memory that a vector starts from.            *)
(***************************************************************************)
LEMMA BehaviourIs ==
  ASSUME NEW b \in Behaviour(battery.cells)
  PROVE  /\ b.stores \in Seq(Store(battery.cells)) /\ Len(b.stores) <= MaxStores
         /\ b.ends \in Ends /\ b.pace \in Paces /\ b.calls \in BOOLEAN
         /\ b.calls => Calls
         /\ b.stores \in Prefixes(b.stores)
<1>1. MaxStores \in Nat /\ Calls \in BOOLEAN
  BY BatteryConstants
<1>2. /\ b.stores \in UNION {[1 .. n -> Store(battery.cells)] : n \in 0 .. MaxStores}
      /\ b.ends \in Ends /\ b.calls \in {FALSE, Calls} /\ b.pace \in Paces
  BY DEF Behaviour
<1>3. PICK n \in 0 .. MaxStores : b.stores \in [1 .. n -> Store(battery.cells)]
  BY <1>2
<1>4. n \in Nat /\ n <= MaxStores
  BY <1>1
<1>5. b.stores \in Seq(Store(battery.cells)) /\ Len(b.stores) = n
  BY <1>3, <1>4
<1>6. SubSeq(b.stores, 1, n) = b.stores
  BY <1>4, <1>5
<1>7. b.stores \in Prefixes(b.stores)
  BY <1>4, <1>5, <1>6 DEF Prefixes
<1>8. b.calls \in BOOLEAN /\ (b.calls => Calls)
  BY <1>1, <1>2
<1> QED
  BY <1>2, <1>4, <1>5, <1>7, <1>8

LEMMA PrefixIs ==
  ASSUME NEW S, NEW t \in Seq(S), NEW s \in Prefixes(t)
  PROVE  s \in Seq(S) /\ DOMAIN s = 1 .. Len(s) /\ Len(s) \in Nat /\ Len(s) <= Len(t)
<1>1. PICK n \in 0 .. Len(t) : s = SubSeq(t, 1, n)
  BY DEF Prefixes
<1>2. n \in Nat /\ n <= Len(t)
  OBVIOUS
<1>3. s \in Seq(S) /\ Len(s) = n
  BY <1>1, <1>2
<1> QED
  BY <1>2, <1>3

LEMMA FreshIs ==
  ASSUME NEW e \in Emus
  PROVE  /\ Fresh(e) = [c \in Cells |-> Fresh(e)[c]]
         /\ Fresh(e)["code"] = Word
  BY DEF Fresh, Cells

LEMMA RollsBack ==
  ASSUME BatteryTypes, NEW e \in Emus, NEW s \in Prefixes(does[e].stores), LastRan(e, s)
  PROVE  RolledBack(mem[e], log[e]) = Fresh(e)
<1>1. does[e] \in Behaviour(battery.cells)
  BY DEF BatteryTypes
<1>2. DOMAIN s = 1 .. Len(s) /\ Len(s) \in Nat
  BY <1>1, BehaviourIs, PrefixIs
<1>3. RolledBack(After(Fresh(e), s), Logged(Fresh(e), s)) = Fresh(e)
  BY <1>2, FreshIs, RollbackRestores
<1> QED
  BY <1>3 DEF LastRan

\* Of the two emulators, just one of which needs a second run.
LEMMA OneTimedOut ==
  ASSUME Cardinality(TimedOut) = 1
  PROVE  \E e \in Emus : /\ TimedOut = {e} /\ (CHOOSE x \in TimedOut : TRUE) = e
                         /\ status[e] = "max steps"
                         /\ \A d \in Emus \ {e} : status[d] # "max steps"
<1>1. IsFiniteSet({}) /\ IsFiniteSet({} \cup {"target"})
      /\ IsFiniteSet(({} \cup {"target"}) \cup {"candidate"})
  BY FS_EmptySet, FS_AddElement
<1>2. IsFiniteSet(Emus)
  <2>1. Emus = ({} \cup {"target"}) \cup {"candidate"}
    BY DEF Emus
  <2> QED
    BY <1>1, <2>1
<1>3. TimedOut \in SUBSET Emus
  BY DEF TimedOut
<1>4. IsFiniteSet(TimedOut)
  BY <1>2, <1>3, FS_Subset
<1>5. PICK e : TimedOut = {e}
  BY <1>4, FS_Singleton
<1> QED
  BY <1>5 DEF TimedOut

LEMMA NoneOrBoth ==
  ASSUME Cardinality(TimedOut) # 1
  PROVE  (\A e \in Emus : status[e] = "max steps") \/ (\A e \in Emus : status[e] # "max steps")
<1>1. SUFFICES ASSUME NEW e \in Emus, NEW d \in Emus, status[e] = "max steps",
                      status[d] # "max steps"
               PROVE  FALSE
  OBVIOUS
<1>2. TimedOut = {e}
  BY <1>1 DEF TimedOut, Emus
<1> QED
  BY <1>2, FS_Singleton

-----------------------------------------------------------------------------
(***************************************************************************)
(* A run from the vector's memory, with an empty log and its arguments:    *)
(* what the next step finds of the emulators that ran, and of the others.  *)
(***************************************************************************)
Leaves(e, s) ==
  /\ mem'[e] = After(Fresh(e), s) /\ log'[e] = Logged(Fresh(e), s)

\* The registers of the vector: its second run finds temporaries of the first.
Set(r, run) == [ra |-> r.ra, temps |-> IF run = 1 THEN "zero" ELSE "used", args |-> vector]

\* What a run leaves.
RunLeaves(e, run) ==
  /\ \E s \in Prefixes(does[e].stores) : Leaves(e, s)
  /\ entry'[e].regs.ra = "sentinel" =>
       IF RunsOut(does[e], run) THEN status'[e] = "max steps"
       ELSE Leaves(e, does[e].stores) /\ status'[e] = does[e].ends
  /\ regs'[e] = [ra |-> IF does[e].calls THEN "inside" ELSE entry'[e].regs.ra,
                 temps |-> "used", args |-> vector]
  /\ entry'[e].mem = Fresh(e) /\ entry'[e].log = << >> /\ entry'[e].run = run
  /\ entry'[e].regs = Set(entry'[e].regs, run)

\* An emulator e has run from registers r, to the outcome o.
Runs(e, r, o, run) ==
  /\ o \in Outcomes(e, [r EXCEPT !.ra = RanFrom(@)], run)
  /\ entry'[e] = [mem |-> Fresh(e), regs |-> [r EXCEPT !.ra = RanFrom(@)],
                  log |-> << >>, run |-> run]
  /\ mem'[e] = After(Fresh(e), o[1])
  /\ log'[e] = << >> \o Logged(Fresh(e), o[1])
  /\ regs'[e] = [args |-> vector, temps |-> "used",
                 ra |-> IF does[e].calls THEN "inside" ELSE RanFrom(r.ra)]
  /\ status'[e] = o[2]

LEMMA RunsLeave ==
  ASSUME BatteryTypes, NEW e \in Emus, NEW run \in {1, 2}, NEW ra, NEW r, NEW o,
         r = Set([ra |-> ra], run), Runs(e, r, o, run)
  PROVE  RunLeaves(e, run) /\ entry'[e].regs.ra = RanFrom(ra)
<1>1. r.ra = ra /\ [r EXCEPT !.ra = RanFrom(@)] = Set([ra |-> RanFrom(ra)], run)
  BY DEF Set
<1>2. entry'[e] = [mem |-> Fresh(e), regs |-> Set([ra |-> RanFrom(ra)], run),
                   log |-> << >>, run |-> run]
  BY <1>1 DEF Runs
<1>3. /\ entry'[e].mem = Fresh(e) /\ entry'[e].log = << >> /\ entry'[e].run = run
      /\ entry'[e].regs = Set([ra |-> RanFrom(ra)], run)
  BY <1>2
<1>4. entry'[e].regs.ra = RanFrom(ra) /\ entry'[e].regs = Set(entry'[e].regs, run)
  BY <1>3 DEF Set
<1>5. regs'[e] = [ra |-> IF does[e].calls THEN "inside" ELSE entry'[e].regs.ra,
                  temps |-> "used", args |-> vector]
  BY <1>1, <1>4 DEF Runs
<1>6. does[e] \in Behaviour(battery.cells)
  BY DEF BatteryTypes
<1>7. does[e].stores \in Seq(Store(battery.cells))
      /\ does[e].stores \in Prefixes(does[e].stores)
  BY <1>6, BehaviourIs
<1> DEFINE s == o[1]
<1>8. /\ s \in Prefixes(does[e].stores)
      /\ RanFrom(ra) = "sentinel" =>
           IF RunsOut(does[e], run) THEN o[2] = "max steps"
           ELSE s = does[e].stores /\ o[2] = does[e].ends
  <2>1. o \in Outcomes(e, Set([ra |-> RanFrom(ra)], run), run)
        /\ Set([ra |-> RanFrom(ra)], run).ra = RanFrom(ra)
    BY <1>1 DEF Runs, Set
  <2>2. CASE RunsOut(does[e], run)
    <3>1. o \in Prefixes(does[e].stores) \X {"max steps"}
      BY <2>1, <2>2 DEF Outcomes, Prefixes
    <3> QED
      BY <2>2, <3>1
  <2>3. CASE ~RunsOut(does[e], run) /\ RanFrom(ra) # "sentinel"
    <3>1. o \in {does[e].stores} \X (Ends \union {"max steps"})
      BY <2>1, <2>3 DEF Outcomes
    <3> QED
      BY <1>7, <2>3, <3>1
  <2>4. CASE ~RunsOut(does[e], run) /\ RanFrom(ra) = "sentinel"
    <3>1. o \in {does[e].stores} \X {does[e].ends}
      BY <2>1, <2>4 DEF Outcomes
    <3> QED
      BY <1>7, <2>4, <3>1
  <2> QED
    BY <2>2, <2>3, <2>4
<1>9. << >> \o Logged(Fresh(e), s) = Logged(Fresh(e), s)
  <2> DEFINE l == Logged(Fresh(e), s)
  <2>1. s \in Seq(Store(battery.cells))
    BY <1>7, <1>8, PrefixIs
  <2>2. l = [i \in DOMAIN s |-> l[i]] /\ DOMAIN s = 1 .. Len(s) /\ Len(s) \in Nat
    BY <2>1 DEF Logged
  <2> HIDE DEF l
  <2>3. l \in [1 .. Len(s) -> {l[i] : i \in DOMAIN s}]
    BY <2>2
  <2>4. l \in Seq({l[i] : i \in DOMAIN s})
    BY <2>2, <2>3
  <2>5. << >> \o l = l
    BY <2>4, ConcatEmptySeq
  <2> QED
    BY <2>5 DEF l
<1>10. Leaves(e, s) /\ status'[e] = o[2]
  BY <1>9 DEF Leaves, Runs
<1> HIDE DEF s
<1> QED
  BY <1>3, <1>4, <1>5, <1>8, <1>10 DEF RunLeaves

LEMMA SameVector ==
  ASSUME UNCHANGED <<vector, pointer, does>>, NEW e \in Emus
  PROVE  /\ Fresh(e)' = Fresh(e)
         /\ \A s : Leaves(e, s) => LastRan(e, s)'
         /\ Leaves(e, does[e].stores) /\ status'[e] = does[e].ends => Whole(e)'
<1>1. Fresh(e)' = Fresh(e)
  BY DEF Fresh
<1>2. ASSUME NEW s, Leaves(e, s) PROVE LastRan(e, s)'
  BY <1>1, <1>2 DEF Leaves, LastRan
<1>3. ASSUME Leaves(e, does[e].stores), status'[e] = does[e].ends PROVE Whole(e)'
  BY <1>1, <1>3 DEF Leaves, Whole
<1> QED
  BY <1>1, <1>2, <1>3

LEMMA RunKeeps == BatteryInv /\ Run => BatteryInv'
<1> SUFFICES ASSUME BatteryInv, Run PROVE BatteryInv'
  OBVIOUS
<1>1. /\ step = "run" /\ step' = "retry" /\ RunFunction(Emus, mem, regs, log, 1)
      /\ UNCHANGED <<battery, vector, pointer, does, verdict>>
  BY DEF Run
<1>2. \A e \in Emus : regs[e] = [ResetRegs EXCEPT !.args = vector] /\ log[e] = << >>
  BY <1>1 DEF BatteryInv, RegistersInv, MemoryInv, Ran, Both
<1>3. \A e \in Emus : mem[e] = Fresh(e)
  BY <1>1 DEF BatteryInv, MemoryInv
<1>4. BatteryTypes
  BY DEF BatteryInv
<1> DEFINE start == [e \in Emus |-> [regs[e] EXCEPT !.ra = RanFrom(@)]]
<1>5. PICK ends \in [Emus -> UNION {Outcomes(e, start[e], 1) : e \in Emus}] :
        /\ \A e \in Emus : ends[e] \in Outcomes(e, start[e], 1)
        /\ entry' = [e \in Emus |->
                      IF e \in Emus THEN [mem |-> mem[e], regs |-> start[e],
                                          log |-> log[e], run |-> 1]
                      ELSE entry[e]]
        /\ mem' = [e \in Emus |-> IF e \in Emus THEN After(mem[e], ends[e][1]) ELSE mem[e]]
        /\ log' = [e \in Emus |-> IF e \in Emus
                                  THEN log[e] \o Logged(mem[e], ends[e][1]) ELSE log[e]]
        /\ regs' = [e \in Emus |->
                     IF e \notin Emus THEN regs[e]
                     ELSE [args |-> vector, temps |-> "used",
                           ra |-> IF does[e].calls THEN "inside" ELSE start[e].ra]]
        /\ status' = [e \in Emus |-> IF e \in Emus THEN ends[e][2] ELSE status[e]]
  BY <1>1 DEF RunFunction
<1>6. /\ DOMAIN mem' = Emus /\ DOMAIN log' = Emus /\ DOMAIN regs' = Emus
      /\ DOMAIN entry' = Emus /\ DOMAIN status' = Emus
  BY <1>5
<1>7. ASSUME NEW e \in Emus
      PROVE  RunLeaves(e, 1) /\ entry'[e].regs.ra = "sentinel"
  <2> DEFINE r == Set([ra |-> "zero"], 1)
  <2>1. regs[e] = r
    BY <1>2 DEF ResetRegs, Set
  <2>2. RanFrom("zero") = "sentinel" /\ r.ra = "zero" /\ 1 \in {1, 2}
    BY DEF RanFrom, Set
  <2>3. start[e] = [r EXCEPT !.ra = RanFrom(@)]
    BY <2>1
  <2>4. start[e].ra = RanFrom(r.ra)
    BY <2>3 DEF Set
  <2>5. mem[e] = Fresh(e) /\ log[e] = << >>
    BY <1>2, <1>3
  <2>6. Runs(e, r, ends[e], 1)
    <3> HIDE DEF start, r
    <3>1. ends[e] \in Outcomes(e, [r EXCEPT !.ra = RanFrom(@)], 1)
      BY <1>5, <2>3
    <3>2. entry'[e] = [mem |-> Fresh(e), regs |-> [r EXCEPT !.ra = RanFrom(@)],
                       log |-> << >>, run |-> 1]
      BY <1>5, <2>3, <2>5
    <3>3. mem'[e] = After(Fresh(e), ends[e][1])
      BY <1>5, <2>5
    <3>4. log'[e] = << >> \o Logged(Fresh(e), ends[e][1])
      BY <1>5, <2>5
    <3>5. regs'[e] = [args |-> vector, temps |-> "used",
                      ra |-> IF does[e].calls THEN "inside" ELSE RanFrom(r.ra)]
      BY <1>5, <2>4
    <3>6. status'[e] = ends[e][2]
      BY <1>5
    <3> QED
      BY <3>1, <3>2, <3>3, <3>4, <3>5, <3>6 DEF Runs
  <2> HIDE DEF start
  <2>7. RunLeaves(e, 1) /\ entry'[e].regs.ra = RanFrom("zero")
    BY <1>4, <2>2, <2>6, RunsLeave
  <2> QED
    BY <2>2, <2>7
<1> HIDE DEF start
<1>8. BatteryTypes'
  BY <1>1, <1>4, <1>6 DEF BatteryTypes, Ran
<1>9. MemoryInv'
  <2>1. \A e \in Emus : \E s \in Prefixes(does'[e].stores) : LastRan(e, s)'
    BY <1>1, <1>7, SameVector DEF RunLeaves
  <2> QED
    BY <1>1, <1>6, <2>1 DEF MemoryInv, Ran
<1>10. RegistersInv'
  BY <1>1, <1>6, <1>7 DEF RegistersInv, Ran, RunLeaves
<1>11. EntryInv'
  <2>1. \A e \in Emus : Fresh(e)' = Fresh(e)
    BY <1>1, SameVector
  <2>2. \A e \in Emus : /\ entry'[e].mem = Fresh(e) /\ entry'[e].log = << >>
                        /\ entry'[e].run = 1
                        /\ entry'[e].regs = [ra |-> "sentinel", temps |-> "zero", args |-> vector]
    BY <1>7 DEF RunLeaves, Set
  <2> QED
    BY <1>1, <1>6, <2>1, <2>2 DEF EntryInv, Ran
<1>12. EndInv'
  <2>1. ASSUME NEW e \in Emus
        PROVE  IF does[e].pace = "fast" THEN Whole(e)' ELSE status'[e] = "max steps"
    <3>1. IF RunsOut(does[e], 1) THEN status'[e] = "max steps"
          ELSE Leaves(e, does[e].stores) /\ status'[e] = does[e].ends
      BY <1>7 DEF RunLeaves
    <3>2. does[e].pace \in Paces
      BY <1>4, BehaviourIs DEF BatteryTypes
    <3>3. RunsOut(does[e], 1) <=> does[e].pace # "fast"
      BY <3>2 DEF RunsOut, Paces
    <3> QED
      BY <1>1, <3>1, <3>3, SameVector
  <2> QED
    BY <1>1, <2>1 DEF EndInv
<1> QED
  BY <1>8, <1>9, <1>10, <1>11, <1>12 DEF BatteryInv

LEMMA SetUpAgain ==
  ASSUME NEW e \in Emus
  PROVE  SetupMem(ClearPayload(Fresh(e)), pointer) = Fresh(e)
  BY DEF SetupMem, ClearPayload, Fresh, Cells

LEMMA RetryKeeps == BatteryInv /\ Retry => BatteryInv'
<1> SUFFICES ASSUME BatteryInv, Retry PROVE BatteryInv'
  OBVIOUS
<1>1. /\ step = "retry" /\ step' = "compare"
      /\ UNCHANGED <<battery, vector, pointer, does, verdict>>
  BY DEF Retry
<1>2. BatteryTypes
  BY DEF BatteryInv
<1>3. \A e \in Emus : /\ \E s \in Prefixes(does[e].stores) : LastRan(e, s)
                      /\ regs[e] = [ra |-> IF does[e].calls THEN "inside" ELSE "sentinel",
                                    temps |-> "used", args |-> vector]
                      /\ IF does[e].pace = "fast" THEN Whole(e)
                         ELSE status[e] = "max steps"
  BY <1>1 DEF BatteryInv, MemoryInv, RegistersInv, EndInv, Ran
<1>4. /\ DOMAIN mem = Emus /\ DOMAIN log = Emus /\ DOMAIN regs = Emus
      /\ DOMAIN entry = Emus /\ DOMAIN status = Emus
  BY DEF BatteryInv, BatteryTypes, MemoryInv, RegistersInv, EntryInv
<1>5. \A e \in Emus : /\ entry[e].mem = Fresh(e) /\ entry[e].log = << >>
                      /\ entry[e].regs.args = vector /\ entry[e].run \in {1, 2}
                      /\ entry[e].run = 1 => /\ entry[e].regs.ra = "sentinel"
                                             /\ entry[e].regs.temps = "zero"
  BY <1>1 DEF BatteryInv, EntryInv, Ran
<1> DEFINE Same(d) == /\ mem'[d] = mem[d] /\ log'[d] = log[d] /\ regs'[d] = regs[d]
                      /\ entry'[d] = entry[d] /\ status'[d] = status[d]
           Domains == /\ DOMAIN mem' = Emus /\ DOMAIN log' = Emus /\ DOMAIN regs' = Emus
                      /\ DOMAIN entry' = Emus /\ DOMAIN status' = Emus
           Again(d) == RunLeaves(d, 2) /\ entry'[d].regs.ra
                         = IF does[d].calls THEN "inside" ELSE "sentinel"
           EndsAlike == ~Calls /\ ~TooSlow => \/ \A d \in Emus : status'[d] = "max steps"
                                         \/ \A d \in Emus : Whole(d)'
           Goal == Domains /\ EndsAlike /\ \A d \in Emus : Same(d) \/ Again(d)
<1>6. \A d \in Emus : Same(d) /\ Whole(d) => Whole(d)'
  <2> TAKE d \in Emus
  <2>1. Fresh(d)' = Fresh(d)
    BY <1>1, SameVector
  <2> QED
    BY <1>1, <2>1 DEF Whole
<1>7. ASSUME Cardinality(TimedOut) = 1 PROVE Goal
  <2>1. PICK e \in Emus : /\ (CHOOSE x \in TimedOut : TRUE) = e
                          /\ status[e] = "max steps"
                          /\ \A d \in Emus \ {e} : status[d] # "max steps"
    BY <1>7, OneTimedOut
  <2> DEFINE cleared == ClearPayload(RolledBack(mem[e], log[e]))
             m == [mem EXCEPT ![e] = SetupMem(cleared, pointer)]
             r == [regs EXCEPT ![e] = SetupRegs(@)]
             l == [log EXCEPT ![e] = << >>]
             start == [d \in {e} |-> [r[d] EXCEPT !.ra = RanFrom(@)]]
             q == IF does[e].calls THEN "inside" ELSE "sentinel"
             given == Set([ra |-> q], 2)
  <2>2. m[e] = Fresh(e) /\ l[e] = << >>
    <3>1. RolledBack(mem[e], log[e]) = Fresh(e)
      BY <1>2, <1>3, RollsBack
    <3>2. m[e] = SetupMem(ClearPayload(Fresh(e)), pointer)
      BY <1>4, <3>1
    <3>3. l[e] = << >>
      BY <1>4
    <3> QED
      BY <3>2, <3>3, SetUpAgain
  <2>3. r[e] = given /\ q # "zero"
    <3>1. r[e] = SetupRegs(regs[e])
      BY <1>4
    <3>2. regs[e] = [ra |-> q, temps |-> "used", args |-> vector]
      BY <1>3
    <3>3. SetupRegs(regs[e]) = given
      <4> HIDE DEF q
      <4> QED
        BY <3>2 DEF SetupRegs, Set
    <3> QED
      BY <3>1, <3>3
  <2>4. \A d \in Emus \ {e} : m[d] = mem[d] /\ l[d] = log[d] /\ r[d] = regs[d]
    BY <1>4
  <2>5. start[e] = [given EXCEPT !.ra = RanFrom(@)] /\ start[e].ra = RanFrom(given.ra)
    <3> HIDE DEF r
    <3> QED
      BY <2>3 DEF Set
  <2>6. RunFunction({e}, m, r, l, 2)
    BY <1>1, <1>7, <2>1 DEF Retry
  <2> HIDE DEF m, r, l, given
  <2>7. PICK ends \in [{e} -> UNION {Outcomes(d, start[d], 2) : d \in {e}}] :
          /\ \A d \in {e} : ends[d] \in Outcomes(d, start[d], 2)
          /\ entry' = [d \in Emus |->
                        IF d \in {e} THEN [mem |-> m[d], regs |-> start[d],
                                          log |-> l[d], run |-> 2]
                        ELSE entry[d]]
          /\ mem' = [d \in Emus |-> IF d \in {e} THEN After(m[d], ends[d][1]) ELSE m[d]]
          /\ log' = [d \in Emus |-> IF d \in {e}
                                    THEN l[d] \o Logged(m[d], ends[d][1]) ELSE l[d]]
          /\ regs' = [d \in Emus |->
                       IF d \notin {e} THEN r[d]
                       ELSE [args |-> vector, temps |-> "used",
                             ra |-> IF does[d].calls THEN "inside" ELSE start[d].ra]]
          /\ status' = [d \in Emus |-> IF d \in {e} THEN ends[d][2] ELSE status[d]]
    BY <2>6 DEF RunFunction
  <2> HIDE DEF start
  <2>8. Runs(e, given, ends[e], 2)
    <3>1. ends[e] \in Outcomes(e, [given EXCEPT !.ra = RanFrom(@)], 2)
      BY <2>5, <2>7
    <3>2. entry'[e] = [mem |-> Fresh(e), regs |-> [given EXCEPT !.ra = RanFrom(@)],
                       log |-> << >>, run |-> 2]
      BY <2>2, <2>5, <2>7
    <3>3. mem'[e] = After(Fresh(e), ends[e][1])
      BY <2>2, <2>7
    <3>4. log'[e] = << >> \o Logged(Fresh(e), ends[e][1])
      BY <2>2, <2>7
    <3>5. regs'[e] = [args |-> vector, temps |-> "used",
                      ra |-> IF does[e].calls THEN "inside" ELSE RanFrom(given.ra)]
      BY <2>5, <2>7
    <3>6. status'[e] = ends[e][2]
      BY <2>7
    <3> QED
      BY <3>1, <3>2, <3>3, <3>4, <3>5, <3>6 DEF Runs
  <2>9. RunLeaves(e, 2) /\ entry'[e].regs.ra = RanFrom(q)
    <3>1. 2 \in {1, 2} /\ given = Set([ra |-> q], 2)
      BY DEF given
    <3> HIDE DEF q
    <3> QED
      BY <1>2, <2>8, <3>1, RunsLeave
  <2>10. entry'[e].regs.ra = q
    BY <2>3, <2>9 DEF RanFrom
  <2>11. \A d \in Emus \ {e} : Same(d)
    BY <2>4, <2>7
  <2>12. Domains
    BY <2>7
  <2>13. /\ \A d \in Emus \ {e} : Whole(d) /\ does[d].pace = "fast"
         /\ ~Calls => ~does[e].calls
         /\ does[e].pace \in {"slow", "endless"}
    <3>1. \A d \in Emus : does[d] \in Behaviour(battery.cells)
      BY <1>2 DEF BatteryTypes
    <3>2. \A d \in Emus : does[d].pace \in Paces /\ does[d].ends \in Ends
                         /\ (~Calls => ~does[d].calls)
      BY <3>1, BehaviourIs
    <3>3. does[e].pace # "fast"
      BY <1>3, <2>1, <3>2 DEF Whole, Ends
    <3> QED
      BY <1>3, <2>1, <3>2, <3>3 DEF Paces
  <2>14. EndsAlike
    <3> SUFFICES ASSUME ~Calls, ~TooSlow PROVE \A d \in Emus : Whole(d)'
      OBVIOUS
    <3>1. Whole(e)'
      <4>1. does[e].pace # "endless"
        BY <2>13 DEF TooSlow, Emus
      <4>2. ~RunsOut(does[e], 2)
        BY <4>1 DEF RunsOut
      <4>3. Leaves(e, does[e].stores) /\ status'[e] = does[e].ends
        BY <2>9, <2>10, <2>13, <4>2 DEF RunLeaves
      <4> QED
        BY <1>1, <4>3, SameVector
    <3> QED
      BY <1>6, <2>11, <2>13, <3>1
  <2> QED
    BY <2>9, <2>10, <2>11, <2>12, <2>14
<1>8. ASSUME Cardinality(TimedOut) # 1 PROVE Goal
  <2>1. UNCHANGED <<mem, regs, log, entry, status>>
    BY <1>8 DEF Retry
  <2>2. Domains /\ \A d \in Emus : Same(d)
    BY <1>4, <2>1
  <2>3. EndsAlike
    BY <1>3, <1>6, <1>8, <2>2, NoneOrBoth
  <2> QED
    BY <2>2, <2>3
<1>9. Goal
  BY <1>7, <1>8
<1>10. \A d \in Emus : Fresh(d)' = Fresh(d)
  BY <1>1, SameVector
<1>11. BatteryTypes'
  BY <1>1, <1>2, <1>9 DEF BatteryTypes, Ran
<1>12. MemoryInv'
  <2>1. ASSUME NEW d \in Emus
        PROVE  \E s \in Prefixes(does'[d].stores) : LastRan(d, s)'
    <3>1. CASE Same(d)
      BY <1>1, <1>3, <1>10, <3>1 DEF LastRan
    <3>2. CASE Again(d)
      BY <1>1, <3>2, SameVector DEF RunLeaves
    <3> QED
      BY <1>9, <3>1, <3>2
  <2> QED
    BY <1>1, <1>9, <2>1 DEF MemoryInv, Ran
<1>13. RegistersInv'
  <2>1. \A d \in Emus : regs'[d] = [ra |-> IF does[d].calls THEN "inside" ELSE "sentinel",
                                    temps |-> "used", args |-> vector]
    BY <1>3, <1>9 DEF RunLeaves
  <2> QED
    BY <1>1, <1>9, <2>1 DEF RegistersInv, Ran
<1>14. EntryInv'
  <2>1. ASSUME NEW d \in Emus
        PROVE  /\ entry'[d].mem = Fresh(d) /\ entry'[d].log = << >>
               /\ entry'[d].regs.args = vector /\ entry'[d].run \in {1, 2}
               /\ entry'[d].run = 1 => /\ entry'[d].regs.ra = "sentinel"
                                       /\ entry'[d].regs.temps = "zero"
    <3>1. CASE Same(d)
      BY <1>5, <3>1
    <3>2. CASE Again(d)
      <4>1. /\ entry'[d].mem = Fresh(d) /\ entry'[d].log = << >> /\ entry'[d].run = 2
            /\ entry'[d].regs = Set(entry'[d].regs, 2)
        BY <3>2 DEF RunLeaves
      <4>2. entry'[d].regs.args = vector
        BY <4>1 DEF Set
      <4> QED
        BY <4>1, <4>2
    <3> QED
      BY <1>9, <3>1, <3>2
  <2> QED
    BY <1>1, <1>9, <1>10, <2>1 DEF EntryInv, Ran
<1>15. EndInv'
  BY <1>1, <1>9 DEF EndInv, TooSlow
<1> QED
  BY <1>11, <1>12, <1>13, <1>14, <1>15 DEF BatteryInv

LEMMA BeginKeeps == BatteryInv /\ (Begin \/ BeginFails) => BatteryInv'
<1> SUFFICES ASSUME BatteryInv, Begin \/ BeginFails PROVE BatteryInv'
  OBVIOUS
<1>1. /\ mem = Both(Blank) /\ entry = Both(NoRun) /\ step = "idle" /\ BatteryTypes
      /\ battery.vectors \in Nat \ {0}
  BY BatteryConstants DEF BatteryInv, MemoryInv, EntryInv, BatteryTypes, Ran, Begin, BeginFails
<1>2. CASE Begin
  <2>1. /\ step' = "setup" /\ regs' = Both(ResetRegs) /\ log' = Both(<< >>)
        /\ vector' = 1 /\ verdict' = "none"
        /\ UNCHANGED <<battery, pointer, does, entry, status>>
    BY <1>2 DEF Begin
  <2>2. DOMAIN mem' = Emus /\ \A e \in Emus : mem'[e] = Kept(e, mem'[e]["stack"])
    BY <1>1, <1>2 DEF Begin, Both, Blank, Kept, Cells
  <2>3. MemoryInv'
    BY <2>1, <2>2 DEF MemoryInv, Ran, Both
  <2>4. BatteryTypes'
    BY <1>1, <2>1 DEF BatteryTypes
  <2>5. RegistersInv' /\ EntryInv' /\ EndInv'
    BY <1>1, <2>1 DEF RegistersInv, EntryInv, EndInv, Ran, Both
  <2> QED
    BY <2>3, <2>4, <2>5 DEF BatteryInv
<1>3. CASE BeginFails
  <2>1. /\ step' = "idle" /\ regs' = Both(ResetRegs) /\ log' = Both(<< >>)
        /\ verdict' = "error"
        /\ UNCHANGED <<battery, vector, pointer, does, entry, status>>
    BY <1>1, <1>3 DEF BeginFails
  <2>2. mem' = Both(Blank)
    BY <1>1, <1>3 DEF BeginFails, Both, Blank, Cells, Emus
  <2>3. BatteryTypes' /\ MemoryInv' /\ RegistersInv' /\ EntryInv' /\ EndInv'
    BY <1>1, <2>1, <2>2
       DEF BatteryTypes, MemoryInv, RegistersInv, EntryInv, EndInv, Ran, Both
  <2> QED
    BY <2>3 DEF BatteryInv
<1> QED
  BY <1>2, <1>3

LEMMA SetupKeeps == BatteryInv /\ Setup => BatteryInv'
<1> SUFFICES ASSUME BatteryInv, Setup PROVE BatteryInv'
  OBVIOUS
<1>1. /\ step = "setup" /\ step' = "run" /\ pointer' \in BOOLEAN
      /\ mem' = [e \in Emus |-> SetupMem(mem[e], pointer')]
      /\ regs' = [e \in Emus |-> SetupRegs(regs[e])]
      /\ UNCHANGED <<battery, vector, log, entry, status, verdict>>
  BY DEF Setup
<1>2. PICK b \in Behaviour(battery.cells), d \in Behaviour(battery.cells) :
        does' = [e \in Emus |-> IF e = "target" THEN b ELSE d]
  BY DEF Setup
<1>3. BatteryTypes'
  <2>1. BatteryTypes
    BY DEF BatteryInv
  <2>2. does' \in [Emus -> Behaviour(battery.cells)]
    BY <1>2
  <2> QED
    BY <1>1, <2>1, <2>2 DEF BatteryTypes
<1>4. MemoryInv'
  <2>1. \A e \in Emus : mem[e] = Kept(e, mem[e]["stack"])
    BY <1>1 DEF BatteryInv, MemoryInv
  <2>2. ASSUME NEW e \in Emus PROVE mem'[e] = Fresh(e)'
    <3>1. mem'[e] = SetupMem(mem[e], pointer')
      BY <1>1
    <3>2. PICK a : mem[e] = Kept(e, a)
      BY <2>1
    <3>3. SetupMem(mem[e], pointer')
            = [c \in Cells |-> IF c = "stack" THEN Args(vector)
                               ELSE IF c = "buffer"
                                    THEN IF pointer' THEN Payload(vector) ELSE Zero
                               ELSE Kept(e, a)[c]]
      BY <3>2 DEF SetupMem, Kept, Cells
    <3> QED
      BY <1>1, <3>1, <3>3 DEF Fresh, Kept, Cells
  <2>3. log = Both(<< >>)
    BY <1>1 DEF BatteryInv, MemoryInv, Ran
  <2> QED
    BY <1>1, <2>2, <2>3 DEF MemoryInv, Ran, Both
<1>5. RegistersInv'
  <2>1. regs = Both(ResetRegs)
    BY <1>1 DEF BatteryInv, RegistersInv
  <2>2. regs' = Both([ResetRegs EXCEPT !.args = vector])
    BY <1>1, <2>1 DEF SetupRegs, Both
  <2> QED
    BY <1>1, <2>2 DEF RegistersInv, Ran, Both
<1>6. EntryInv' /\ EndInv'
  BY <1>1 DEF BatteryInv, EntryInv, EndInv, Ran, Both
<1> QED
  BY <1>3, <1>4, <1>5, <1>6 DEF BatteryInv

LEMMA CompareKeeps == BatteryInv /\ Compare => BatteryInv'
<1> SUFFICES ASSUME BatteryInv, Compare PROVE BatteryInv'
  OBVIOUS
<1>1. /\ step = "compare" /\ step' = "rollback" /\ verdict' = Compared
      /\ UNCHANGED <<battery, vector, pointer, does, mem, regs, log, entry, status>>
  BY DEF Compare
<1>2. ASSUME NEW e \in Emus
      PROVE  /\ Fresh(e)' = Fresh(e)
             /\ Whole(e)' <=> Whole(e)
             /\ \A s : LastRan(e, s)' <=> LastRan(e, s)
  BY <1>1 DEF Fresh, Whole, LastRan
<1>3. Compared' = Compared
  BY <1>1 DEF Compared, StatusDiffers, BothFaulted, Value, Stores
<1>4. BatteryTypes'
  BY <1>1 DEF BatteryInv, BatteryTypes, Compared, Ran
<1>5. MemoryInv'
  BY <1>1, <1>2 DEF BatteryInv, MemoryInv, Ran
<1>6. RegistersInv' /\ EntryInv'
  BY <1>1, <1>2 DEF BatteryInv, RegistersInv, EntryInv, Ran
<1>7. EndInv'
  BY <1>1, <1>2, <1>3 DEF BatteryInv, EndInv, TooSlow
<1> QED
  BY <1>4, <1>5, <1>6, <1>7 DEF BatteryInv

LEMMA RollbackKeeps == BatteryInv /\ Rollback => BatteryInv'
<1> SUFFICES ASSUME BatteryInv, Rollback PROVE BatteryInv'
  OBVIOUS
<1>1. /\ step = "rollback" /\ step' = "clear"
      /\ mem' = [e \in Emus |-> RolledBack(mem[e], log[e])] /\ log' = Both(<< >>)
      /\ UNCHANGED <<battery, vector, pointer, does, regs, entry, status, verdict>>
  BY DEF Rollback
<1>2. \A e \in Emus : Fresh(e)' = Fresh(e)
  BY <1>1 DEF Fresh
<1>3. \A e \in Emus : mem'[e] = Fresh(e)
  <2>1. BatteryTypes /\ \A e \in Emus : \E s \in Prefixes(does[e].stores) : LastRan(e, s)
    BY <1>1 DEF BatteryInv, MemoryInv, Ran
  <2> QED
    BY <1>1, <2>1, RollsBack
<1>4. BatteryTypes'
  BY <1>1 DEF BatteryInv, BatteryTypes
<1>5. MemoryInv'
  BY <1>1, <1>2, <1>3 DEF MemoryInv, Ran, Both
<1>6. RegistersInv' /\ EntryInv'
  BY <1>1, <1>2 DEF BatteryInv, RegistersInv, EntryInv, Ran
<1>7. EndInv'
  BY <1>1 DEF EndInv
<1> QED
  BY <1>4, <1>5, <1>6, <1>7 DEF BatteryInv

LEMMA ClearKeeps == BatteryInv /\ Clear => BatteryInv'
<1> SUFFICES ASSUME BatteryInv, Clear PROVE BatteryInv'
  OBVIOUS
<1>1. /\ step = "clear" /\ mem' = [e \in Emus |-> ClearPayload(mem[e])]
      /\ regs' = Both(ResetRegs) /\ does' = Both(Idle) /\ pointer' = FALSE
      /\ entry' = Both(NoRun) /\ status' = Both("none")
      /\ \/ vector < battery.vectors /\ step' = "setup" /\ vector' = vector + 1
         \/ step' = "end" /\ vector' = vector
      /\ UNCHANGED <<battery, log, verdict>>
  BY DEF Clear, ClearAnd
<1>2. BatteryTypes
  BY DEF BatteryInv
<1>3. Idle \in Behaviour(battery.cells)
  <2>1. << >> \in [1 .. 0 -> Store(battery.cells)] /\ 0 \in 0 .. MaxStores
    BY BatteryConstants
  <2> QED
    BY <2>1 DEF Idle, Behaviour, Ends, Paces
<1>4. BatteryTypes'
  <2>1. battery.vectors \in Nat
    BY <1>2, BatteryConstants DEF BatteryTypes
  <2>2. vector' \in 0 .. battery.vectors
    BY <1>1, <1>2, <2>1 DEF BatteryTypes
  <2> QED
    BY <1>1, <1>2, <1>3, <2>2 DEF BatteryTypes, Both
<1>5. MemoryInv'
  <2>1. log = Both(<< >>) /\ \A e \in Emus : mem[e] = Fresh(e)
    BY <1>1 DEF BatteryInv, MemoryInv, Ran
  <2>2. ASSUME NEW e \in Emus PROVE mem'[e] = Kept(e, mem'[e]["stack"])
    <3>1. mem'[e] = ClearPayload(Fresh(e))
      BY <1>1, <2>1
    <3>2. ClearPayload(Fresh(e)) = Kept(e, Args(vector))
      BY DEF ClearPayload, Fresh, Kept, Cells
    <3>3. Kept(e, Args(vector))["stack"] = Args(vector)
      BY DEF Kept, Cells
    <3> QED
      BY <3>1, <3>2, <3>3
  <2> QED
    BY <1>1, <2>1, <2>2 DEF MemoryInv, Ran, Both
<1>6. RegistersInv' /\ EntryInv' /\ EndInv'
  BY <1>1 DEF RegistersInv, EntryInv, EndInv, Ran, Both
<1> QED
  BY <1>4, <1>5, <1>6 DEF BatteryInv

LEMMA FinishKeeps == BatteryInv /\ Finish => BatteryInv'
<1> SUFFICES ASSUME BatteryInv, Finish PROVE BatteryInv'
  OBVIOUS
<1>1. /\ step = "end" /\ step' = "idle"
      /\ mem' = [e \in Emus |->
                  [mem[e] EXCEPT !["code"] = Zero, !["stack"] = Zero,
                                 !["data"] = IF e \in WithData THEN Zero ELSE @]]
      /\ UNCHANGED <<battery, vector, pointer, does, regs, log, entry, status, verdict>>
  BY DEF Finish
<1>2. mem' = Both(Blank)
  <2>1. ASSUME NEW e \in Emus PROVE mem'[e] = Blank
    <3>1. PICK a : mem[e] = Kept(e, a)
      BY <1>1 DEF BatteryInv, MemoryInv
    <3> QED
      BY <1>1, <3>1 DEF Kept, Blank, Cells
  <2> QED
    BY <1>1, <2>1 DEF Both
<1>3. BatteryTypes' /\ RegistersInv' /\ EntryInv' /\ EndInv'
  BY <1>1 DEF BatteryInv, BatteryTypes, RegistersInv, EntryInv, EndInv, Ran
<1>4. MemoryInv'
  <2>1. log = Both(<< >>)
    BY <1>1 DEF BatteryInv, MemoryInv, Ran
  <2> QED
    BY <1>1, <1>2, <2>1 DEF MemoryInv, Ran, Both
<1> QED
  BY <1>3, <1>4 DEF BatteryInv

LEMMA BatteryStarts == BatteryInit => BatteryInv
<1> SUFFICES ASSUME BatteryInit PROVE BatteryInv
  OBVIOUS
<1>1. /\ battery \in Batteries /\ step = "idle" /\ vector = 0 /\ pointer = FALSE
      /\ does = Both(Idle) /\ mem = Both(Blank) /\ regs = Both(ResetRegs)
      /\ log = Both(<< >>) /\ entry = Both(NoRun) /\ status = Both("none")
      /\ verdict = "none"
  BY DEF BatteryInit
<1>2. Idle \in Behaviour(battery.cells)
  <2>1. << >> \in [1 .. 0 -> Store(battery.cells)] /\ 0 \in 0 .. MaxStores
    BY BatteryConstants
  <2> QED
    BY <2>1 DEF Idle, Behaviour, Ends, Paces
<1>3. BatteryTypes
  <2>1. battery.vectors \in Nat
    BY <1>1, BatteryConstants
  <2>2. vector \in 0 .. battery.vectors
    BY <1>1, <2>1
  <2>3. does \in [Emus -> Behaviour(battery.cells)] /\ DOMAIN status = Emus
    BY <1>1, <1>2 DEF Both
  <2> QED
    BY <1>1, <2>2, <2>3 DEF BatteryTypes
<1>4. MemoryInv
  BY <1>1 DEF MemoryInv, Ran, Both
<1>5. RegistersInv /\ EntryInv /\ EndInv
  BY <1>1 DEF RegistersInv, EntryInv, EndInv, Ran, Both
<1> QED
  BY <1>3, <1>4, <1>5 DEF BatteryInv

LEMMA BatteryStands == BatteryInv /\ UNCHANGED batteryVars => BatteryInv'
<1> SUFFICES ASSUME BatteryInv, UNCHANGED batteryVars PROVE BatteryInv'
  OBVIOUS
<1>1. ASSUME NEW e \in Emus
      PROVE  /\ Fresh(e)' = Fresh(e)
             /\ Whole(e)' <=> Whole(e)
             /\ \A s : LastRan(e, s)' <=> LastRan(e, s)
  BY DEF Fresh, Whole, LastRan, batteryVars
<1>2. Compared' = Compared
  BY DEF Compared, StatusDiffers, BothFaulted, Value, Stores, batteryVars
<1>3. BatteryTypes'
  BY DEF BatteryInv, BatteryTypes, batteryVars
<1>4. MemoryInv'
  BY <1>1 DEF BatteryInv, MemoryInv, batteryVars
<1>5. RegistersInv' /\ EntryInv'
  BY <1>1 DEF BatteryInv, RegistersInv, EntryInv, batteryVars
<1>6. EndInv'
  BY <1>1, <1>2 DEF BatteryInv, EndInv, TooSlow, batteryVars
<1> QED
  BY <1>3, <1>4, <1>5, <1>6 DEF BatteryInv

LEMMA BatteryStep == BatteryInv /\ [BatteryNext]_batteryVars => BatteryInv'
  BY BeginKeeps, SetupKeeps, RunKeeps, RetryKeeps, CompareKeeps, RollbackKeeps,
     ClearKeeps, FinishKeeps, BatteryStands DEF BatteryNext

(***************************************************************************)
(* Wherever RunBattery is, the emulators hold the memory of the vector, or *)
(* that memory with one run's stores on top and the log to take them back. *)
(***************************************************************************)
THEOREM BatteryInvariance == BatterySpec => []BatteryInv
  BY BatteryStarts, BatteryStep, PTL DEF BatterySpec

(***************************************************************************)
(* Every run, a second try included, starts from the vector's memory and   *)
(* arguments: RunsStartFresh.                                              *)
(***************************************************************************)
THEOREM EachRunIsFresh == BatterySpec => []RunsStartFresh
<1>1. BatteryInv => RunsStartFresh
  <2> SUFFICES ASSUME BatteryInv PROVE RunsStartFresh
    OBVIOUS
  <2>1. CASE step \in Ran \cup {"clear"}
    BY <2>1 DEF BatteryInv, EntryInv, RunsStartFresh
  <2>2. CASE step \notin Ran \cup {"clear"}
    <3>1. \A e \in Emus : entry[e].run = 0
      BY <2>2 DEF BatteryInv, EntryInv, Both, NoRun
    <3> QED
      BY <3>1 DEF RunsStartFresh
  <2> QED
    BY <2>1, <2>2
<1> QED
  BY <1>1, BatteryInvariance, PTL

(***************************************************************************)
(* What a battery or a failed load leaves is a new emulator:               *)
(* BatteryLeavesNothing.                                                   *)
(***************************************************************************)
THEOREM NothingIsLeft == BatterySpec => []BatteryLeavesNothing
<1>1. BatteryInv => BatteryLeavesNothing
  BY DEF BatteryInv, MemoryInv, RegistersInv, BatteryLeavesNothing, Ran
<1> QED
  BY <1>1, BatteryInvariance, PTL

(***************************************************************************)
(* Types, and no log is longer than the bound: BatteryTypeOK.              *)
(***************************************************************************)
THEOREM BatteryTypeCorrect == BatterySpec => []BatteryTypeOK
<1>1. BatteryInv => BatteryTypeOK
  <2> SUFFICES ASSUME BatteryInv PROVE BatteryTypeOK
    OBVIOUS
  <2>1. ASSUME NEW e \in Emus
        PROVE  /\ does[e] \in Behaviour(battery.cells)
               /\ regs[e].ra \in {"zero", "sentinel", "inside"}
               /\ DOMAIN mem[e] = Cells
               /\ Len(log[e]) <= MaxStores
    <3>1. does[e] \in Behaviour(battery.cells) /\ MaxStores \in Nat
      BY BatteryConstants DEF BatteryInv, BatteryTypes
    <3>2. regs[e].ra \in {"zero", "sentinel", "inside"}
      BY DEF BatteryInv, BatteryTypes, RegistersInv, Both, ResetRegs
    <3>3. CASE step \in Ran
      <4>1. PICK s \in Prefixes(does[e].stores) : LastRan(e, s)
        BY <3>3 DEF BatteryInv, MemoryInv
      <4>2. /\ DOMAIN s = 1 .. Len(s) /\ Len(s) \in Nat /\ Len(s) <= Len(does[e].stores)
            /\ does[e].stores \in Seq(Store(battery.cells))
            /\ Len(does[e].stores) <= MaxStores
        BY <3>1, BehaviourIs, PrefixIs
      <4>3. DOMAIN log[e] = 1 .. Len(s) /\ DOMAIN mem[e] = Cells
        BY <4>1, <4>2 DEF LastRan, Logged, After
      <4>4. Len(log[e]) = Len(s)
        BY <4>2, <4>3
      <4> QED
        BY <3>1, <3>2, <4>2, <4>3, <4>4
    <3>4. CASE step \notin Ran
      <4>1. log[e] = << >>
        BY <3>4 DEF BatteryInv, MemoryInv, Both
      <4>2. DOMAIN mem[e] = Cells
        BY <3>4 DEF BatteryInv, BatteryTypes, MemoryInv, Both, Blank, Fresh, Kept
      <4> QED
        BY <3>1, <3>2, <4>1, <4>2
    <3> QED
      BY <3>3, <3>4
  <2> QED
    BY <2>1 DEF BatteryInv, BatteryTypes, BatteryTypeOK, Ran
<1> QED
  BY <1>1, BatteryInvariance, PTL

-----------------------------------------------------------------------------
(***************************************************************************)
(* The comparison.  Two functions that do the same are told apart by what  *)
(* they can read only when just one of them is given initial memory.       *)
(***************************************************************************)
SameData == WithData = {} \/ WithData = Emus

LEMMA SameFresh == SameData => Fresh("target") = Fresh("candidate")
  BY DEF SameData, Fresh, Emus

LEMMA LoggedIs ==
  ASSUME NEW m, NEW s
  PROVE  /\ DOMAIN Logged(m, s) = DOMAIN s
         /\ \A i \in DOMAIN s : /\ Logged(m, s)[i].cell = s[i].cell
                                /\ Logged(m, s)[i].value = s[i].value
<1>1. DOMAIN Logged(m, s) = DOMAIN s
  BY DEF Logged
<1>2. ASSUME NEW i \in DOMAIN s
      PROVE  Logged(m, s)[i].cell = s[i].cell /\ Logged(m, s)[i].value = s[i].value
  BY DEF Logged
<1> QED
  BY <1>1, <1>2

LEMMA StoresOfWhole ==
  ASSUME NEW e \in Emus, Whole(e)
  PROVE  Stores(e) = [i \in {j \in DOMAIN does[e].stores : does[e].stores[j].cell # "stack"}
                       |-> <<does[e].stores[i].cell, does[e].stores[i].value>>]
<1> DEFINE s == does[e].stores
<1>1. log[e] = Logged(Fresh(e), s)
  BY DEF Whole
<1>2. DOMAIN log[e] = DOMAIN s
      /\ \A i \in DOMAIN s : log[e][i].cell = s[i].cell /\ log[e][i].value = s[i].value
  BY <1>1, LoggedIs
<1> HIDE DEF s
<1>3. {j \in DOMAIN log[e] : log[e][j].cell # "stack"} = {j \in DOMAIN s : s[j].cell # "stack"}
  BY <1>2
<1>4. Stores(e) = [i \in {j \in DOMAIN s : s[j].cell # "stack"}
                    |-> <<log[e][i].cell, log[e][i].value>>]
  BY <1>3 DEF Stores
<1>5. Stores(e) = [i \in {j \in DOMAIN s : s[j].cell # "stack"} |-> <<s[i].cell, s[i].value>>]
  BY <1>2, <1>4
<1> QED
  BY <1>5 DEF s

LEMMA AlikeAreEquivalent ==
  ASSUME BatteryInv, step = "compare", ~Calls, Returns = "void" \/ SameData,
         Alike(does["target"], does["candidate"]), does["target"].ends # "invalid",
         ~TooSlow
  PROVE  Compared = "equivalent"
<1>1. "target" \in Emus /\ "candidate" \in Emus
  BY DEF Emus
<1>2. (\A e \in Emus : status[e] = "max steps") \/ (\A e \in Emus : Whole(e))
  BY DEF BatteryInv, EndInv
<1>3. CASE \A e \in Emus : status[e] = "max steps"
  BY <1>1, <1>3 DEF Compared, StatusDiffers
<1>4. CASE \A e \in Emus : Whole(e)
  <2>1. ~StatusDiffers
    <3>1. /\ status["target"] = does["target"].ends
          /\ status["candidate"] = does["candidate"].ends
      BY <1>1, <1>4 DEF Whole
    <3>2. \/ status["target"] = status["candidate"]
          \/ status["target"] \in Faults /\ status["candidate"] \in Faults
      BY <3>1 DEF Alike
    <3> QED
      BY <3>1, <3>2 DEF StatusDiffers, BothFaulted, Faults, Emus
  <2>2. Returns = "void" \/ Value("target") = Value("candidate")
    BY <1>1, SameFresh DEF BatteryInv, EntryInv, Ran, Value
  <2>3. Stores("target") = Stores("candidate")
    <3>1. does["target"].stores = does["candidate"].stores
      BY DEF Alike
    <3>2. Stores("target")
            = [i \in {j \in DOMAIN does["target"].stores :
                       does["target"].stores[j].cell # "stack"}
                |-> <<does["target"].stores[i].cell, does["target"].stores[i].value>>]
      BY <1>1, <1>4, StoresOfWhole
    <3>3. Stores("candidate")
            = [i \in {j \in DOMAIN does["candidate"].stores :
                       does["candidate"].stores[j].cell # "stack"}
                |-> <<does["candidate"].stores[i].cell, does["candidate"].stores[i].value>>]
      BY <1>1, <1>4, StoresOfWhole
    <3> QED
      BY <3>1, <3>2, <3>3
  <2>4. WritesMatch(Stores("target"), Stores("candidate"))
    BY <2>3 DEF WritesMatch
  <2> QED
    BY <2>1, <2>2, <2>4 DEF Compared
<1> QED
  BY <1>2, <1>3, <1>4

(***************************************************************************)
(* Where functions call nothing and see the same data, two that do the     *)
(* same are never reported to diverge, however long each takes, but for    *)
(* an invalid opcode and for a second try that runs out of steps as well:  *)
(* NoFalseAlarm.                                                           *)
(***************************************************************************)
THEOREM NoAlarmIsFalse ==
  ASSUME ~Calls, Returns = "void" \/ SameData
  PROVE  BatterySpec => []NoFalseAlarm
<1>1. BatteryInit => NoFalseAlarm
  BY DEF BatteryInit, NoFalseAlarm
<1>2. BatteryInv /\ NoFalseAlarm /\ [BatteryNext]_batteryVars => NoFalseAlarm'
  <2> SUFFICES ASSUME BatteryInv, NoFalseAlarm, [BatteryNext]_batteryVars,
                      step' \in {"rollback", "clear"},
                      Alike(does["target"], does["candidate"])',
                      does'["target"].ends # "invalid", ~TooSlow'
               PROVE  verdict' = "equivalent"
    BY DEF NoFalseAlarm
  <2>1. CASE Compare
    <3>1. /\ Alike(does["target"], does["candidate"]) /\ step = "compare"
          /\ does["target"].ends # "invalid" /\ ~TooSlow
      BY <2>1 DEF Compare, Alike, TooSlow
    <3> QED
      BY <2>1, <3>1, AlikeAreEquivalent DEF Compare
  <2>2. CASE Rollback \/ UNCHANGED batteryVars
    <3>1. /\ step \in {"rollback", "clear"} /\ verdict' = verdict
          /\ Alike(does["target"], does["candidate"])
          /\ does["target"].ends # "invalid" /\ ~TooSlow
      BY <2>2 DEF Rollback, batteryVars, Alike, TooSlow
    <3> QED
      BY <3>1 DEF NoFalseAlarm
  <2>3. CASE Begin \/ BeginFails \/ Setup \/ Run \/ Retry \/ Clear \/ Finish
    BY <2>3 DEF Begin, BeginFails, Setup, Run, Retry, Clear, ClearAnd, Finish
  <2> QED
    BY <2>1, <2>2, <2>3 DEF BatteryNext
<1> QED
  BY <1>1, <1>2, BatteryInvariance, PTL DEF BatterySpec

(***************************************************************************)
(* What a run stored, outside the stack, and the memory it left.           *)
(***************************************************************************)
OfCell(w, c) == {i \in DOMAIN w : w[i][1] = c}

Held(e, w) ==
  /\ IsFiniteSet(DOMAIN w)
  /\ \A i \in DOMAIN w : w[i] = <<w[i][1], w[i][2]>>
  /\ Touched(e) = {w[i][1] : i \in DOMAIN w}
  /\ \A c \in Cells \ {"stack"} :
       /\ OfCell(w, c) # {} => Max(OfCell(w, c)) \in OfCell(w, c)
       /\ mem[e][c] = IF OfCell(w, c) = {} THEN Fresh(e)[c] ELSE w[Max(OfCell(w, c))][2]
  /\ StoredOnce(e) => \A i, j \in DOMAIN w : w[i][1] = w[j][1] => i = j

LEMMA StoresAreHeld ==
  ASSUME BatteryTypes, NEW e \in Emus, NEW s \in Prefixes(does[e].stores), LastRan(e, s)
  PROVE  Held(e, Stores(e))
<1> DEFINE w == Stores(e)
           n == Len(s)
           l == log[e]
<1>1. DOMAIN s = 1 .. n /\ n \in Nat
  <2>1. does[e] \in Behaviour(battery.cells)
    BY DEF BatteryTypes
  <2> QED
    BY <2>1, BehaviourIs, PrefixIs
<1>2. DOMAIN l = 1 .. n
      /\ \A i \in 1 .. n : l[i].cell = s[i].cell /\ l[i].value = s[i].value
  BY <1>1, LoggedIs DEF LastRan
<1>3. mem[e] = After(Fresh(e), s)
  BY DEF LastRan
<1>4. w = [i \in {j \in DOMAIN l : l[j].cell # "stack"} |-> <<l[i].cell, l[i].value>>]
  BY DEF Stores
<1> HIDE DEF w, l, n
<1>5. DOMAIN w = {j \in 1 .. n : s[j].cell # "stack"}
      /\ \A i \in DOMAIN w : w[i] = <<s[i].cell, s[i].value>>
  BY <1>2, <1>4
<1>6. IsFiniteSet(DOMAIN w)
  <2>1. IsFiniteSet(1 .. n)
    <3>1. 1 \in Int /\ n \in Int
      BY <1>1
    <3> QED
      BY <3>1, FS_Interval
  <2>2. DOMAIN w \in SUBSET (1 .. n)
    BY <1>5
  <2> QED
    BY <2>1, <2>2, FS_Subset
<1>7. \A i \in DOMAIN w : w[i] = <<w[i][1], w[i][2]>>
  BY <1>5
<1>8. Touched(e) = {w[i][1] : i \in DOMAIN w}
  <2>1. Touched(e) = {l[i].cell : i \in DOMAIN l} \ {"stack"}
    BY DEF Touched, l
  <2>2. \A i \in DOMAIN w : w[i][1] = s[i].cell
    BY <1>5
  <2>3. \A x : x \in Touched(e) <=> \E i \in 1 .. n : x = s[i].cell /\ x # "stack"
    BY <1>2, <2>1
  <2>4. \A x : x \in {w[i][1] : i \in DOMAIN w} <=> \E i \in 1 .. n : x = s[i].cell /\ x # "stack"
    BY <1>5, <2>2
  <2> QED
    BY <2>3, <2>4
<1>9. ASSUME NEW c \in Cells \ {"stack"}
      PROVE  /\ OfCell(w, c) # {} => Max(OfCell(w, c)) \in OfCell(w, c)
             /\ mem[e][c] = IF OfCell(w, c) = {} THEN Fresh(e)[c]
                            ELSE w[Max(OfCell(w, c))][2]
  <2> DEFINE hits == {i \in DOMAIN s : s[i].cell = c}
  <2>1. OfCell(w, c) = hits
    BY <1>1, <1>5 DEF OfCell
  <2>2. hits \subseteq 1 .. n
    BY <1>1
  <2>3. mem[e][c] = IF hits = {} THEN Fresh(e)[c] ELSE s[Max(hits)].value
    BY <1>3 DEF After
  <2> HIDE DEF hits
  <2>4. hits # {} => Max(hits) \in hits
    BY <1>1, <2>2, MaxIs
  <2>5. hits # {} => w[Max(hits)][2] = s[Max(hits)].value
    BY <1>5, <2>1, <2>4 DEF OfCell
  <2> QED
    BY <2>1, <2>3, <2>4, <2>5
<1>10. ASSUME StoredOnce(e)
       PROVE  \A i, j \in DOMAIN w : w[i][1] = w[j][1] => i = j
  <2>1. \A i, j \in DOMAIN l : l[i].cell = l[j].cell => i = j
    BY <1>10 DEF StoredOnce, l
  <2> QED
    BY <1>2, <1>5, <2>1
<1>11. Held(e, w)
  BY <1>6, <1>7, <1>8, <1>9, <1>10 DEF Held
<1> QED
  BY <1>11 DEF w

\* The same final bytes.
LEMMA SameBytes ==
  ASSUME NEW t, NEW c, Held("target", t), Held("candidate", c), Bytes(t) = Bytes(c),
         Fresh("target") = Fresh("candidate")
  PROVE  /\ Touched("target") = Touched("candidate")
         /\ \A x \in Cells \ {"stack"} : mem["target"][x] = mem["candidate"][x]
<1>1. DOMAIN Bytes(t) = Touched("target") /\ DOMAIN Bytes(c) = Touched("candidate")
  BY DEF Bytes, Held
<1>2. Touched("target") = Touched("candidate")
  BY <1>1
<1>3. ASSUME NEW x \in Cells \ {"stack"}
      PROVE  mem["target"][x] = mem["candidate"][x]
  <2>1. OfCell(t, x) = {} <=> x \notin Touched("target")
    BY DEF OfCell, Held
  <2>2. OfCell(c, x) = {} <=> x \notin Touched("candidate")
    BY DEF OfCell, Held
  <2>3. x \in Touched("target") => /\ Bytes(t)[x] = t[Max(OfCell(t, x))][2]
                                   /\ Bytes(c)[x] = c[Max(OfCell(c, x))][2]
    BY <1>1, <1>2 DEF Bytes, OfCell, Held
  <2> QED
    BY <1>2, <2>1, <2>2, <2>3 DEF Held
<1> QED
  BY <1>2, <1>3

\* As many stores that are the same in another order.
LEMMA SameCounts ==
  ASSUME NEW t, NEW c, Held("target", t), Held("candidate", c), Count(t) = Count(c),
         \A i \in DOMAIN t : Times(t[i], t) = Times(t[i], c),
         Fresh("target") = Fresh("candidate")
  PROVE  /\ Touched("target") = Touched("candidate")
         /\ StoredOnce("target") /\ StoredOnce("candidate") =>
              \A x \in Cells \ {"stack"} : mem["target"][x] = mem["candidate"][x]
<1>1. \A j \in DOMAIN c : \E i \in DOMAIN t : t[i] = c[j]
  <2> DEFINE T == DOMAIN t
             C == DOMAIN c
  <2>1. IsFiniteSet(T) /\ IsFiniteSet(C)
    BY DEF Held
  <2>2. AsOften(T, C, t, c)
    BY DEF AsOften, Times, At
  <2>3. Cardinality(T) = Cardinality(C)
    BY DEF Count
  <2> HIDE DEF T, C
  <2>4. \A j \in C : \E i \in T : t[i] = c[j]
    BY <2>1, <2>2, <2>3, SameValues
  <2> QED
    BY <2>4 DEF T, C
<1>2. ASSUME NEW i \in DOMAIN t
      PROVE  \E j \in DOMAIN c : c[j] = t[i]
  <2> DEFINE here == {j \in DOMAIN t : t[j] = t[i]}
             there == {j \in DOMAIN c : c[j] = t[i]}
  <2>1. IsFiniteSet(here)
    <3>1. IsFiniteSet(DOMAIN t) /\ here \in SUBSET (DOMAIN t)
      BY DEF Held
    <3> HIDE DEF here
    <3> QED
      BY <3>1, FS_Subset
  <2>2. here # {} /\ Cardinality(here) = Cardinality(there)
    BY DEF Times
  <2>3. there # {}
    <3> HIDE DEF here, there
    <3> QED
      BY <2>1, <2>2, FS_EmptySet
  <2> QED
    BY <2>3
<1>3. Touched("target") = Touched("candidate")
  <2>1. {t[i][1] : i \in DOMAIN t} = {c[j][1] : j \in DOMAIN c}
    <3>1. \A i \in DOMAIN t : \E j \in DOMAIN c : c[j][1] = t[i][1]
      BY <1>2
    <3>2. \A j \in DOMAIN c : \E i \in DOMAIN t : t[i][1] = c[j][1]
      BY <1>1
    <3> QED
      BY <3>1, <3>2
  <2> QED
    BY <2>1 DEF Held
<1>4. ASSUME StoredOnce("candidate"), NEW x \in Cells \ {"stack"}
      PROVE  mem["target"][x] = mem["candidate"][x]
  <2>1. OfCell(t, x) = {} <=> x \notin Touched("target")
    BY DEF OfCell, Held
  <2>2. OfCell(c, x) = {} <=> x \notin Touched("candidate")
    BY DEF OfCell, Held
  <2>3. CASE OfCell(t, x) = {}
    BY <1>3, <2>1, <2>2, <2>3 DEF Held
  <2>4. CASE OfCell(t, x) # {}
    <3> DEFINE i == Max(OfCell(t, x))
               k == Max(OfCell(c, x))
    <3>1. OfCell(c, x) # {}
      BY <1>3, <2>1, <2>2, <2>4
    <3>2. i \in DOMAIN t /\ t[i][1] = x /\ mem["target"][x] = t[i][2]
      BY <2>4 DEF OfCell, Held
    <3>3. k \in DOMAIN c /\ c[k][1] = x /\ mem["candidate"][x] = c[k][2]
      BY <3>1 DEF OfCell, Held
    <3> HIDE DEF i, k
    <3>4. PICK j \in DOMAIN c : c[j] = t[i]
      BY <1>2, <3>2
    <3>5. j = k
      BY <1>4, <3>2, <3>3, <3>4 DEF Held
    <3> QED
      BY <3>2, <3>3, <3>4, <3>5
  <2> QED
    BY <2>3, <2>4
<1> QED
  BY <1>3, <1>4

(***************************************************************************)
(* Functions reported to be equivalent have stored to the same cells and,  *)
(* unless one of them stored twice to a cell, have left the same memory:   *)
(* FinalMemoryCompared.  A function that returns nothing tells nothing of  *)
(* what it read, so the two have to be given the same memory.              *)
(***************************************************************************)
THEOREM MemoryIsCompared ==
  ASSUME Returns # "void" \/ SameData
  PROVE  BatterySpec => []FinalMemoryCompared
<1>1. BatteryInv => FinalMemoryCompared
  <2> SUFFICES ASSUME BatteryInv, step = "rollback", BothReturned,
                      verdict = "equivalent", Returns # "float"
               PROVE  /\ Touched("target") = Touched("candidate")
                      /\ (\A e \in Emus : StoredOnce(e)) =>
                           \A x \in Cells \ {"stack"} :
                             mem["target"][x] = mem["candidate"][x]
    BY DEF FinalMemoryCompared
  <2> DEFINE t == Stores("target")
             c == Stores("candidate")
  <2>1. "target" \in Emus /\ "candidate" \in Emus
    BY DEF Emus
  <2>2. Compared = "equivalent" /\ \A e \in Emus : status[e] = "return"
    BY DEF BatteryInv, EndInv, BothReturned
  <2>3. WritesMatch(t, c) /\ (Returns # "void" => Value("target") = Value("candidate"))
    <3> HIDE DEF t, c
    <3>1. status["target"] = "return" /\ status["candidate"] = "return"
      BY <2>1, <2>2
    <3>2. Returns # "void" => Value("target") = Value("candidate")
      BY <2>2, <3>1 DEF Compared
    <3>3. WritesMatch(t, c)
      BY <2>2, <3>1 DEF Compared, t, c
    <3> QED
      BY <3>2, <3>3
  <2>4. Fresh("target") = Fresh("candidate")
    <3>1. Value("target") = Fresh("target") /\ Value("candidate") = Fresh("candidate")
      BY <2>1 DEF BatteryInv, EntryInv, Ran, Value
    <3> QED
      BY <2>3, <3>1, SameFresh
  <2>5. Held("target", t) /\ Held("candidate", c)
    <3>1. BatteryTypes /\ \A e \in Emus : \E s \in Prefixes(does[e].stores) : LastRan(e, s)
      BY DEF BatteryInv, MemoryInv, Ran
    <3> QED
      BY <2>1, <3>1, StoresAreHeld
  <2> HIDE DEF t, c
  <2>6. CASE Bytes(t) = Bytes(c)
    BY <2>4, <2>5, <2>6, SameBytes
  <2>7. CASE Count(t) = Count(c) /\ \A i \in DOMAIN t : Times(t[i], t) = Times(t[i], c)
    BY <2>1, <2>4, <2>5, <2>7, SameCounts
  <2> QED
    BY <2>3, <2>6, <2>7 DEF WritesMatch
<1> QED
  BY <1>1, BatteryInvariance, PTL

=============================================================================
