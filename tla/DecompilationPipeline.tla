----------------------- MODULE DecompilationPipeline -----------------------
(***************************************************************************)
(* The lifter's fourteen stages over one DecompilationContext               *)
(* (lifter/inverse_compiler_pipeline.cc, lifter/decompilation_context.cc)   *)
(* and what they cache: dominators, postdominators and loops of the         *)
(* control flow graph (lifter/cfg_analysis_manager.cc), which passes that   *)
(* rewrite the graph fetch, hold by reference and throw away                *)
(* (lifter/cfg_pass_pipeline.cc, lifter/cfg_de_reorg.cc), and the layout of *)
(* the stack frame.                                                         *)
(*                                                                          *)
(* What a pass rewrites is left out: a sweep over the blocks may change the *)
(* graph or not.  A cached fact is known by its age.                        *)
(***************************************************************************)
EXTENDS Integers, Sequences

CONSTANTS
  Relaxations,    \* sweeps of the relaxing and of the eager pass, 4
  Duplications,   \* sweeps of the cross jump pass, 64
  Groups          \* the bounds of the groups of syntax tree passes, <<3, 4>>

ASSUME PipelineConstants == /\ Relaxations \in Nat \ {0}
                            /\ Duplications \in Nat \ {0}
                            /\ Groups \in Seq(Nat \ {0})

Analyses == {"dominators", "postdominators", "loops"}

(***************************************************************************)
(* A fact is not cached, or of the graph as it is, as it was earlier in    *)
(* the present sweep, or as it was before that sweep.                      *)
(***************************************************************************)
Age == {"none", "now", "sweep", "old"}

NoAnalyses == [a \in Analyses |-> "none"]

VARIABLES
  flags,     \* context.Flags(), as far as the stages ask
  stage,     \* the stage about to run or running; LastStage + 1 when all have
  begun,     \* whether it is running
  outcome,   \* what the pipeline returned: none yet, ok, error
  work,      \* the passes still to run in this stage: <<graph, pass>>
  cache,     \* the analysis managers of context.Cfg() and of a stage's copy
  layout,    \* frame_layout_
  rtl,       \* HasRtlCfg()
  held,      \* the references the running sweep has fetched
  sweep,     \* sweeps of the running pass begun; 0 before the first
  rewritten, \* whether the sweep changed the graph
  group      \* <<which, iterations>> of the syntax tree's pass groups

vars == <<flags, stage, begun, outcome, work, cache, layout, rtl, held, sweep, rewritten,
          group>>
pass == <<held, sweep, rewritten>>
context == <<flags, stage, begun, outcome, rtl, group>>

LastStage == 13

(***************************************************************************)
(* The pipelines of passes, on the context's graph and on a copy.          *)
(***************************************************************************)
On(graph, passes) == [i \in DOMAIN passes |-> <<graph, passes[i]>>]

BuildStage1Pipeline == On("copy", <<"target", "relax", "eager", "simple all">>)
PreCrossJump == On("context", <<"simple", "target", "relax", "eager">>)
CrossJump == On("context", <<"cross jump", "simple", "eager">>)

Unschedules == flags.dbr \/ flags.gas

UnscheduleDelaySlotsOnly == IF Unschedules THEN BuildStage1Pipeline ELSE << >>

\* dbr needs an optimising compiler; gas may reorder without one.
Flags == {f \in [dbr : BOOLEAN, gas : BOOLEAN, opt : BOOLEAN] : f.dbr => f.opt}

Init == /\ flags \in Flags
        /\ stage = 0 /\ begun = FALSE /\ outcome = "none"
        /\ work = << >>
        /\ cache = [g \in {"context", "copy"} |-> NoAnalyses]
        /\ layout = "none" /\ rtl = FALSE
        /\ held = {} /\ sweep = 0 /\ rewritten = FALSE
        /\ group = <<1, 0>>

Running == outcome = "none"
Graph == work[1][1]
Pass == work[1][2]
Sweeps == IF Pass = "cross jump" THEN Duplications ELSE Relaxations
InPass(p) == Running /\ work # << >> /\ Pass \in p

-----------------------------------------------------------------------------
(***************************************************************************)
(* CfgAnalysisManager.  Loops are found with the dominators that are       *)
(* cached, whatever their age.                                             *)
(***************************************************************************)
InvalidateAll(g) == cache' = [cache EXCEPT ![g] = NoAnalyses]

Fetched(c, asked) ==
  LET Got(a) == IF c[a] = "none" THEN "now" ELSE c[a]
  IN [a \in Analyses |->
        CASE a \notin asked -> c[a]
          [] a = "loops" /\ c[a] = "none" -> Got("dominators")
          [] OTHER -> Got(a)]

\* The graph changes under what is cached of it.
Aged(c) == [a \in Analyses |-> IF c[a] = "now" THEN "sweep" ELSE c[a]]

\* A sweep begins: what an earlier one saw is old.
Outlived(c) == [a \in Analyses |-> IF c[a] = "sweep" THEN "old" ELSE c[a]]

Fetch(g, asked) == /\ cache' = [cache EXCEPT ![g] = Fetched(@, asked)]
                   /\ held' = asked

FetchAnew(g) == /\ cache' = [cache EXCEPT ![g] = Fetched(Outlived(@), Analyses)]
                /\ held' = Analyses

(***************************************************************************)
(* CfgPassPipeline::Run: a pass that reports a change has its analyses     *)
(* invalidated, once more if it did so itself.                             *)
(***************************************************************************)
EndPass(any) ==
  /\ IF any THEN InvalidateAll(Graph) ELSE UNCHANGED cache
  /\ work' = Tail(work)
  /\ held' = {} /\ sweep' = 0 /\ rewritten' = FALSE
  /\ UNCHANGED <<context, layout>>

(***************************************************************************)
(* InverseCompilerPipeline::Run: the stages in their order, up to the      *)
(* first that fails.                                                       *)
(***************************************************************************)
AtStage(stages) == Running /\ ~begun /\ stage \in stages

BeginStage == begun' = TRUE /\ UNCHANGED <<flags, stage, outcome>>

EndStage == /\ stage' = stage + 1 /\ begun' = FALSE
            /\ outcome' = IF stage = LastStage THEN "ok" ELSE "none"
            /\ UNCHANGED flags

Fail == /\ outcome' = "error"
        /\ UNCHANGED <<flags, stage, begun, work, cache, layout, rtl, pass, group>>

\* In stage 13 the analyses are held until the regions are structured.
Structured == Running /\ stage = LastStage /\ begun /\ held = {}

(***************************************************************************)
(* Seeded faults, none of them part of Next.                               *)
(***************************************************************************)
\* The next iteration takes the analyses of the last.
FaultEndSweep ==
  /\ InPass({"relax", "eager", "cross jump"}) /\ held # {}
  /\ IF rewritten /\ sweep < Sweeps
     THEN /\ held' = {} /\ rewritten' = FALSE
          /\ UNCHANGED <<context, work, cache, layout, sweep>>
     ELSE EndPass(rewritten \/ sweep > 1)

\* Invalidated at once, while the sweep still holds its references.
FaultGraphChanges ==
  /\ InvalidateAll(Graph)
  /\ layout' = IF Graph = "context" /\ layout = "now" THEN "old" ELSE layout
  /\ rewritten' = TRUE
  /\ UNCHANGED <<context, work, held, sweep>>

\* The layout is kept over the passes of the stage.
FaultLift ==
  /\ stage \in {1, 2} /\ begun /\ work = << >>
  /\ layout' = IF layout = "none" THEN "now" ELSE layout
  /\ rtl' = TRUE /\ EndStage
  /\ UNCHANGED <<work, cache, pass, group>>

\* A group of passes goes on as long as they change the tree: two that undo
\* each other's changes.
FaultAstIteration ==
  /\ Structured /\ group[1] <= Len(Groups)
  /\ \E changes \in BOOLEAN :
       group' = IF changes THEN <<group[1], (group[2] + 1) % 2>>
                ELSE <<group[1] + 1, 0>>
  /\ UNCHANGED <<flags, stage, begun, outcome, work, cache, layout, rtl, pass>>

-----------------------------------------------------------------------------
(***************************************************************************)
(* The passes (cfg_de_reorg.cc).                                           *)
(***************************************************************************)
\* A block is rewritten, split, cloned or retargeted.
GraphChanges ==
  /\ cache' = [cache EXCEPT ![Graph] = Aged(@)]
  /\ layout' = IF Graph = "context" /\ layout = "now" THEN "old" ELSE layout
  /\ rewritten' = TRUE
  /\ UNCHANGED <<context, work, held, sweep>>

\* SimpleDelaySlotUnschedulerPass: one sweep that asks for nothing.
SimplePass ==
  /\ InPass({"simple"})
  /\ \E changes \in BOOLEAN :
       /\ IF changes THEN InvalidateAll(Graph) ELSE UNCHANGED cache
       /\ layout' = IF changes /\ Graph = "context" /\ layout = "now" THEN "old" ELSE layout
  /\ work' = Tail(work)
  /\ UNCHANGED <<context, pass>>

\* ... and with unschedule_all_remaining, where blocks may be dropped without a report.
SimpleAllPass ==
  /\ InPass({"simple all"})
  /\ \/ InvalidateAll(Graph)
     \/ cache' = [cache EXCEPT ![Graph] = Aged(@)]
     \/ UNCHANGED cache
  /\ work' = Tail(work)
  /\ UNCHANGED <<context, layout, pass>>

\* The relaxing, eager and cross jump passes fetch all they need before each sweep.
BeginSweep ==
  /\ InPass({"relax", "eager", "cross jump"}) /\ held = {}
  /\ FetchAnew(Graph)
  /\ sweep' = sweep + 1
  /\ UNCHANGED <<context, work, layout, rewritten>>

\* Functions with a frame pointer were compiled without cross jumping.
SkipCrossJump == InPass({"cross jump"}) /\ sweep = 0 /\ EndPass(FALSE)

\* TargetHeaderDelaySlotReconcilerPass fetches at the first block that asks, if any does.
BeginTargets ==
  /\ InPass({"target"}) /\ sweep = 0
  /\ cache' = [cache EXCEPT ![Graph] = Outlived(@)]
  /\ sweep' = 1
  /\ UNCHANGED <<context, work, layout, held, rewritten>>

FetchForTarget ==
  /\ InPass({"target"}) /\ sweep = 1
  /\ Fetch(Graph, {"dominators", "loops"})
  /\ UNCHANGED <<context, work, layout, sweep, rewritten>>

Sweeping(p) == InPass({p}) /\ sweep > 0 /\ (p # "target" => held # {})

ReconcileTargetHeader == Sweeping("target") /\ GraphChanges
UnscheduleRelaxed == Sweeping("relax") /\ GraphChanges
UnscheduleEagerThread == Sweeping("eager") /\ GraphChanges
DuplicateTail == Sweeping("cross jump") /\ GraphChanges

EndTargets == InPass({"target"}) /\ sweep = 1 /\ EndPass(rewritten)

EndSweep ==
  /\ InPass({"relax", "eager", "cross jump"}) /\ held # {}
  /\ IF rewritten /\ sweep < Sweeps
     THEN /\ InvalidateAll(Graph)
          /\ held' = {} /\ rewritten' = FALSE
          /\ UNCHANGED <<context, work, layout, sweep>>
     ELSE EndPass(rewritten \/ sweep > 1)

PassStep == \/ SimplePass \/ SimpleAllPass
            \/ BeginTargets \/ FetchForTarget \/ EndTargets
            \/ SkipCrossJump \/ BeginSweep \/ EndSweep
            \/ ReconcileTargetHeader \/ UnscheduleRelaxed
            \/ UnscheduleEagerThread \/ DuplicateTail

-----------------------------------------------------------------------------
(***************************************************************************)
(* The stages (inverse_compiler_pipeline.cc).                              *)
(***************************************************************************)
FrameLayout == IF layout = "none" THEN "now" ELSE layout

\* InverseFinalAndGasStage: BuildCfg, and LiftCfgToRtl with the frame of the graph.
FinalAndGas ==
  /\ AtStage({0})
  /\ cache' = [cache EXCEPT !["context"] = NoAnalyses]
  /\ layout' = "now" /\ rtl' = TRUE
  /\ EndStage
  /\ UNCHANGED <<work, pass, group>>

\* No instructions, or a graph that cannot be built.
BuildCfgFails == AtStage({0}) /\ Fail

SkipStage ==
  /\ \/ AtStage({1}) /\ ~Unschedules
     \/ AtStage({2}) /\ ~flags.opt
  /\ EndStage
  /\ UNCHANGED <<work, cache, layout, rtl, pass, group>>

\* InverseDbrDelaySlotStage copies the graph before its own passes change it.
DbrDelaySlot ==
  /\ AtStage({1}) /\ Unschedules
  /\ work' = UnscheduleDelaySlotsOnly \o PreCrossJump
  /\ cache' = [cache EXCEPT !["copy"] = NoAnalyses]
  /\ BeginStage
  /\ UNCHANGED <<layout, rtl, pass, group>>

\* InverseJump2CrossJumpStage copies what its own passes have made of it.
Jump2CrossJump ==
  /\ AtStage({2}) /\ flags.opt
  /\ work' = CrossJump \o UnscheduleDelaySlotsOnly
  /\ cache' = [cache EXCEPT !["copy"] = NoAnalyses]
  /\ BeginStage
  /\ UNCHANGED <<layout, rtl, pass, group>>

\* InvalidateFrameLayout after the passes; the RTL of the copy is lifted with the new one.
Lift ==
  /\ stage \in {1, 2} /\ begun /\ work = << >>
  /\ layout' = "now" /\ rtl' = TRUE
  /\ EndStage
  /\ UNCHANGED <<work, cache, pass, group>>

\* Stages 3 to 12 rewrite the RTL; 3 and 4 look at the frame.
RtlStage ==
  /\ AtStage(3 .. LastStage - 1) /\ rtl
  /\ layout' = IF stage \in {3, 4} THEN FrameLayout ELSE layout
  /\ EndStage
  /\ UNCHANGED <<work, cache, rtl, pass, group>>

\* InverseRtlToCAstLifter::LiftRtlToCAst.
FetchForRegions ==
  /\ AtStage({LastStage})
  /\ FetchAnew("context")
  /\ BeginStage
  /\ UNCHANGED <<work, layout, rtl, sweep, rewritten, group>>

Structure ==
  /\ Running /\ stage = LastStage /\ begun /\ held # {}
  /\ held' = {} /\ group' = <<1, 0>>
  /\ UNCHANGED <<flags, stage, begun, outcome, work, cache, layout, rtl, sweep, rewritten>>

(***************************************************************************)
(* AstPassPipeline::RunToFixedPoint, for each group of passes.             *)
(***************************************************************************)
AstIteration ==
  /\ Structured /\ group[1] <= Len(Groups)
  /\ \E changes \in BOOLEAN :
       group' = IF changes /\ group[2] + 1 < Groups[group[1]]
                THEN <<group[1], group[2] + 1>>
                ELSE <<group[1] + 1, 0>>
  /\ UNCHANGED <<flags, stage, begun, outcome, work, cache, layout, rtl, pass>>

SetAst ==
  /\ Structured /\ group[1] > Len(Groups)
  /\ EndStage
  /\ UNCHANGED <<work, cache, layout, rtl, pass, group>>

\* There is nothing to structure, or a local variable cannot be declared.
RegionsFail == Running /\ stage = LastStage /\ begun /\ Fail

Next == \/ FinalAndGas \/ BuildCfgFails
        \/ SkipStage \/ DbrDelaySlot \/ Jump2CrossJump \/ Lift
        \/ PassStep
        \/ RtlStage
        \/ FetchForRegions \/ Structure \/ AstIteration \/ SetAst \/ RegionsFail

Spec == Init /\ [][Next]_vars /\ WF_vars(Next)

-----------------------------------------------------------------------------
TypeOK ==
  /\ flags \in Flags /\ stage \in 0 .. LastStage + 1 /\ outcome \in {"none", "ok", "error"}
  /\ work \in Seq({"context", "copy"} \X {"simple", "simple all", "target", "relax",
                                           "eager", "cross jump"})
  /\ cache \in [{"context", "copy"} -> [Analyses -> Age]]
  /\ layout \in Age \ {"sweep"}
  /\ held \subseteq Analyses
  /\ {begun, rtl, rewritten} \subseteq BOOLEAN
  /\ sweep \in Nat /\ group \in Nat \X Nat
  /\ rtl <=> stage > 0

(***************************************************************************)
(* What a pass or the last stage holds by reference is there, and is of    *)
(* the graph its sweep began with: no pass sees what an earlier one, or    *)
(* its own earlier sweep, has changed.  No stage that reads the frame sees *)
(* the frame of a graph that has been rewritten since.                     *)
(***************************************************************************)
AnalysesCurrent ==
  /\ \A a \in held :
       cache[IF work = << >> THEN "context" ELSE Graph][a]
         \in {"now"} \union (IF rewritten THEN {"sweep"} ELSE {})
  /\ stage # 0 /\ ~begun => layout = "now"

(***************************************************************************)
(* The lifter ends, though passes may undo each other's changes.           *)
(***************************************************************************)
Terminates == <>(outcome # "none")
=============================================================================
