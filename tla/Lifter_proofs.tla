---------------------------- MODULE Lifter_proofs ----------------------------
(***************************************************************************)
(* What the lifter's analyses answer, and that its passes use them while   *)
(* they are true.                                                          *)
(*                                                                         *)
(* For any number of sweeps and any groups of syntax tree passes: what a   *)
(* pass of the lifter holds by reference is there and is of the graph its  *)
(* sweep began with.  The invariant adds what makes that inductive: which  *)
(* passes a stage has left, and that nothing outlives the pass that made   *)
(* it old, but for a copy of the graph that no pass looks at again.        *)
(*                                                                         *)
(* For any graphs with any number of blocks: the trees, the frontiers and  *)
(* the loops are what the paths of the graph say they are.  The invariant  *)
(* is of the depth-first search, whose post-order puts a node after all    *)
(* that only it leads to, and of the passes, whose idom is a tree that     *)
(* only loses the ancestors that some path avoids.                         *)
(***************************************************************************)
EXTENDS DecompilationPipeline, LoopInfo, FiniteSetTheorems, SequenceTheorems,
        WellFoundedInduction, TLAPS

Graphs == {"context", "copy"}
Passes == {"simple", "simple all", "target", "relax", "eager", "cross jump"}

-----------------------------------------------------------------------------
(***************************************************************************)
(* The passes of a stage: those that drop blocks without a report work on  *)
(* the copy, and are the last to do so.                                    *)
(***************************************************************************)
OfCopy(p) == p[1] = "copy"
OfContext(p) == p[1] = "context"
DropsBlocks(p) == p[2] = "simple all"

SimpleAllLast(w) ==
  \A i \in 1 .. Len(w) : DropsBlocks(w[i]) =>
    OfCopy(w[i]) /\ \A j \in i + 1 .. Len(w) : OfContext(w[j])

LEMMA OnIs ==
  ASSUME NEW g \in Graphs, NEW s \in Seq(Passes)
  PROVE  /\ On(g, s) \in Seq(Graphs \X Passes) /\ Len(On(g, s)) = Len(s)
         /\ \A i \in 1 .. Len(s) : On(g, s)[i][1] = g /\ On(g, s)[i][2] = s[i]
<1>1. On(g, s) = [i \in 1 .. Len(s) |-> <<g, s[i]>>]
  BY DEF On
<1>2. \A i \in 1 .. Len(s) : <<g, s[i]>> \in Graphs \X Passes
  OBVIOUS
<1>3. On(g, s) \in Seq(Graphs \X Passes) /\ Len(On(g, s)) = Len(s)
  BY <1>1, <1>2
<1> QED
  BY <1>1, <1>3

\* The passes on the copy alone, or none.
OnlyCopy(w) ==
  /\ w \in Seq(Graphs \X Passes)
  /\ \A i \in 1 .. Len(w) : OfCopy(w[i]) /\ (DropsBlocks(w[i]) => i = Len(w))

OnlyContext(w) ==
  /\ w \in Seq(Graphs \X Passes)
  /\ \A i \in 1 .. Len(w) : OfContext(w[i]) /\ ~DropsBlocks(w[i])

LEMMA CopyPasses == OnlyCopy(UnscheduleDelaySlotsOnly)
<1> DEFINE s == <<"target", "relax", "eager", "simple all">>
<1>1. s \in Seq(Passes) /\ Len(s) = 4
  BY DEF Passes
<1>4. \A i \in 1 .. 4 : s[i] = "simple all" => i = 4
  <2>1. s[1] = "target" /\ s[2] = "relax" /\ s[3] = "eager"
    OBVIOUS
  <2>2. \A i \in 1 .. 4 : i = 1 \/ i = 2 \/ i = 3 \/ i = 4
    OBVIOUS
  <2> HIDE DEF s
  <2> QED
    BY <2>1, <2>2
<1>2. CASE Unschedules
  <2>1. UnscheduleDelaySlotsOnly = On("copy", s)
    BY <1>2 DEF UnscheduleDelaySlotsOnly, BuildStage1Pipeline
  <2> HIDE DEF s
  <2>2. "copy" \in Graphs
    BY DEF Graphs
  <2>3. /\ On("copy", s) \in Seq(Graphs \X Passes) /\ Len(On("copy", s)) = 4
        /\ \A i \in 1 .. 4 : On("copy", s)[i][1] = "copy" /\ On("copy", s)[i][2] = s[i]
    BY <1>1, <2>2, OnIs
  <2>4. \A i \in 1 .. 4 : OfCopy(On("copy", s)[i]) /\ (DropsBlocks(On("copy", s)[i]) => i = 4)
    BY <1>4, <2>3 DEF OfCopy, DropsBlocks
  <2> QED
    BY <2>1, <2>3, <2>4 DEF OnlyCopy
<1>3. CASE ~Unschedules
  <2>1. UnscheduleDelaySlotsOnly = << >>
    BY <1>3 DEF UnscheduleDelaySlotsOnly
  <2> QED
    BY <2>1 DEF OnlyCopy
<1> QED
  BY <1>2, <1>3

LEMMA ContextPasses == OnlyContext(PreCrossJump) /\ OnlyContext(CrossJump)
<1>1. ASSUME NEW s \in Seq(Passes), \A i \in 1 .. Len(s) : s[i] # "simple all"
      PROVE  OnlyContext(On("context", s))
  <2>1. "context" \in Graphs
    BY DEF Graphs
  <2>2. /\ On("context", s) \in Seq(Graphs \X Passes) /\ Len(On("context", s)) = Len(s)
        /\ \A i \in 1 .. Len(s) :
             On("context", s)[i][1] = "context" /\ On("context", s)[i][2] = s[i]
    BY <2>1, OnIs
  <2>3. \A i \in 1 .. Len(s) : OfContext(On("context", s)[i]) /\ ~DropsBlocks(On("context", s)[i])
    BY <1>1, <2>2 DEF OfContext, DropsBlocks
  <2> QED
    BY <2>2, <2>3 DEF OnlyContext
<1>2. OnlyContext(PreCrossJump)
  <2> DEFINE s == <<"simple", "target", "relax", "eager">>
  <2>1. s \in Seq(Passes) /\ Len(s) = 4
    BY DEF Passes
  <2>2. \A i \in 1 .. 4 : s[i] # "simple all"
    <3>1. s[1] = "simple" /\ s[2] = "target" /\ s[3] = "relax" /\ s[4] = "eager"
      OBVIOUS
    <3>2. \A i \in 1 .. 4 : i = 1 \/ i = 2 \/ i = 3 \/ i = 4
      OBVIOUS
    <3> HIDE DEF s
    <3> QED
      BY <3>1, <3>2
  <2> HIDE DEF s
  <2> QED
    BY <1>1, <2>1, <2>2 DEF PreCrossJump, s
<1>3. OnlyContext(CrossJump)
  <2> DEFINE s == <<"cross jump", "simple", "eager">>
  <2>1. s \in Seq(Passes) /\ Len(s) = 3
    BY DEF Passes
  <2>2. \A i \in 1 .. 3 : s[i] # "simple all"
    <3>1. s[1] = "cross jump" /\ s[2] = "simple" /\ s[3] = "eager"
      OBVIOUS
    <3>2. \A i \in 1 .. 3 : i = 1 \/ i = 2 \/ i = 3
      OBVIOUS
    <3> HIDE DEF s
    <3> QED
      BY <3>1, <3>2
  <2> HIDE DEF s
  <2> QED
    BY <1>1, <2>1, <2>2 DEF CrossJump, s
<1> QED
  BY <1>2, <1>3

\* A stage's own passes come after those of the copy, or before.
LEMMA Concatenated ==
  ASSUME NEW c, OnlyCopy(c), NEW o, OnlyContext(o)
  PROVE  /\ c \o o \in Seq(Graphs \X Passes) /\ SimpleAllLast(c \o o)
         /\ o \o c \in Seq(Graphs \X Passes) /\ SimpleAllLast(o \o c)
<1>1. /\ c \in Seq(Graphs \X Passes) /\ Len(c) \in Nat
      /\ o \in Seq(Graphs \X Passes) /\ Len(o) \in Nat
  BY DEF OnlyCopy, OnlyContext
<1>2. c \o o \in Seq(Graphs \X Passes) /\ o \o c \in Seq(Graphs \X Passes)
  BY <1>1
<1>3. /\ Len(c \o o) = Len(c) + Len(o)
      /\ \A i \in 1 .. Len(c) + Len(o) :
           (c \o o)[i] = IF i <= Len(c) THEN c[i] ELSE o[i - Len(c)]
  BY <1>1
<1>4. /\ Len(o \o c) = Len(o) + Len(c)
      /\ \A i \in 1 .. Len(o) + Len(c) :
           (o \o c)[i] = IF i <= Len(o) THEN o[i] ELSE c[i - Len(o)]
  BY <1>1
<1>5. SimpleAllLast(c \o o)
  <2> SUFFICES ASSUME NEW i \in 1 .. Len(c) + Len(o), DropsBlocks((c \o o)[i])
               PROVE  /\ OfCopy((c \o o)[i])
                      /\ \A j \in i + 1 .. Len(c) + Len(o) : OfContext((c \o o)[j])
    BY <1>3 DEF SimpleAllLast
  <2>1. CASE i > Len(c)
    <3>1. i - Len(c) \in 1 .. Len(o) /\ (c \o o)[i] = o[i - Len(c)]
      BY <1>1, <1>3, <2>1
    <3> QED
      BY <3>1 DEF OnlyContext
  <2>2. CASE i <= Len(c)
    <3>1. i \in 1 .. Len(c) /\ (c \o o)[i] = c[i]
      BY <1>1, <1>3, <2>2
    <3>2. OfCopy(c[i]) /\ i = Len(c)
      BY <3>1 DEF OnlyCopy
    <3>3. \A j \in i + 1 .. Len(c) + Len(o) : j - Len(c) \in 1 .. Len(o)
                                              /\ (c \o o)[j] = o[j - Len(c)]
      BY <1>1, <1>3, <3>2
    <3> QED
      BY <3>1, <3>2, <3>3 DEF OnlyContext
  <2> QED
    BY <1>1, <2>1, <2>2
<1>6. SimpleAllLast(o \o c)
  <2> SUFFICES ASSUME NEW i \in 1 .. Len(o) + Len(c), DropsBlocks((o \o c)[i])
               PROVE  /\ OfCopy((o \o c)[i])
                      /\ \A j \in i + 1 .. Len(o) + Len(c) : OfContext((o \o c)[j])
    BY <1>4 DEF SimpleAllLast
  <2>1. CASE i <= Len(o)
    <3>1. i \in 1 .. Len(o) /\ (o \o c)[i] = o[i]
      BY <1>1, <1>4, <2>1
    <3> QED
      BY <3>1 DEF OnlyContext
  <2>2. CASE i > Len(o)
    <3>1. i - Len(o) \in 1 .. Len(c) /\ (o \o c)[i] = c[i - Len(o)]
      BY <1>1, <1>4, <2>2
    <3>2. OfCopy(c[i - Len(o)]) /\ i - Len(o) = Len(c)
      BY <3>1 DEF OnlyCopy
    <3>3. ~ \E j \in Int : j \in i + 1 .. Len(o) + Len(c)
      BY <1>1, <3>2
    <3> QED
      BY <3>1, <3>2, <3>3
  <2> QED
    BY <1>1, <2>1, <2>2
<1> QED
  BY <1>2, <1>5, <1>6

LEMMA TailKeeps ==
  ASSUME NEW w \in Seq(Graphs \X Passes), w # << >>, SimpleAllLast(w)
  PROVE  /\ Tail(w) \in Seq(Graphs \X Passes) /\ SimpleAllLast(Tail(w))
         /\ \A i \in 1 .. Len(Tail(w)) : i + 1 \in 2 .. Len(w) /\ Tail(w)[i] = w[i + 1]
<1>1. /\ Tail(w) \in Seq(Graphs \X Passes) /\ Len(w) \in Nat \ {0} /\ Len(Tail(w)) = Len(w) - 1
      /\ \A i \in 1 .. Len(w) - 1 : Tail(w)[i] = w[i + 1]
  OBVIOUS
<1>2. \A i \in 1 .. Len(Tail(w)) : i + 1 \in 2 .. Len(w) /\ Tail(w)[i] = w[i + 1]
  BY <1>1
<1>3. SimpleAllLast(Tail(w))
  <2> SUFFICES ASSUME NEW i \in 1 .. Len(Tail(w)), DropsBlocks(Tail(w)[i])
               PROVE  /\ OfCopy(Tail(w)[i])
                      /\ \A j \in i + 1 .. Len(Tail(w)) : OfContext(Tail(w)[j])
    BY DEF SimpleAllLast
  <2>1. i + 1 \in 1 .. Len(w) /\ Tail(w)[i] = w[i + 1]
    BY <1>1, <1>2
  <2>2. OfCopy(w[i + 1]) /\ \A j \in i + 2 .. Len(w) : OfContext(w[j])
    BY <2>1 DEF SimpleAllLast
  <2>3. \A j \in i + 1 .. Len(Tail(w)) : j + 1 \in i + 2 .. Len(w) /\ Tail(w)[j] = w[j + 1]
    BY <1>1
  <2> QED
    BY <2>1, <2>2, <2>3
<1> QED
  BY <1>1, <1>2, <1>3

-----------------------------------------------------------------------------
(***************************************************************************)
(* Ages.  A cache is fresh when nothing in it is older than the sweep, and *)
(* nothing older than its changes unless it has made some.                 *)
(***************************************************************************)
Fresh(c, dirty) == \A a \in Analyses : c[a] \in {"none", "now"} \/ (dirty /\ c[a] = "sweep")

Caches == [Analyses -> Age]

LEMMA NothingCached == NoAnalyses \in Caches /\ \A dirty : Fresh(NoAnalyses, dirty)
  BY DEF NoAnalyses, Caches, Age, Fresh

\* Fetching finds what is missing, loops with the dominators that are there.
LEMMA FetchedFresh ==
  ASSUME NEW c \in Caches, NEW asked \in SUBSET Analyses, NEW dirty \in BOOLEAN, Fresh(c, dirty)
  PROVE  /\ Fetched(c, asked) \in Caches /\ Fresh(Fetched(c, asked), dirty)
         /\ \A a \in asked : Fetched(c, asked)[a] # "none"
<1> DEFINE Got(a) == IF c[a] = "none" THEN "now" ELSE c[a]
           f == Fetched(c, asked)
<1>1. f = [a \in Analyses |-> CASE a \notin asked -> c[a]
                                [] a = "loops" /\ c[a] = "none" -> Got("dominators")
                                [] OTHER -> Got(a)]
  BY DEF Fetched
<1>2. "dominators" \in Analyses
  BY DEF Analyses
<1>3. \A a \in Analyses : Got(a) \in Age \ {"none"} /\ (Got(a) = "now" \/ (dirty /\ Got(a) = "sweep"))
  BY DEF Fresh, Caches, Age
<1> HIDE DEF Got, f
<1>4. \A a \in Analyses : f[a] = c[a] \/ (f[a] \in {Got(a), Got("dominators")})
  BY <1>1
<1>5. \A a \in asked : f[a] \in {Got(a), Got("dominators")}
  BY <1>1
<1>6. f \in Caches
  BY <1>1, <1>2, <1>3 DEF Caches
<1>7. Fresh(f, dirty)
  BY <1>2, <1>3, <1>4 DEF Fresh
<1> QED
  BY <1>2, <1>3, <1>5, <1>6, <1>7 DEF f

LEMMA AgedFresh ==
  ASSUME NEW c \in Caches, NEW dirty \in BOOLEAN, Fresh(c, dirty)
  PROVE  /\ Aged(c) \in Caches /\ Fresh(Aged(c), TRUE)
         /\ \A a \in Analyses : c[a] # "none" => Aged(c)[a] # "none"
  BY DEF Aged, Fresh, Caches, Age

LEMMA OutlivedFresh ==
  ASSUME NEW c \in Caches, Fresh(c, FALSE)
  PROVE  Outlived(c) = c
<1>1. \A a \in Analyses : c[a] # "sweep"
  BY DEF Fresh
<1>2. c = [a \in Analyses |-> c[a]]
  BY DEF Caches
<1> QED
  BY <1>1, <1>2 DEF Outlived

-----------------------------------------------------------------------------
(***************************************************************************)
(* The invariant                                                           *)
(***************************************************************************)
\* The graph that is looked at: of the running pass, or of the last stage.
Current == IF work = << >> THEN "context" ELSE Graph

\* A pass will look at g again; the last stage looks at the context's graph.
Visits(p, g) == p[1] = g
Pending(g) == g = "context" \/ \E i \in 1 .. Len(work) : Visits(work[i], g)

WorkInv == work \in Seq(Graphs \X Passes) /\ SimpleAllLast(work)

StageInv ==
  /\ flags \in Flags /\ stage \in 0 .. LastStage + 1 /\ outcome \in {"none", "ok", "error"}
  /\ begun \in BOOLEAN /\ rtl \in BOOLEAN /\ (rtl <=> stage > 0) /\ group \in Nat \X Nat
  /\ work # << >> => begun /\ stage \in {1, 2}
  /\ begun => stage \in {1, 2, LastStage}
  /\ layout \in {"none", "now", "old"}
  /\ stage # 0 /\ (begun => stage = LastStage) => layout = "now"

SweepPasses == {"relax", "eager", "cross jump"}

PassInv ==
  /\ held \subseteq Analyses /\ rewritten \in BOOLEAN /\ sweep \in Nat
  /\ work = << >> => sweep = 0 /\ ~rewritten /\ (held # {} => stage = LastStage /\ begun)
  /\ work # << >> /\ sweep = 0 => held = {} /\ ~rewritten
  /\ work # << >> /\ Pass \in {"simple", "simple all"} => sweep = 0
  /\ work # << >> /\ Pass \in SweepPasses /\ held = {} => ~rewritten

CacheInv ==
  /\ cache \in [Graphs -> Caches]
  /\ \A g \in Graphs : Pending(g) => Fresh(cache[g], rewritten /\ g = Current)
  /\ \A a \in held : cache[Current][a] # "none"

PipelineInv == WorkInv /\ StageInv /\ PassInv /\ CacheInv

LEMMA Heading ==
  ASSUME WorkInv
  PROVE  /\ Current \in Graphs /\ Pending(Current)
         /\ work # << >> => /\ Graph \in Graphs /\ Pass \in Passes /\ Current = Graph
                            /\ 1 \in 1 .. Len(work) /\ Visits(work[1], Graph)
<1>1. CASE work = << >>
  BY <1>1 DEF Current, Graphs, Pending
<1>2. CASE work # << >>
  <2>1. work[1] \in Graphs \X Passes /\ 1 \in 1 .. Len(work)
    BY <1>2 DEF WorkInv
  <2>2. work[1][1] \in Graphs /\ work[1][2] \in Passes
    BY <2>1
  <2> QED
    BY <1>2, <2>1, <2>2 DEF Current, Pending, Visits, Graph, Pass
<1> QED
  BY <1>1, <1>2

LEMMA InvariantSays == PipelineInv => AnalysesCurrent /\ TypeOK
<1> SUFFICES ASSUME PipelineInv PROVE AnalysesCurrent /\ TypeOK
  OBVIOUS
<1>1. Current \in Graphs /\ Pending(Current)
  BY Heading DEF PipelineInv
<1>2. \A a \in held : cache[Current][a] \in {"now"} \union (IF rewritten THEN {"sweep"} ELSE {})
  <2> TAKE a \in held
  <2>1. a \in Analyses /\ cache[Current][a] # "none"
    BY DEF PipelineInv, PassInv, CacheInv
  <2>2. Fresh(cache[Current], rewritten)
    BY <1>1 DEF PipelineInv, CacheInv, Fresh
  <2> QED
    BY <2>1, <2>2 DEF Fresh
<1>3. AnalysesCurrent
  BY <1>2 DEF AnalysesCurrent, Current, PipelineInv, StageInv, LastStage
<1>4. work \in Seq({"context", "copy"} \X {"simple", "simple all", "target", "relax",
                                           "eager", "cross jump"})
  BY DEF PipelineInv, WorkInv, Graphs, Passes
<1>5. cache \in [{"context", "copy"} -> [Analyses -> Age]]
  BY DEF PipelineInv, CacheInv, Graphs, Caches
<1>6. layout \in Age \ {"sweep"}
  BY DEF PipelineInv, StageInv, Age
<1>7. TypeOK
  BY <1>4, <1>5, <1>6 DEF TypeOK, PipelineInv, StageInv, PassInv
<1> QED
  BY <1>3, <1>7

LEMMA PipelineInit == Init => PipelineInv
<1> SUFFICES ASSUME Init PROVE PipelineInv
  OBVIOUS
<1>1. WorkInv
  BY DEF Init, WorkInv, SimpleAllLast
<1>2. StageInv
  <2>1. flags \in Flags /\ stage \in 0 .. LastStage + 1 /\ group \in Nat \X Nat
    BY DEF Init, LastStage
  <2>2. begun = FALSE /\ rtl = FALSE /\ stage = 0 /\ work = << >>
    BY DEF Init
  <2>4. begun \in BOOLEAN /\ rtl \in BOOLEAN /\ (rtl <=> stage > 0)
    <3>1. begun \in BOOLEAN /\ rtl \in BOOLEAN /\ ~rtl
      BY <2>2
    <3>2. ~(stage > 0)
      BY <2>2
    <3> QED
      BY <3>1, <3>2
  <2>3. outcome \in {"none", "ok", "error"} /\ layout \in {"none", "now", "old"}
    BY DEF Init
  <2> QED
    BY <2>1, <2>2, <2>3, <2>4 DEF StageInv
<1>3. PassInv
  BY DEF Init, PassInv
<1>4. CacheInv
  BY NothingCached DEF Init, CacheInv, Graphs, Caches
<1> QED
  BY <1>1, <1>2, <1>3, <1>4 DEF PipelineInv

-----------------------------------------------------------------------------
(***************************************************************************)
(* The steps of a pass                                                     *)
(***************************************************************************)
\* A pass is over: the rest of the stage's passes are as they were.
LEMMA Shorter ==
  ASSUME WorkInv, work # << >>, work' = Tail(work)
  PROVE  /\ WorkInv' /\ \A g \in Graphs : Pending(g)' => Pending(g)
         /\ DropsBlocks(work[1]) => Graph = "copy" /\ ~Pending("copy")'
<1>1. /\ work \in Seq(Graphs \X Passes) /\ SimpleAllLast(work)
  BY DEF WorkInv
<1>2. /\ Tail(work) \in Seq(Graphs \X Passes) /\ SimpleAllLast(Tail(work))
      /\ \A i \in 1 .. Len(Tail(work)) : i + 1 \in 2 .. Len(work) /\ Tail(work)[i] = work[i + 1]
  BY <1>1, TailKeeps
<1>3. WorkInv'
  BY <1>2 DEF WorkInv
<1>4. \A i \in 1 .. Len(Tail(work)) : i + 1 \in 1 .. Len(work)
  BY <1>1, <1>2
<1>5. \A g \in Graphs : Pending(g)' => Pending(g)
  BY <1>2, <1>4 DEF Pending
<1>6. ASSUME DropsBlocks(work[1]) PROVE Graph = "copy" /\ ~Pending("copy")'
  <2>1. 1 \in 1 .. Len(work) /\ 1 + 1 = 2
    BY <1>1, Heading
  <2>2. OfCopy(work[1]) /\ \A j \in 1 + 1 .. Len(work) : OfContext(work[j])
    BY <1>1, <1>6, <2>1 DEF SimpleAllLast
  <2>3. \A i \in 1 .. Len(Tail(work)) : OfContext(Tail(work)[i])
    BY <1>2, <2>1, <2>2
  <2>4. "copy" # "context"
    OBVIOUS
  <2>5. \A i \in 1 .. Len(Tail(work)) : ~Visits(Tail(work)[i], "copy")
    BY <2>3, <2>4 DEF OfContext, Visits
  <2>6. ~Pending("copy")'
    BY <2>4, <2>5 DEF Pending
  <2> QED
    BY <2>2, <2>6 DEF OfCopy, Graph
<1> QED
  BY <1>3, <1>5, <1>6

\* What every step of a pass leaves alone, and that no stage reads the layout meanwhile.
LEMMA WhileWorking ==
  ASSUME StageInv, work # << >>, UNCHANGED context, layout' \in {"none", "now", "old"}
  PROVE  StageInv'
  BY DEF StageInv, context, LastStage

LEMMA EndPassKeeps ==
  ASSUME PipelineInv, work # << >>, NEW any \in BOOLEAN, rewritten => any, EndPass(any)
  PROVE  PipelineInv'
<1>0. WorkInv /\ StageInv /\ PassInv /\ CacheInv
  BY DEF PipelineInv
<1>1. /\ work' = Tail(work) /\ held' = {} /\ sweep' = 0 /\ rewritten' = FALSE
      /\ UNCHANGED <<context, layout>>
      /\ IF any THEN InvalidateAll(Graph) ELSE UNCHANGED cache
  BY DEF EndPass
<1>2. WorkInv' /\ \A g \in Graphs : Pending(g)' => Pending(g)
  BY <1>0, <1>1, Shorter
<1>3. StageInv'
  BY <1>0, <1>1, WhileWorking DEF StageInv
<1>4. PassInv'
  BY <1>1 DEF PassInv
<1>5. CacheInv'
  <2>1. Graph \in Graphs /\ Current = Graph
    BY <1>0, Heading
  <2>2. CASE any
    <3>1. cache' = [cache EXCEPT ![Graph] = NoAnalyses] /\ cache \in [Graphs -> Caches]
      BY <1>0, <1>1, <2>2 DEF InvalidateAll, CacheInv
    <3>2. cache' \in [Graphs -> Caches]
      BY <2>1, <3>1, NothingCached
    <3>3. \A g \in Graphs : Pending(g)' => Fresh(cache'[g], FALSE)
      <4> SUFFICES ASSUME NEW g \in Graphs, Pending(g)' PROVE Fresh(cache'[g], FALSE)
        OBVIOUS
      <4>1. CASE g = Graph
        BY <2>1, <3>1, <4>1, NothingCached
      <4>2. CASE g # Graph
        <5>1. cache'[g] = cache[g] /\ Fresh(cache[g], rewritten /\ g = Current)
          BY <1>0, <1>2, <3>1, <4>2 DEF CacheInv
        <5> QED
          BY <2>1, <4>2, <5>1 DEF Fresh
      <4> QED
        BY <4>1, <4>2
    <3> QED
      BY <1>1, <3>2, <3>3 DEF CacheInv, Fresh
  <2>3. CASE ~any
    <3>1. cache' = cache /\ ~rewritten
      BY <1>1, <2>3
    <3> QED
      BY <1>0, <1>1, <1>2, <3>1 DEF CacheInv, Fresh
  <2> QED
    BY <2>2, <2>3
<1> QED
  BY <1>2, <1>3, <1>4, <1>5 DEF PipelineInv

\* One graph's cache is replaced while its pass runs on.
LEMMA CacheReplaced ==
  ASSUME PipelineInv, work # << >>, UNCHANGED work, NEW c \in Caches,
         cache' = [cache EXCEPT ![Graph] = c], Fresh(c, rewritten'),
         \A a \in held' : c[a] # "none"
  PROVE  CacheInv'
<1>0. WorkInv /\ CacheInv
  BY DEF PipelineInv
<1>1. Graph \in Graphs /\ Current = Graph /\ Current' = Current
  BY <1>0, Heading DEF Current, Graph
<1>2. cache \in [Graphs -> Caches]
  BY <1>0 DEF CacheInv
<1>3. cache' \in [Graphs -> Caches] /\ cache'[Graph] = c
  BY <1>1, <1>2
<1>4. ASSUME NEW g \in Graphs, Pending(g)' PROVE Fresh(cache'[g], rewritten' /\ g = Current')
  <2>1. CASE g = Graph
    BY <1>1, <1>3, <2>1 DEF Fresh
  <2>2. CASE g # Graph
    <3>1. cache'[g] = cache[g] /\ Pending(g)
      BY <1>2, <1>4, <2>2 DEF Pending
    <3>2. Fresh(cache[g], rewritten /\ g = Current)
      BY <1>0, <3>1 DEF CacheInv
    <3> QED
      BY <1>1, <2>2, <3>1, <3>2 DEF Fresh
  <2> QED
    BY <2>1, <2>2
<1> QED
  BY <1>1, <1>3, <1>4 DEF CacheInv

LEMMA CacheStands ==
  ASSUME PipelineInv, UNCHANGED <<work, cache>>, rewritten' = rewritten, held' \subseteq held
  PROVE  CacheInv'
<1>1. CacheInv /\ Current' = Current /\ \A g : Pending(g)' <=> Pending(g)
  BY DEF PipelineInv, Current, Graph, Pending
<1> QED
  BY <1>1 DEF CacheInv

LEMMA WorkStands ==
  ASSUME PipelineInv, UNCHANGED work
  PROVE  WorkInv' /\ Graph' = Graph /\ Pass' = Pass
  BY DEF PipelineInv, WorkInv, Graph, Pass

LEMMA PassStepKeeps ==
  ASSUME PipelineInv, PassStep
  PROVE  PipelineInv'
<1>0. WorkInv /\ StageInv /\ PassInv /\ CacheInv
  BY DEF PipelineInv
<1>1. work # << >>
  BY DEF PassStep, SimplePass, SimpleAllPass, BeginTargets, FetchForTarget, EndTargets,
         SkipCrossJump, BeginSweep, EndSweep, ReconcileTargetHeader, UnscheduleRelaxed,
         UnscheduleEagerThread, DuplicateTail, Sweeping, InPass
<1>2. Graph \in Graphs /\ Pass \in Passes /\ Current = Graph /\ Pending(Graph)
  BY <1>0, <1>1, Heading
<1>3. /\ cache \in [Graphs -> Caches] /\ cache[Graph] \in Caches /\ Fresh(cache[Graph], rewritten)
      /\ \A a \in held : cache[Graph][a] # "none"
      /\ rewritten \in BOOLEAN /\ held \subseteq Analyses /\ sweep \in Nat
  BY <1>0, <1>2 DEF CacheInv, PassInv, Fresh
<1>13. ASSUME held' \subseteq Analyses, rewritten' \in BOOLEAN, sweep' \in Nat \ {0}, UNCHANGED work,
              Pass \notin {"simple", "simple all"},
              Pass \in SweepPasses /\ held' = {} => ~rewritten'
       PROVE  PassInv'
  <2>1. work' # << >> /\ Pass' = Pass /\ sweep' # 0
    BY <1>1, <1>13, WorkStands
  <2> QED
    BY <1>13, <2>1 DEF PassInv, SweepPasses
<1>4. CASE SimplePass
  <2>1. PICK changes \in BOOLEAN :
          /\ IF changes THEN InvalidateAll(Graph) ELSE UNCHANGED cache
          /\ layout' = IF changes /\ Graph = "context" /\ layout = "now" THEN "old" ELSE layout
    BY <1>4 DEF SimplePass
  <2>2. /\ held = {} /\ sweep = 0 /\ ~rewritten /\ work' = Tail(work)
        /\ UNCHANGED <<context, held, sweep, rewritten>>
    BY <1>0, <1>1, <1>4 DEF SimplePass, InPass, PassInv, pass
  <2>3. WorkInv' /\ \A g \in Graphs : Pending(g)' => Pending(g)
    BY <1>0, <1>1, <2>2, Shorter
  <2>4. layout' \in {"none", "now", "old"}
    BY <1>0, <2>1 DEF StageInv
  <2>5. StageInv'
    BY <1>0, <1>1, <2>2, <2>4, WhileWorking
  <2>6. PassInv'
    BY <1>0, <2>2 DEF PassInv
  <2>7. CacheInv'
    <3>1. cache' \in [Graphs -> Caches] /\ \A g \in Graphs : cache'[g] \in {cache[g], NoAnalyses}
      BY <1>2, <1>3, <2>1, NothingCached DEF InvalidateAll
    <3>2. \A g \in Graphs : Pending(g)' => Fresh(cache'[g], FALSE)
      <4> SUFFICES ASSUME NEW g \in Graphs, Pending(g)' PROVE Fresh(cache'[g], FALSE)
        OBVIOUS
      <4>1. Fresh(cache[g], rewritten /\ g = Current)
        BY <1>0, <2>3 DEF CacheInv
      <4> QED
        BY <2>2, <3>1, <4>1, NothingCached DEF Fresh
    <3> QED
      BY <2>2, <3>1, <3>2 DEF CacheInv, Fresh
  <2> QED
    BY <2>3, <2>5, <2>6, <2>7 DEF PipelineInv
<1>5. CASE SimpleAllPass
  <2>1. /\ held = {} /\ sweep = 0 /\ ~rewritten /\ work' = Tail(work) /\ Pass = "simple all"
        /\ UNCHANGED <<context, layout, held, sweep, rewritten>>
        /\ InvalidateAll(Graph) \/ UNCHANGED cache \/ cache' = [cache EXCEPT ![Graph] = Aged(@)]
    BY <1>0, <1>1, <1>5 DEF SimpleAllPass, InPass, PassInv, pass
  <2>2. WorkInv' /\ \A g \in Graphs : Pending(g)' => Pending(g)
    BY <1>0, <1>1, <2>1, Shorter
  <2>3. Graph = "copy" /\ ~Pending("copy")'
    BY <1>0, <1>1, <2>1, Shorter DEF DropsBlocks, Pass
  <2>4. StageInv'
    BY <1>0, <1>1, <2>1, WhileWorking DEF StageInv
  <2>5. PassInv'
    BY <1>0, <2>1 DEF PassInv
  <2>6. CacheInv'
    <3>1. Aged(cache[Graph]) \in Caches
      BY <1>3, AgedFresh
    <3>2. cache' \in [Graphs -> Caches] /\ \A g \in Graphs : g # Graph => cache'[g] = cache[g]
      BY <1>2, <1>3, <2>1, <3>1, NothingCached DEF InvalidateAll
    <3>3. \A g \in Graphs : Pending(g)' => Fresh(cache'[g], FALSE)
      BY <1>0, <2>1, <2>2, <2>3, <3>2 DEF CacheInv, Fresh
    <3> QED
      BY <2>1, <3>2, <3>3 DEF CacheInv, Fresh
  <2> QED
    BY <2>2, <2>4, <2>5, <2>6 DEF PipelineInv
<1>6. CASE BeginSweep
  <2>1. /\ Pass \in SweepPasses /\ held = {} /\ ~rewritten /\ UNCHANGED <<context, work, layout, rewritten>>
        /\ cache' = [cache EXCEPT ![Graph] = Fetched(Outlived(@), Analyses)]
        /\ held' = Analyses /\ sweep' = sweep + 1
    BY <1>0, <1>1, <1>6 DEF BeginSweep, InPass, FetchAnew, PassInv, SweepPasses
  <2> DEFINE c == Fetched(Outlived(cache[Graph]), Analyses)
  <2>2. Fresh(cache[Graph], FALSE)
    BY <1>3, <2>1 DEF Fresh
  <2>3. c \in Caches /\ Fresh(c, FALSE) /\ \A a \in Analyses : c[a] # "none"
    <3>1. Outlived(cache[Graph]) = cache[Graph]
      BY <1>3, <2>2, OutlivedFresh
    <3> QED
      BY <1>3, <2>2, <3>1, FetchedFresh
  <2>4. cache' = [cache EXCEPT ![Graph] = c]
    BY <1>2, <1>3, <2>1
  <2> HIDE DEF c
  <2>5. CacheInv'
    <3>1. Fresh(c, rewritten')
      BY <2>1, <2>3 DEF Fresh
    <3> QED
      BY <1>1, <2>1, <2>3, <2>4, <3>1, CacheReplaced
  <2>6. PassInv'
    <3>1. sweep' \in Nat \ {0}
      BY <1>3, <2>1
    <3>2. Pass \notin {"simple", "simple all"}
      BY <2>1 DEF SweepPasses
    <3>3. held' \subseteq Analyses /\ held' # {}
      BY <2>1 DEF Analyses
    <3>4. rewritten' \in BOOLEAN
      BY <1>3, <2>1
    <3> QED
      BY <1>13, <2>1, <3>1, <3>2, <3>3, <3>4
  <2>7. StageInv' /\ WorkInv'
    BY <1>0, <1>1, <2>1, WhileWorking, WorkStands DEF StageInv
  <2> QED
    BY <2>5, <2>6, <2>7 DEF PipelineInv
<1>7. CASE BeginTargets
  <2>1. /\ Pass = "target" /\ sweep = 0 /\ held = {} /\ ~rewritten
        /\ UNCHANGED <<context, work, layout, held, rewritten>> /\ sweep' = 1
        /\ cache' = [cache EXCEPT ![Graph] = Outlived(@)]
    BY <1>0, <1>1, <1>7 DEF BeginTargets, InPass, PassInv
  <2>2. Outlived(cache[Graph]) = cache[Graph]
    BY <1>3, <2>1, OutlivedFresh DEF Fresh
  <2>3. cache' = cache
    BY <1>2, <1>3, <2>1, <2>2
  <2>4. CacheInv' /\ WorkInv'
    BY <2>1, <2>3, CacheStands, WorkStands
  <2>5. PassInv'
    BY <1>0, <1>1, <2>1, WorkStands DEF PassInv, SweepPasses
  <2>6. StageInv'
    BY <1>0, <1>1, <2>1, WhileWorking DEF StageInv
  <2> QED
    BY <2>4, <2>5, <2>6 DEF PipelineInv
<1>8. CASE FetchForTarget
  <2> DEFINE asked == {"dominators", "loops"}
             c == Fetched(cache[Graph], asked)
  <2>1. /\ Pass = "target" /\ sweep = 1 /\ UNCHANGED <<context, work, layout, sweep, rewritten>>
        /\ cache' = [cache EXCEPT ![Graph] = Fetched(@, asked)] /\ held' = asked
    BY <1>8 DEF FetchForTarget, InPass, Fetch
  <2>2. asked \in SUBSET Analyses
    BY DEF Analyses
  <2>3. c \in Caches /\ Fresh(c, rewritten) /\ \A a \in asked : c[a] # "none"
    <3> HIDE DEF asked
    <3> QED
      BY <1>3, <2>2, FetchedFresh
  <2>4. cache' = [cache EXCEPT ![Graph] = c]
    BY <1>2, <1>3, <2>1
  <2> HIDE DEF c, asked
  <2>5. CacheInv'
    <3>1. Fresh(c, rewritten')
      BY <2>1, <2>3
    <3> QED
      BY <1>1, <2>1, <2>3, <2>4, <3>1, CacheReplaced
  <2>6. PassInv'
    BY <1>0, <1>1, <2>1, <2>2, WorkStands DEF PassInv, SweepPasses
  <2>7. StageInv' /\ WorkInv'
    BY <1>0, <1>1, <2>1, WhileWorking, WorkStands DEF StageInv
  <2> QED
    BY <2>5, <2>6, <2>7 DEF PipelineInv
<1>9. CASE EndTargets
  BY <1>1, <1>3, <1>9, EndPassKeeps DEF EndTargets
<1>10. CASE SkipCrossJump
  <2>1. ~rewritten /\ EndPass(FALSE)
    BY <1>0, <1>1, <1>10 DEF SkipCrossJump, PassInv
  <2> QED
    BY <1>1, <2>1, EndPassKeeps
<1>11. CASE EndSweep
  <2>1. CASE rewritten /\ sweep < Sweeps
    <3>1. /\ cache' = [cache EXCEPT ![Graph] = NoAnalyses] /\ held' = {} /\ rewritten' = FALSE
          /\ UNCHANGED <<context, work, layout, sweep>>
      BY <1>11, <2>1 DEF EndSweep, InvalidateAll
    <3>5. sweep > 0
      <4>1. sweep = 0 => ~rewritten
        BY <1>0, <1>1 DEF PassInv
      <4> QED
        BY <1>3, <2>1, <4>1
    <3>2. CacheInv'
      BY <1>1, <3>1, NothingCached, CacheReplaced
    <3>3. PassInv'
      BY <1>0, <1>1, <1>3, <3>1, <3>5, WorkStands DEF PassInv
    <3>4. StageInv' /\ WorkInv'
      BY <1>0, <1>1, <3>1, WhileWorking, WorkStands DEF StageInv
    <3> QED
      BY <3>2, <3>3, <3>4 DEF PipelineInv
  <2>2. CASE ~(rewritten /\ sweep < Sweeps)
    <3>1. EndPass(rewritten \/ sweep > 1) /\ (rewritten \/ sweep > 1) \in BOOLEAN
      BY <1>3, <1>11, <2>2 DEF EndSweep
    <3> QED
      BY <1>1, <3>1, EndPassKeeps
  <2> QED
    BY <2>1, <2>2
<1>12. CASE ReconcileTargetHeader \/ UnscheduleRelaxed \/ UnscheduleEagerThread \/ DuplicateTail
  <2>1. /\ GraphChanges /\ sweep > 0 /\ Pass \notin {"simple", "simple all"}
        /\ Pass \in SweepPasses => held # {}
    BY <1>12 DEF ReconcileTargetHeader, UnscheduleRelaxed, UnscheduleEagerThread, DuplicateTail,
           Sweeping, InPass, SweepPasses
  <2>2. /\ cache' = [cache EXCEPT ![Graph] = Aged(@)]
        /\ layout' = IF Graph = "context" /\ layout = "now" THEN "old" ELSE layout
        /\ rewritten' = TRUE /\ UNCHANGED <<context, work, held, sweep>>
    BY <2>1 DEF GraphChanges
  <2> DEFINE c == Aged(cache[Graph])
  <2>3. c \in Caches /\ Fresh(c, TRUE) /\ \A a \in held : c[a] # "none"
    BY <1>3, AgedFresh
  <2>4. cache' = [cache EXCEPT ![Graph] = c]
    BY <1>2, <1>3, <2>2
  <2> HIDE DEF c
  <2>5. CacheInv'
    BY <1>1, <2>2, <2>3, <2>4, CacheReplaced
  <2>6. PassInv'
    <3>1. sweep' \in Nat \ {0}
      <4>1. sweep' = sweep
        BY <2>2
      <4>2. sweep \in Nat /\ sweep > 0
        BY <1>3, <2>1
      <4> QED
        BY <4>1, <4>2
    <3>2. held' \subseteq Analyses
      BY <1>3, <2>2
    <3>3. rewritten' \in BOOLEAN
      BY <2>2
    <3> QED
      BY <1>13, <2>1, <2>2, <3>1, <3>2, <3>3
  <2>7. layout' \in {"none", "now", "old"}
    BY <1>0, <2>2 DEF StageInv
  <2>8. StageInv' /\ WorkInv'
    BY <1>0, <1>1, <2>2, <2>7, WhileWorking, WorkStands
  <2> QED
    BY <2>5, <2>6, <2>8 DEF PipelineInv
<1> QED
  BY <1>4, <1>5, <1>6, <1>7, <1>8, <1>9, <1>10, <1>11, <1>12 DEF PassStep

-----------------------------------------------------------------------------
(***************************************************************************)
(* The steps of the stages, and of the whole.                              *)
(***************************************************************************)
\* Between stages nothing is held and nothing has rewritten.
LEMMA BetweenStages ==
  ASSUME PipelineInv, ~begun
  PROVE  work = << >> /\ held = {} /\ sweep = 0 /\ rewritten = FALSE
<1>1. work = << >>
  BY DEF PipelineInv, StageInv
<1>2. rewritten \in BOOLEAN /\ sweep = 0 /\ ~rewritten /\ held = {}
  BY <1>1 DEF PipelineInv, PassInv
<1> QED
  BY <1>1, <1>2

\* A stage ends with a layout of the graph as it is.
LEMMA EndStageKeeps ==
  ASSUME PipelineInv, work = << >>, held = {}, EndStage, stage \in 0 .. LastStage,
         UNCHANGED <<work, pass, group>>, layout' = "now", rtl' = TRUE,
         cache' \in [Graphs -> Caches],
         Fresh(cache["context"], FALSE) => Fresh(cache'["context"], FALSE)
  PROVE  PipelineInv'
<1>0. /\ WorkInv /\ StageInv /\ PassInv /\ CacheInv
      /\ work' = work /\ held' = held /\ sweep' = sweep /\ rewritten' = rewritten /\ group' = group
  BY DEF PipelineInv, pass
<1>1. WorkInv'
  BY <1>0, WorkStands
<1>2. StageInv'
  <2>1. /\ flags' = flags /\ stage' = stage + 1 /\ begun' = FALSE
        /\ outcome' \in {"none", "ok", "error"}
    BY DEF EndStage
  <2>2. stage' \in 0 .. LastStage + 1 /\ stage' > 0
    BY <2>1 DEF LastStage
  <2>3. begun' \in BOOLEAN /\ rtl' \in BOOLEAN /\ rtl' /\ ~begun'
    BY <2>1
  <2>4. layout' \in {"none", "now", "old"} /\ work' = << >>
    BY <1>0
  <2>5. flags' \in Flags /\ group' \in Nat \X Nat
    BY <1>0, <2>1 DEF StageInv
  <2> QED
    BY <2>1, <2>2, <2>3, <2>4, <2>5 DEF StageInv
<1>3. PassInv'
  BY <1>0 DEF PassInv
<1>4. CacheInv'
  <2>1. ~rewritten /\ Fresh(cache["context"], FALSE)
    BY <1>0 DEF PassInv, CacheInv, Pending, Graphs, Fresh
  <2>2. \A g \in Graphs : Pending(g)' => g = "context"
    BY <1>0 DEF Pending
  <2> QED
    BY <1>0, <2>1, <2>2 DEF CacheInv, Fresh
<1> QED
  BY <1>1, <1>2, <1>3, <1>4 DEF PipelineInv

\* A stage of passes begins, with a copy of which nothing is cached.
LEMMA BeginPassesKeeps ==
  ASSUME PipelineInv, ~begun, stage \in {1, 2}, BeginStage,
         work' \in Seq(Graphs \X Passes), SimpleAllLast(work'),
         cache' = [cache EXCEPT !["copy"] = NoAnalyses],
         UNCHANGED <<layout, rtl, pass, group>>
  PROVE  PipelineInv'
<1>0. /\ WorkInv /\ StageInv /\ PassInv /\ CacheInv
      /\ work = << >> /\ held' = {} /\ sweep' = 0 /\ rewritten = FALSE /\ rewritten' = FALSE
  BY BetweenStages DEF PipelineInv, pass
<1>1. WorkInv'
  BY DEF WorkInv
<1>2. StageInv'
  <2>1. begun' = TRUE /\ UNCHANGED <<flags, stage, outcome, layout, rtl, group>>
    BY DEF BeginStage
  <2>2. stage' \in {1, 2} /\ begun' \in BOOLEAN /\ begun' /\ stage' # LastStage
    BY <2>1 DEF LastStage
  <2> QED
    BY <1>0, <2>1, <2>2 DEF StageInv
<1>3. PassInv'
  BY <1>0 DEF PassInv
<1>4. CacheInv'
  <2>1. Fresh(cache["context"], FALSE) /\ cache \in [Graphs -> Caches]
    BY <1>0 DEF CacheInv, Pending, Graphs, Fresh
  <2>2. /\ cache' \in [Graphs -> Caches] /\ cache'["copy"] = NoAnalyses
        /\ cache'["context"] = cache["context"]
    BY <2>1, NothingCached DEF Graphs
  <2>3. \A g \in Graphs : Fresh(cache'[g], FALSE)
    BY <2>1, <2>2, NothingCached DEF Graphs
  <2> QED
    BY <1>0, <2>2, <2>3 DEF CacheInv, Fresh
<1> QED
  BY <1>1, <1>2, <1>3, <1>4 DEF PipelineInv

\* A step that leaves the passes and the caches alone.
LEMMA StageKeeps ==
  ASSUME PipelineInv, UNCHANGED <<work, cache, sweep, rewritten>>, held' \subseteq held,
         work = << >>, StageInv', held' # {} => stage' = LastStage /\ begun'
  PROVE  PipelineInv'
<1>1. WorkInv' /\ CacheInv'
  BY WorkStands, CacheStands
<1>2. PassInv'
  BY DEF PipelineInv, PassInv
<1> QED
  BY <1>1, <1>2 DEF PipelineInv
\* A failure, or a step of the last stage, changes how far the whole is.
LEMMA LastStageKeeps ==
  ASSUME PipelineInv, work = << >>, UNCHANGED <<flags, stage, begun, work, cache, layout, rtl,
                                               sweep, rewritten>>,
         held' \in {held, {}}, outcome' \in {"none", "ok", "error"}, group' \in Nat \X Nat
  PROVE  PipelineInv'
<1>1. StageInv'
  BY DEF PipelineInv, StageInv
<1>2. held' # {} => stage' = LastStage /\ begun'
  BY DEF PipelineInv, PassInv
<1> QED
  BY <1>1, <1>2, StageKeeps

\* The regions are found with the analyses of the graph as the passes have left it.
LEMMA RegionsKeep ==
  ASSUME PipelineInv, FetchForRegions
  PROVE  PipelineInv'
<1>0. /\ WorkInv /\ StageInv /\ PassInv /\ CacheInv
      /\ work = << >> /\ held = {} /\ sweep = 0 /\ rewritten = FALSE /\ stage = LastStage
      /\ UNCHANGED <<flags, stage, outcome, work, layout, rtl, sweep, rewritten, group>>
      /\ begun' = TRUE /\ held' = Analyses
  BY BetweenStages DEF PipelineInv, FetchForRegions, AtStage, FetchAnew, BeginStage
<1> DEFINE c == Fetched(Outlived(cache["context"]), Analyses)
<1>1. cache \in [Graphs -> Caches] /\ Fresh(cache["context"], FALSE)
  BY <1>0 DEF CacheInv, Pending, Graphs, Fresh
<1>2. "context" \in Graphs /\ cache["context"] \in Caches
  BY <1>1 DEF Graphs
<1>3. c \in Caches /\ Fresh(c, FALSE) /\ \A a \in Analyses : c[a] # "none"
  <2>1. Outlived(cache["context"]) = cache["context"]
    BY <1>1, <1>2, OutlivedFresh
  <2> QED
    BY <1>1, <1>2, <2>1, FetchedFresh
<1>4. cache' = [cache EXCEPT !["context"] = c]
  BY <1>1, <1>2 DEF FetchForRegions, FetchAnew
<1> HIDE DEF c
<1>5. WorkInv'
  BY <1>0, WorkStands
<1>6. StageInv'
  BY <1>0 DEF StageInv
<1>7. PassInv'
  BY <1>0 DEF PassInv
<1>8. CacheInv'
  <2>1. cache' \in [Graphs -> Caches] /\ cache'["context"] = c
    BY <1>1, <1>2, <1>3, <1>4
  <2>2. Current' = "context" /\ \A g \in Graphs : Pending(g)' => g = "context"
    BY <1>0 DEF Current, Pending
  <2>3. \A g \in Graphs : Pending(g)' => Fresh(cache'[g], rewritten' /\ g = Current')
    BY <1>3, <2>1, <2>2 DEF Fresh
  <2> QED
    BY <1>0, <1>3, <2>1, <2>2, <2>3 DEF CacheInv
<1> QED
  BY <1>5, <1>6, <1>7, <1>8 DEF PipelineInv

LEMMA StageStepKeeps ==
  ASSUME PipelineInv,
         \/ FinalAndGas \/ BuildCfgFails
         \/ SkipStage \/ DbrDelaySlot \/ Jump2CrossJump \/ Lift
         \/ RtlStage
         \/ FetchForRegions \/ Structure \/ AstIteration \/ SetAst \/ RegionsFail
  PROVE  PipelineInv'
<1>0. /\ WorkInv /\ StageInv /\ PassInv /\ CacheInv
      /\ cache \in [Graphs -> Caches] /\ group \in Nat \X Nat /\ stage \in 0 .. LastStage + 1
  BY DEF PipelineInv, CacheInv, StageInv
<1>1. \A stages : AtStage(stages) => work = << >> /\ held = {} /\ ~begun /\ stage \in stages
  BY BetweenStages DEF AtStage
<1>2. ~begun /\ stage > 0 => layout = "now"
  BY <1>0 DEF StageInv
<1>3. stage = LastStage => work = << >> /\ layout = "now"
  BY <1>0 DEF StageInv, LastStage
<1>4. stage > 0 => rtl = TRUE
  BY <1>0 DEF StageInv
<1>5. CASE FinalAndGas
  <2>1. /\ work = << >> /\ held = {} /\ stage \in 0 .. LastStage /\ EndStage
        /\ UNCHANGED <<work, pass, group>> /\ layout' = "now" /\ rtl' = TRUE
    BY <1>1, <1>5 DEF FinalAndGas, LastStage
  <2>2. cache' \in [Graphs -> Caches] /\ cache'["context"] = NoAnalyses
    BY <1>0, <1>5, NothingCached DEF FinalAndGas, Graphs
  <2> QED
    BY <2>1, <2>2, NothingCached, EndStageKeeps
<1>6. CASE SkipStage
  <2>1. /\ work = << >> /\ held = {} /\ ~begun /\ stage \in {1, 2} /\ EndStage
        /\ UNCHANGED <<work, cache, layout, rtl, pass, group>>
    BY <1>1, <1>6 DEF SkipStage
  <2>2. stage \in 0 .. LastStage /\ layout' = "now" /\ rtl' = TRUE
    BY <1>2, <1>4, <2>1 DEF LastStage
  <2>3. cache' \in [Graphs -> Caches] /\ (Fresh(cache["context"], FALSE) => Fresh(cache'["context"], FALSE))
    BY <1>0, <2>1
  <2> QED
    BY <2>1, <2>2, <2>3, EndStageKeeps
<1>7. CASE DbrDelaySlot \/ Jump2CrossJump
  <2>1. /\ ~begun /\ stage \in {1, 2} /\ BeginStage
        /\ cache' = [cache EXCEPT !["copy"] = NoAnalyses]
        /\ UNCHANGED <<layout, rtl, pass, group>>
        /\ work' \in {UnscheduleDelaySlotsOnly \o PreCrossJump, CrossJump \o UnscheduleDelaySlotsOnly}
    BY <1>1, <1>7 DEF DbrDelaySlot, Jump2CrossJump
  <2>2. work' \in Seq(Graphs \X Passes) /\ SimpleAllLast(work')
    BY <2>1, CopyPasses, ContextPasses, Concatenated
  <2> QED
    BY <2>1, <2>2, BeginPassesKeeps
<1>8. CASE Lift
  <2>1. /\ work = << >> /\ stage \in 0 .. LastStage /\ stage # LastStage /\ EndStage
        /\ UNCHANGED <<work, cache, pass, group>> /\ layout' = "now" /\ rtl' = TRUE
    BY <1>8 DEF Lift, LastStage
  <2>2. held = {}
    BY <1>0, <2>1 DEF PassInv
  <2>3. cache' \in [Graphs -> Caches] /\ (Fresh(cache["context"], FALSE) => Fresh(cache'["context"], FALSE))
    BY <1>0, <2>1
  <2> QED
    BY <2>1, <2>2, <2>3, EndStageKeeps
<1>9. CASE RtlStage
  <2>1. /\ work = << >> /\ held = {} /\ ~begun /\ stage \in 3 .. LastStage - 1 /\ EndStage
        /\ layout' = IF stage \in {3, 4} THEN FrameLayout ELSE layout
        /\ UNCHANGED <<work, cache, rtl, pass, group>>
    BY <1>1, <1>9 DEF RtlStage
  <2>2. stage \in 0 .. LastStage /\ stage > 0
    BY <2>1 DEF LastStage
  <2>3. layout' = "now" /\ rtl' = TRUE
    BY <1>2, <1>4, <2>1, <2>2 DEF FrameLayout
  <2>4. cache' \in [Graphs -> Caches] /\ (Fresh(cache["context"], FALSE) => Fresh(cache'["context"], FALSE))
    BY <1>0, <2>1
  <2> QED
    BY <2>1, <2>2, <2>3, <2>4, EndStageKeeps
<1>10. CASE FetchForRegions
  BY <1>10, RegionsKeep
<1>11. CASE Structure
  <2>1. <<1, 0>> \in Nat \X Nat
    OBVIOUS
  <2> QED
    BY <1>0, <1>3, <1>11, <2>1, LastStageKeeps DEF Structure, StageInv
<1>12. CASE AstIteration
  <2>1. /\ stage = LastStage /\ held' = held /\ outcome' = outcome
        /\ UNCHANGED <<flags, stage, begun, work, cache, layout, rtl, sweep, rewritten>>
    BY <1>12 DEF AstIteration, Structured, pass
  <2>2. group' \in Nat \X Nat
    <3>1. PICK w \in Nat, n \in Nat : group = <<w, n>>
      BY <1>0
    <3>2. <<w, n + 1>> \in Nat \X Nat /\ <<w + 1, 0>> \in Nat \X Nat
      OBVIOUS
    <3>3. group[1] = w /\ group[2] = n
      BY <3>1
    <3>4. group' \in {<<w, n + 1>>, <<w + 1, 0>>}
      BY <1>12, <3>3 DEF AstIteration
    <3> QED
      BY <3>2, <3>4
  <2> QED
    BY <1>0, <1>3, <2>1, <2>2, LastStageKeeps DEF StageInv
<1>13. CASE SetAst
  <2>1. /\ stage = LastStage /\ held = {} /\ EndStage
        /\ UNCHANGED <<work, cache, layout, rtl, pass, group>>
    BY <1>13 DEF SetAst, Structured
  <2>2. stage \in 0 .. LastStage /\ stage > 0
    BY <2>1 DEF LastStage
  <2>3. work = << >> /\ layout' = "now" /\ rtl' = TRUE
    BY <1>3, <1>4, <2>1, <2>2
  <2>4. cache' \in [Graphs -> Caches] /\ (Fresh(cache["context"], FALSE) => Fresh(cache'["context"], FALSE))
    BY <1>0, <2>1
  <2> QED
    BY <2>1, <2>2, <2>3, <2>4, EndStageKeeps
<1>14. CASE BuildCfgFails \/ RegionsFail
  <2>1. /\ work = << >> /\ outcome' = "error" /\ held' = held /\ group' = group
        /\ UNCHANGED <<flags, stage, begun, work, cache, layout, rtl, sweep, rewritten>>
    BY <1>1, <1>3, <1>14 DEF BuildCfgFails, RegionsFail, Fail, pass
  <2> QED
    BY <1>0, <2>1, LastStageKeeps
<1> QED
  BY <1>5, <1>6, <1>7, <1>8, <1>9, <1>10, <1>11, <1>12, <1>13, <1>14

\* The inductive invariant of the lifter.  Which passes a stage has left says that the one that
\* may drop blocks without a report is the last to look at the copy, and the rest that every
\* graph still to be looked at has no fact in its cache older than the running sweep
\* (lifter/cfg_pass_pipeline.cc, lifter/cfg_analysis_manager.cc).
THEOREM PipelineInvariance == Spec => []PipelineInv
<1>1. Init => PipelineInv
  BY PipelineInit
<1>2. PipelineInv /\ [Next]_vars => PipelineInv'
  <2> SUFFICES ASSUME PipelineInv, [Next]_vars PROVE PipelineInv'
    OBVIOUS
  <2>1. CASE Next
    BY <2>1, PassStepKeeps, StageStepKeeps DEF Next
  <2>2. CASE UNCHANGED vars
    BY <2>2 DEF vars, PipelineInv, WorkInv, StageInv, PassInv, CacheInv, Pending, Current,
           Graph, Pass
  <2> QED
    BY <2>1, <2>2
<1> QED
  BY <1>1, <1>2, PTL DEF Spec

\* What a pass or the last stage holds by reference is in the cache and is of the graph its sweep
\* began with, and no stage that reads the frame sees the frame of a graph rewritten since, for
\* any number of sweeps and any groups of passes (lifter/cfg_de_reorg.cc,
\* lifter/decompilation_context.cc).
THEOREM AnalysesAreCurrent == Spec => []AnalysesCurrent
<1>1. PipelineInv => AnalysesCurrent
  BY InvariantSays
<1> QED
  BY <1>1, PipelineInvariance, PTL

\* The state of the pipeline has its type, and the RTL is there from the end of the first stage
\* on (lifter/inverse_compiler_pipeline.cc).
THEOREM TypeCorrect == Spec => []TypeOK
<1>1. PipelineInv => TypeOK
  BY InvariantSays
<1> QED
  BY <1>1, PipelineInvariance, PTL

-----------------------------------------------------------------------------
(***************************************************************************)
(* The least and the largest of some numbers, and what holds of all        *)
(* subsets of a finite set because it is kept when an element is added.    *)
(***************************************************************************)
Less == {p \in Nat \X Nat : p[1] < p[2]}

LEMMA LeastNumber ==
  ASSUME NEW T, T \subseteq Nat, T # {}
  PROVE  \E x \in T : \A y \in T : x <= y
<1>1. IsWellFoundedOn(Less, Nat)
  BY NatLessThanWellFounded DEF OpToRel, Less
<1>2. \E x \in T : \A y \in T : <<y, x>> \notin Less
  BY <1>1, WFMin
<1>3. \A x, y \in Nat : <<y, x>> \notin Less => x <= y
  BY DEF Less
<1> QED
  BY <1>2, <1>3

LEMMA LargestNumber ==
  ASSUME NEW n \in Nat, NEW T, T \subseteq 0 .. n, T # {}
  PROVE  \E x \in T : \A y \in T : x >= y
<1> DEFINE Below == {n - y : y \in T}
<1>1. Below \subseteq Nat /\ Below # {}
  <2>1. \A y \in 0 .. n : n - y \in Nat
    OBVIOUS
  <2> QED
    BY <2>1
<1>2. PICK b \in Below : \A y \in Below : b <= y
  BY <1>1, LeastNumber
<1>3. PICK x \in T : b = n - x
  OBVIOUS
<1>4. \A y \in T : x >= y
  <2> TAKE y \in T
  <2>1. n - x <= n - y
    BY <1>2, <1>3
  <2>2. x \in Int /\ y \in Int
    OBVIOUS
  <2> QED
    BY <2>1, <2>2
<1> QED
  BY <1>4

LEMMA AllSubsets ==
  ASSUME NEW V, IsFiniteSet(V), NEW Good, {} \in Good,
         \A T \in SUBSET V : T # {} /\ (\A u \in T : T \ {u} \in Good) => T \in Good
  PROVE  \A T \in SUBSET V : T \in Good
<1> SUFFICES ASSUME NEW T0 \in SUBSET V, T0 \notin Good PROVE FALSE
  OBVIOUS
<1> DEFINE Bad == {T \in SUBSET V : T \notin Good}
           Sizes == {Cardinality(T) : T \in Bad}
<1>1. \A T \in SUBSET V : IsFiniteSet(T) /\ Cardinality(T) \in Nat
  BY FS_Subset, FS_CardinalityType
<1>2. Sizes \subseteq Nat /\ Sizes # {}
  BY <1>1
<1>3. PICK k \in Sizes : \A j \in Sizes : k <= j
  BY <1>2, LeastNumber
<1>4. PICK T \in Bad : k = Cardinality(T)
  OBVIOUS
<1>5. ASSUME NEW u \in T PROVE T \ {u} \in Good
  <2>1. T \ {u} \in SUBSET V /\ T \in SUBSET V
    OBVIOUS
  <2>2. Cardinality(T \ {u}) = Cardinality(T) - 1
    BY <1>1, <2>1, FS_RemoveElement
  <2>3. T \ {u} \in Bad => k <= Cardinality(T \ {u})
    BY <1>3
  <2> QED
    BY <1>1, <1>4, <2>1, <2>2, <2>3
<1> QED
  BY <1>5

LEMMA AllNumbers ==
  ASSUME NEW n \in Nat, NEW Good, 0 \in Good,
         \A k \in 1 .. n : k - 1 \in Good => k \in Good
  PROVE  \A k \in 0 .. n : k \in Good
<1> SUFFICES ASSUME NEW k0 \in 0 .. n, k0 \notin Good PROVE FALSE
  OBVIOUS
<1> DEFINE Bad == {k \in 0 .. n : k \notin Good}
<1>1. PICK k \in Bad : \A j \in Bad : k <= j
  <2>1. Bad \subseteq Nat /\ Bad # {}
    OBVIOUS
  <2> QED
    BY <2>1, LeastNumber
<1>2. k \in 1 .. n /\ k - 1 \in 0 .. n
  OBVIOUS
<1>3. k - 1 \notin Bad
  BY <1>1, <1>2
<1> QED
  BY <1>2, <1>3

(***************************************************************************)
(* A recursion over numbers: each value is made from the one before.       *)
(***************************************************************************)
Recursion(n, base, step, f) ==
  f[0] = base /\ \A i \in 1 .. n : f[i] = step[<<i, f[i - 1]>>]

LEMMA RecursionExists ==
  ASSUME NEW n \in Nat, NEW X, NEW base \in X, NEW step \in [(1 .. n) \X X -> X]
  PROVE  \E f \in [0 .. n -> X] : Recursion(n, base, step, f)
<1> DEFINE Good == {k \in 0 .. n : \E f \in [0 .. k -> X] : Recursion(k, base, step, f)}
<1>1. 0 \in Good
  <2>1. [i \in 0 .. 0 |-> base] \in [0 .. 0 -> X]
    OBVIOUS
  <2>2. Recursion(0, base, step, [i \in 0 .. 0 |-> base])
    BY DEF Recursion
  <2> QED
    BY <2>1, <2>2
<1>2. ASSUME NEW k \in 1 .. n, k - 1 \in Good PROVE k \in Good
  <2>1. PICK f \in [0 .. k - 1 -> X] : Recursion(k - 1, base, step, f)
    BY <1>2
  <2> DEFINE h == [i \in 0 .. k |-> IF i = k THEN step[<<k, f[k - 1]>>] ELSE f[i]]
  <2>2. h \in [0 .. k -> X]
    <3>1. step[<<k, f[k - 1]>>] \in X
      BY <2>1
    <3>2. \A i \in 0 .. k : i # k => i \in 0 .. k - 1
      OBVIOUS
    <3> QED
      BY <2>1, <3>1, <3>2
  <2>3. h[0] = base
    BY <2>1 DEF Recursion
  <2>4. ASSUME NEW i \in 1 .. k PROVE h[i] = step[<<i, h[i - 1]>>]
    <3>1. h[i - 1] = f[i - 1]
      OBVIOUS
    <3>2. i # k => i \in 1 .. k - 1
      OBVIOUS
    <3>3. i # k => h[i] = f[i] /\ f[i] = step[<<i, f[i - 1]>>]
      BY <2>1, <3>2 DEF Recursion
    <3>4. i = k => h[i] = step[<<k, f[k - 1]>>]
      OBVIOUS
    <3> HIDE DEF h
    <3> QED
      BY <3>1, <3>3, <3>4
  <2>5. k \in 0 .. n
    OBVIOUS
  <2> HIDE DEF h
  <2>6. Recursion(k, base, step, h)
    BY <2>3, <2>4 DEF Recursion
  <2> QED
    BY <2>2, <2>5, <2>6
<1>3. \A k \in 0 .. n : k \in Good
  <2> HIDE DEF Good
  <2> QED
    BY <1>1, <1>2, AllNumbers
<1> QED
  BY <1>3

-----------------------------------------------------------------------------
(***************************************************************************)
(* Reach(edges, A) is the least set that has A and that no edge leaves.    *)
(***************************************************************************)
Closed(edges, S) == \A e \in edges : e[1] \in S => e[2] \in S

Grown(edges, S) == S \union {e[2] : e \in {d \in edges : d[1] \in S}}

IsReached(edges, A, f) ==
  f = [k \in 0 .. N + 1 |-> IF k = 0 THEN A ELSE Grown(edges, f[k - 1])]

LEMMA ReachIsChosen ==
  ASSUME NEW edges, NEW A
  PROVE  Reach(edges, A) = (CHOOSE f : IsReached(edges, A, f))[N + 1]
  BY DEF Reach, IsReached, Grown

LEMMA ReachedExists ==
  ASSUME NEW edges, edges \subseteq Nodes \X Nodes, NEW A, A \subseteq Nodes
  PROVE  \E f : IsReached(edges, A, f)
<1> DEFINE step == [p \in (1 .. N + 1) \X SUBSET Nodes |-> Grown(edges, p[2])]
<1>1. N + 1 \in Nat
  BY TreeConstants
<1>2. step \in [(1 .. N + 1) \X SUBSET Nodes -> SUBSET Nodes]
  <2>1. ASSUME NEW S \in SUBSET Nodes PROVE Grown(edges, S) \in SUBSET Nodes
    BY DEF Grown
  <2>2. \A p \in (1 .. N + 1) \X SUBSET Nodes : p[2] \in SUBSET Nodes
    OBVIOUS
  <2> QED
    BY <2>1, <2>2
<1>3. PICK f \in [0 .. N + 1 -> SUBSET Nodes] : Recursion(N + 1, A, step, f)
  <2> HIDE DEF step
  <2> QED
    BY <1>1, <1>2, RecursionExists
<1>4. ASSUME NEW k \in 1 .. N + 1 PROVE f[k] = Grown(edges, f[k - 1])
  <2>1. f[k] = step[<<k, f[k - 1]>>]
    BY <1>3 DEF Recursion
  <2>2. f[k - 1] \in SUBSET Nodes
    BY <1>1
  <2> QED
    BY <2>1, <2>2
<1>5. f[0] = A
  BY <1>3 DEF Recursion
<1> HIDE DEF step
<1>6. f = [k \in 0 .. N + 1 |-> f[k]]
  OBVIOUS
<1>7. \A k \in 0 .. N + 1 : k # 0 => k \in 1 .. N + 1
  BY <1>1
<1>8. IsReached(edges, A, f)
  BY <1>4, <1>5, <1>6, <1>7 DEF IsReached
<1> QED
  BY <1>8

LEMMA NodesFinite == IsFiniteSet(Nodes) /\ Cardinality(Nodes) = N + 1
  BY FS_Interval, TreeConstants DEF Nodes

LEMMA ReachIs ==
  ASSUME NEW edges, edges \subseteq Nodes \X Nodes, NEW A, A \subseteq Nodes
  PROVE  /\ A \subseteq Reach(edges, A)
         /\ Reach(edges, A) \subseteq Nodes
         /\ Closed(edges, Reach(edges, A))
         /\ \A S : A \subseteq S /\ Closed(edges, S) => Reach(edges, A) \subseteq S
<1>1. PICK f : IsReached(edges, A, f) /\ Reach(edges, A) = f[N + 1]
  BY ReachIsChosen, ReachedExists
<1>2. N + 1 \in Nat
  BY TreeConstants
<1>3. f[0] = A /\ \A k \in 1 .. N + 1 : f[k] = Grown(edges, f[k - 1])
  <2>1. \A k \in 0 .. N + 1 : f[k] = IF k = 0 THEN A ELSE Grown(edges, f[k - 1])
    BY <1>1 DEF IsReached
  <2> QED
    BY <1>2, <2>1
<1>4. \A k \in 0 .. N + 1 : A \subseteq f[k] /\ f[k] \subseteq Nodes
  <2> DEFINE Good == {k \in 0 .. N + 1 : A \subseteq f[k] /\ f[k] \subseteq Nodes}
  <2>1. 0 \in Good
    BY <1>2, <1>3
  <2>2. \A k \in 1 .. N + 1 : k - 1 \in Good => k \in Good
    BY <1>2, <1>3 DEF Grown
  <2>3. \A k \in 0 .. N + 1 : k \in Good
    <3> HIDE DEF Good
    <3> QED
      BY <1>2, <2>1, <2>2, AllNumbers
  <2> QED
    BY <2>3
<1>5. ASSUME NEW S, A \subseteq S, Closed(edges, S) PROVE f[N + 1] \subseteq S
  <2> DEFINE Good == {k \in 0 .. N + 1 : f[k] \subseteq S}
  <2>1. 0 \in Good
    BY <1>2, <1>3, <1>5
  <2>2. \A k \in 1 .. N + 1 : k - 1 \in Good => k \in Good
    BY <1>2, <1>3, <1>5 DEF Grown, Closed
  <2>3. \A k \in 0 .. N + 1 : k \in Good
    <3> HIDE DEF Good
    <3> QED
      BY <1>2, <2>1, <2>2, AllNumbers
  <2> QED
    BY <1>2, <2>3
<1>6. Closed(edges, f[N + 1])
  <2> DEFINE Good == {k \in 0 .. N + 1 : Closed(edges, f[k]) \/ Cardinality(f[k]) >= k}
  <2>1. \A k \in 0 .. N + 1 : IsFiniteSet(f[k]) /\ Cardinality(f[k]) \in Nat
    BY <1>4, NodesFinite, FS_Subset, FS_CardinalityType
  <2>2. 0 \in Good
    BY <1>2, <2>1
  <2>3. ASSUME NEW k \in 1 .. N + 1, k - 1 \in Good PROVE k \in Good
    <3>1. CASE Closed(edges, f[k - 1])
      <4>1. Grown(edges, f[k - 1]) = f[k - 1]
        BY <3>1 DEF Grown, Closed
      <4>2. f[k] = f[k - 1]
        BY <1>3, <4>1
      <4> QED
        BY <3>1, <4>2
    <3>2. CASE ~ Closed(edges, f[k - 1])
      <4>1. PICK e \in edges : e[1] \in f[k - 1] /\ e[2] \notin f[k - 1]
        BY <3>2 DEF Closed
      <4> DEFINE More == f[k - 1] \union {e[2]}
      <4>2. More \subseteq f[k]
        BY <1>3, <4>1 DEF Grown
      <4>3. k - 1 \in 0 .. N + 1 /\ k \in 0 .. N + 1
        BY <1>2
      <4>4. Cardinality(f[k - 1]) >= k - 1
        BY <2>3, <3>2
      <4>5. Cardinality(More) = Cardinality(f[k - 1]) + 1
        <5>1. IsFiniteSet(f[k - 1]) /\ e[2] \notin f[k - 1]
          BY <2>1, <4>1, <4>3
        <5> QED
          BY <5>1, FS_AddElement
      <4>6. Cardinality(More) <= Cardinality(f[k])
        <5> HIDE DEF More
        <5> QED
          BY <2>1, <4>2, <4>3, FS_Subset
      <4>7. Cardinality(f[k]) >= k
        <5> HIDE DEF More
        <5> QED
          BY <2>1, <4>3, <4>4, <4>5, <4>6
      <4> QED
        BY <4>3, <4>7
    <3> QED
      BY <3>1, <3>2
  <2>4. \A k \in 0 .. N + 1 : k \in Good
    <3> HIDE DEF Good
    <3> QED
      BY <1>2, <2>2, <2>3, AllNumbers
  <2>5. CASE Closed(edges, f[N + 1])
    BY <2>5
  <2>6. CASE Cardinality(f[N + 1]) >= N + 1
    <3>1. f[N + 1] \in SUBSET Nodes
      BY <1>2, <1>4
    <3>2. Cardinality(f[N + 1]) = Cardinality(Nodes)
      BY <1>2, <2>1, <2>6, <3>1, NodesFinite, FS_Subset
    <3>3. f[N + 1] = Nodes
      BY <3>1, <3>2, NodesFinite, FS_Subset
    <3> QED
      BY <3>3 DEF Closed
  <2> QED
    BY <1>2, <2>4, <2>5, <2>6
<1> QED
  BY <1>1, <1>2, <1>4, <1>5, <1>6

-----------------------------------------------------------------------------
(***************************************************************************)
(* What lists contain: Among selects, and a block's predecessors are the   *)
(* blocks it is a successor of.                                            *)
(***************************************************************************)
LEMMA SetOfAppend ==
  ASSUME NEW X, NEW s \in Seq(X), NEW x
  PROVE  ToSet(Append(s, x)) = ToSet(s) \union {x}
<1>1. DOMAIN Append(s, x) = 1 .. Len(s) + 1 /\ DOMAIN s = 1 .. Len(s) /\ Len(s) \in Nat
  OBVIOUS
<1>2. \A i \in 1 .. Len(s) : Append(s, x)[i] = s[i]
  OBVIOUS
<1>3. Append(s, x)[Len(s) + 1] = x
  OBVIOUS
<1>4. \A i \in 1 .. Len(s) + 1 : i \in 1 .. Len(s) \/ i = Len(s) + 1
  BY <1>1
<1>5. 1 .. Len(s) \subseteq 1 .. Len(s) + 1 /\ Len(s) + 1 \in 1 .. Len(s) + 1
  BY <1>1
<1> QED
  BY <1>1, <1>2, <1>3, <1>4, <1>5 DEF ToSet

LEMMA SetOfBoth ==
  ASSUME NEW X, NEW s \in Seq(X), NEW t \in Seq(X)
  PROVE  ToSet(s \o t) = ToSet(s) \union ToSet(t)
<1>1. /\ DOMAIN (s \o t) = 1 .. Len(s) + Len(t) /\ Len(s) \in Nat /\ Len(t) \in Nat
      /\ DOMAIN s = 1 .. Len(s) /\ DOMAIN t = 1 .. Len(t)
  OBVIOUS
<1>2. \A i \in 1 .. Len(s) + Len(t) :
        (s \o t)[i] = IF i <= Len(s) THEN s[i] ELSE t[i - Len(s)]
  OBVIOUS
<1>3. \A i \in 1 .. Len(s) + Len(t) : (s \o t)[i] \in ToSet(s) \union ToSet(t)
  <2> TAKE i \in 1 .. Len(s) + Len(t)
  <2>1. i \in 1 .. Len(s) \/ (~(i <= Len(s)) /\ i - Len(s) \in 1 .. Len(t))
    BY <1>1
  <2>2. CASE i \in 1 .. Len(s)
    <3>1. (s \o t)[i] = s[i]
      BY <1>1, <1>2, <2>2
    <3> QED
      BY <1>1, <2>2, <3>1 DEF ToSet
  <2>3. CASE ~(i <= Len(s)) /\ i - Len(s) \in 1 .. Len(t)
    <3>1. (s \o t)[i] = t[i - Len(s)]
      BY <1>1, <1>2, <2>3
    <3> QED
      BY <1>1, <2>3, <3>1 DEF ToSet
  <2> QED
    BY <2>1, <2>2, <2>3
<1>4. \A i \in 1 .. Len(s) : s[i] \in ToSet(s \o t)
  <2> TAKE i \in 1 .. Len(s)
  <2>1. i \in 1 .. Len(s) + Len(t) /\ i <= Len(s)
    BY <1>1
  <2> QED
    BY <1>1, <1>2, <2>1 DEF ToSet
<1>5. \A i \in 1 .. Len(t) : t[i] \in ToSet(s \o t)
  <2> TAKE i \in 1 .. Len(t)
  <2>1. /\ Len(s) + i \in 1 .. Len(s) + Len(t) /\ ~(Len(s) + i <= Len(s))
        /\ (Len(s) + i) - Len(s) = i
    BY <1>1
  <2> QED
    BY <1>1, <1>2, <2>1 DEF ToSet
<1> QED
  BY <1>1, <1>3, <1>4, <1>5 DEF ToSet

IsAmong(s, S, f) ==
  f = [i \in 0 .. Len(s) |->
         IF i = 0 THEN << >>
         ELSE IF s[i] \in S THEN Append(f[i - 1], s[i]) ELSE f[i - 1]]

LEMMA AmongIsChosen ==
  ASSUME NEW s, NEW S
  PROVE  Among(s, S) = (CHOOSE f : IsAmong(s, S, f))[Len(s)]
  BY DEF Among, IsAmong

LEMMA AmongExists ==
  ASSUME NEW X, NEW s \in Seq(X), NEW S
  PROVE  \E f : IsAmong(s, S, f)
<1> DEFINE n == Len(s)
           step == [p \in (1 .. n) \X Seq(X) |->
                      IF s[p[1]] \in S THEN Append(p[2], s[p[1]]) ELSE p[2]]
<1>1. n \in Nat /\ << >> \in Seq(X)
  OBVIOUS
<1>2. step \in [(1 .. n) \X Seq(X) -> Seq(X)]
  <2>1. ASSUME NEW p \in (1 .. n) \X Seq(X)
        PROVE  (IF s[p[1]] \in S THEN Append(p[2], s[p[1]]) ELSE p[2]) \in Seq(X)
    <3>1. p[1] \in 1 .. n /\ p[2] \in Seq(X)
      OBVIOUS
    <3>2. s[p[1]] \in X
      BY <3>1
    <3> QED
      BY <3>1, <3>2
  <2> QED
    BY <2>1
<1>3. PICK f \in [0 .. n -> Seq(X)] : Recursion(n, << >>, step, f)
  <2> HIDE DEF step, n
  <2> QED
    BY <1>1, <1>2, RecursionExists
<1>4. ASSUME NEW k \in 1 .. n
      PROVE  f[k] = IF s[k] \in S THEN Append(f[k - 1], s[k]) ELSE f[k - 1]
  <2>1. f[k] = step[<<k, f[k - 1]>>]
    BY <1>3 DEF Recursion
  <2>2. f[k - 1] \in Seq(X)
    BY <1>1
  <2> QED
    BY <2>1, <2>2
<1>5. f[0] = << >>
  BY <1>3 DEF Recursion
<1> HIDE DEF step
<1>6. f = [k \in 0 .. n |-> f[k]]
  OBVIOUS
<1>7. \A k \in 0 .. n : k # 0 => k \in 1 .. n
  BY <1>1
<1>8. IsAmong(s, S, f)
  BY <1>4, <1>5, <1>6, <1>7 DEF IsAmong
<1> QED
  BY <1>8

LEMMA AmongIs ==
  ASSUME NEW X, NEW s \in Seq(X), NEW S
  PROVE  Among(s, S) \in Seq(X) /\ ToSet(Among(s, S)) = ToSet(s) \intersect S
<1>1. PICK f : IsAmong(s, S, f) /\ Among(s, S) = f[Len(s)]
  BY AmongIsChosen, AmongExists
<1> DEFINE First(k) == {s[i] : i \in 1 .. k}
           Good == {k \in 0 .. Len(s) : /\ f[k] \in Seq(X)
                                        /\ ToSet(f[k]) = First(k) \intersect S}
<1>2. Len(s) \in Nat /\ DOMAIN s = 1 .. Len(s)
  OBVIOUS
<1>3. \A k \in 0 .. Len(s) :
        f[k] = IF k = 0 THEN << >>
               ELSE IF s[k] \in S THEN Append(f[k - 1], s[k]) ELSE f[k - 1]
  BY <1>1 DEF IsAmong
<1>4. 0 \in Good
  <2>1. 0 \in 0 .. Len(s)
    BY <1>2
  <2>2. f[0] = << >>
    BY <1>3, <2>1
  <2>3. First(0) = {}
    OBVIOUS
  <2>4. ToSet(<< >>) = {}
    BY DEF ToSet
  <2> HIDE DEF First
  <2>5. f[0] \in Seq(X) /\ ToSet(f[0]) = First(0) \intersect S
    <3>1. << >> \in Seq(X)
      OBVIOUS
    <3> QED
      BY <2>2, <2>3, <2>4, <3>1
  <2> QED
    BY <2>1, <2>5
<1>5. ASSUME NEW k \in 1 .. Len(s), k - 1 \in Good PROVE k \in Good
  <2>1. k \in 0 .. Len(s) /\ k # 0
    BY <1>2
  <2>2. f[k] = IF s[k] \in S THEN Append(f[k - 1], s[k]) ELSE f[k - 1]
    BY <1>3, <2>1
  <2>3. First(k) = First(k - 1) \union {s[k]}
    <3>1. 1 .. k = (1 .. k - 1) \union {k}
      BY <1>2
    <3> QED
      BY <3>1
  <2>4. s[k] \in X /\ f[k - 1] \in Seq(X) /\ ToSet(f[k - 1]) = First(k - 1) \intersect S
    BY <1>5
  <2> HIDE DEF First
  <2>5. CASE s[k] \in S
    <3>1. f[k] = Append(f[k - 1], s[k])
      BY <2>2, <2>5
    <3>2. ToSet(f[k]) = ToSet(f[k - 1]) \union {s[k]}
      BY <2>4, <3>1, SetOfAppend
    <3>3. f[k] \in Seq(X)
      BY <2>4, <3>1
    <3> QED
      BY <2>1, <2>3, <2>4, <2>5, <3>2, <3>3
  <2>6. CASE s[k] \notin S
    BY <2>1, <2>2, <2>3, <2>4, <2>6
  <2> QED
    BY <2>5, <2>6
<1>6. Len(s) \in Good
  <2> HIDE DEF Good
  <2>1. \A k \in 0 .. Len(s) : k \in Good
    BY <1>2, <1>4, <1>5, AllNumbers
  <2> QED
    BY <1>2, <2>1
<1> QED
  BY <1>1, <1>2, <1>6 DEF ToSet

IsFlat(s, f) ==
  f = [i \in 1 .. Len(s) |-> IF i = 1 THEN s[i] ELSE f[i - 1] \o s[i]]

LEMMA FlatIsChosen ==
  ASSUME NEW s, Len(s) # 0
  PROVE  FlattenSeq(s) = (CHOOSE f : IsFlat(s, f))[Len(s)]
  BY DEF FlattenSeq, IsFlat

LEMMA FlatExists ==
  ASSUME NEW X, NEW s \in Seq(Seq(X))
  PROVE  \E f : IsFlat(s, f)
<1> DEFINE n == Len(s)
           step == [p \in (1 .. n) \X Seq(X) |-> p[2] \o s[p[1]]]
<1>1. n \in Nat /\ << >> \in Seq(X)
  OBVIOUS
<1>2. step \in [(1 .. n) \X Seq(X) -> Seq(X)]
  <2>1. ASSUME NEW p \in (1 .. n) \X Seq(X) PROVE p[2] \o s[p[1]] \in Seq(X)
    <3>1. p[1] \in 1 .. n /\ p[2] \in Seq(X)
      OBVIOUS
    <3>2. s[p[1]] \in Seq(X)
      BY <3>1
    <3> QED
      BY <3>1, <3>2
  <2> QED
    BY <2>1
<1>3. PICK h \in [0 .. n -> Seq(X)] : Recursion(n, << >>, step, h)
  <2> HIDE DEF step, n
  <2> QED
    BY <1>1, <1>2, RecursionExists
<1>4. ASSUME NEW k \in 1 .. n PROVE h[k] = h[k - 1] \o s[k]
  <2>1. h[k] = step[<<k, h[k - 1]>>]
    BY <1>3 DEF Recursion
  <2>2. k - 1 \in 0 .. n
    BY <1>1
  <2>3. h[k - 1] \in Seq(X)
    BY <1>3, <2>2
  <2> QED
    BY <2>1, <2>3
<1>5. h[0] = << >>
  BY <1>3 DEF Recursion
<1> DEFINE f == [k \in 1 .. n |-> h[k]]
<1>6. ASSUME NEW k \in 1 .. n PROVE f[k] = IF k = 1 THEN s[k] ELSE f[k - 1] \o s[k]
  <2>1. f[k] = h[k] /\ s[k] \in Seq(X)
    OBVIOUS
  <2>2. CASE k = 1
    <3>1. h[k - 1] = << >>
      BY <1>5, <2>2
    <3>2. h[k] = << >> \o s[k]
      BY <1>4, <3>1
    <3> QED
      BY <2>1, <2>2, <3>2
  <2>3. CASE k # 1
    <3>1. k - 1 \in 1 .. n
      BY <1>1, <2>3
    <3>2. f[k - 1] = h[k - 1]
      BY <3>1
    <3> HIDE DEF f
    <3> QED
      BY <1>4, <2>1, <2>3, <3>2
  <2> QED
    BY <2>2, <2>3
<1>7. f = [k \in 1 .. n |-> f[k]]
  OBVIOUS
<1> HIDE DEF f, step
<1>8. IsFlat(s, f)
  BY <1>6, <1>7 DEF IsFlat
<1> QED
  BY <1>8

LEMMA FlatIs ==
  ASSUME NEW X, NEW s \in Seq(Seq(X)), Len(s) # 0
  PROVE  /\ FlattenSeq(s) \in Seq(X)
         /\ ToSet(FlattenSeq(s)) = UNION {ToSet(s[i]) : i \in 1 .. Len(s)}
<1>1. PICK f : IsFlat(s, f) /\ FlattenSeq(s) = f[Len(s)]
  BY FlatIsChosen, FlatExists
<1> DEFINE First(k) == UNION {ToSet(s[i]) : i \in 1 .. k}
           Good == {k \in 0 .. Len(s) : k = 0 \/ /\ f[k] \in Seq(X)
                                                 /\ ToSet(f[k]) = First(k)}
<1>2. Len(s) \in Nat
  OBVIOUS
<1>3. \A k \in 1 .. Len(s) : f[k] = IF k = 1 THEN s[k] ELSE f[k - 1] \o s[k]
  BY <1>1 DEF IsFlat
<1>4. 0 \in Good
  BY <1>2
<1>5. ASSUME NEW k \in 1 .. Len(s), k - 1 \in Good PROVE k \in Good
  <2>1. k \in 0 .. Len(s) /\ s[k] \in Seq(X)
    BY <1>2
  <2>2. First(k) = First(k - 1) \union ToSet(s[k])
    <3>1. 1 .. k = (1 .. k - 1) \union {k}
      BY <1>2
    <3> QED
      BY <3>1
  <2>3. k = 1 => First(k - 1) = {}
    OBVIOUS
  <2>4. k # 1 => f[k - 1] \in Seq(X) /\ ToSet(f[k - 1]) = First(k - 1)
    BY <1>2, <1>5
  <2> HIDE DEF First
  <2>5. CASE k = 1
    BY <1>3, <2>1, <2>2, <2>3, <2>5
  <2>6. CASE k # 1
    <3>1. f[k] = f[k - 1] \o s[k]
      BY <1>3, <2>6
    <3>2. ToSet(f[k]) = ToSet(f[k - 1]) \union ToSet(s[k])
      BY <2>1, <2>4, <2>6, <3>1, SetOfBoth
    <3>3. f[k] \in Seq(X)
      BY <2>1, <2>4, <2>6, <3>1
    <3> QED
      BY <2>1, <2>2, <2>4, <2>6, <3>2, <3>3
  <2> QED
    BY <2>5, <2>6
<1>6. Len(s) \in Good
  <2> HIDE DEF Good
  <2>1. \A k \in 0 .. Len(s) : k \in Good
    BY <1>2, <1>4, <1>5, AllNumbers
  <2> QED
    BY <1>2, <2>1
<1> QED
  BY <1>1, <1>2, <1>6

LEMMA SameInSeq ==
  ASSUME NEW X, NEW x \in X, NEW c \in Nat
  PROVE  [j \in 1 .. c |-> x] \in Seq(X)
  OBVIOUS

LEMMA PredecessorsAre ==
  ASSUME NEW g \in [Blocks -> Seq(Blocks)], NEW b \in Blocks
  PROVE  /\ Predecessors(g)[b] \in Seq(Blocks)
         /\ ToSet(Predecessors(g)[b]) = {a \in Blocks : b \in ToSet(g[a])}
<1> DEFINE At(k) == {e \in DOMAIN g[k - 1] : g[k - 1][e] = b}
           Edge(k) == [j \in 1 .. Cardinality(At(k)) |-> k - 1]
           s == [k \in 1 .. N |-> Edge(k)]
<1>1. N \in Nat /\ N # 0 /\ \A k \in 1 .. N : k - 1 \in Blocks
  BY TreeConstants DEF Blocks
<1>2. \A k \in 1 .. N : Cardinality(At(k)) \in Nat /\ (Cardinality(At(k)) = 0 <=> At(k) = {})
  <2> TAKE k \in 1 .. N
  <2>1. g[k - 1] \in Seq(Blocks)
    BY <1>1
  <2>2. DOMAIN g[k - 1] = 1 .. Len(g[k - 1]) /\ Len(g[k - 1]) \in Nat
    BY <2>1
  <2>3. IsFiniteSet(DOMAIN g[k - 1])
    <3>1. PICK l \in Nat : DOMAIN g[k - 1] = 1 .. l
      BY <2>2
    <3> QED
      BY <3>1, FS_Interval
  <2>4. IsFiniteSet(At(k))
    BY <2>3, FS_Subset
  <2> HIDE DEF At
  <2> QED
    BY <2>4, FS_CardinalityType, FS_EmptySet
<1> HIDE DEF At
<1>3. \A k \in 1 .. N : Edge(k) \in Seq(Blocks) /\ ToSet(Edge(k)) = IF At(k) = {} THEN {} ELSE {k - 1}
  <2> TAKE k \in 1 .. N
  <2>1. PICK c \in Nat : c = Cardinality(At(k)) /\ (c = 0 <=> At(k) = {})
    BY <1>2
  <2>2. Edge(k) = [j \in 1 .. c |-> k - 1]
    BY <2>1
  <2>3. Edge(k) \in Seq(Blocks)
    BY <1>1, <2>2, SameInSeq
  <2>4. DOMAIN Edge(k) = 1 .. c /\ \A j \in 1 .. c : Edge(k)[j] = k - 1
    BY <2>2
  <2>5. c # 0 => 1 \in 1 .. c
    OBVIOUS
  <2> HIDE DEF Edge
  <2> QED
    BY <2>1, <2>3, <2>4, <2>5 DEF ToSet
<1>4. /\ s \in Seq(Seq(Blocks)) /\ Len(s) = N
      /\ \A k \in 1 .. N : s[k] = Edge(k)
  <2> HIDE DEF Edge
  <2> QED
    BY <1>1, <1>3
<1>5. Predecessors(g)[b] = FlattenSeq(s)
  BY DEF Predecessors, At
<1> HIDE DEF s, Edge
<1>6. FlattenSeq(s) \in Seq(Blocks) /\ ToSet(FlattenSeq(s)) = UNION {ToSet(s[i]) : i \in 1 .. N}
  BY <1>1, <1>4, FlatIs
<1>7. \A a : a \in UNION {ToSet(s[i]) : i \in 1 .. N}
               <=> \E k \in 1 .. N : a = k - 1 /\ At(k) # {}
  <2>1. \A k \in 1 .. N : ToSet(s[k]) = IF At(k) = {} THEN {} ELSE {k - 1}
    BY <1>3, <1>4
  <2>2. \A k \in 1 .. N : \A a : a \in ToSet(s[k]) <=> a = k - 1 /\ At(k) # {}
    BY <2>1
  <2> QED
    BY <2>2
<1>8. \A a \in Blocks : b \in ToSet(g[a]) <=> At(a + 1) # {}
  <2> TAKE a \in Blocks
  <2>1. (a + 1) - 1 = a
    BY <1>1 DEF Blocks
  <2> QED
    BY <2>1 DEF At, ToSet
<1>9. \A a \in Blocks : a + 1 \in 1 .. N /\ a = (a + 1) - 1
  BY <1>1 DEF Blocks
<1>10. \A k \in 1 .. N : (k - 1) + 1 = k
  OBVIOUS
<1>11. \A a : (\E k \in 1 .. N : a = k - 1 /\ At(k) # {}) <=> a \in Blocks /\ b \in ToSet(g[a])
  BY <1>1, <1>8, <1>9, <1>10
<1> QED
  BY <1>5, <1>6, <1>7, <1>11

-----------------------------------------------------------------------------
(***************************************************************************)
(* The tree under construction: up is idom, w numbers the nodes in         *)
(* post-order, r is the root.  Parents have higher numbers.                *)
(***************************************************************************)
In(up) == {n \in Nodes : up[n] # None}

Up(up) == {<<n, up[n]>> : n \in In(up)}

Above(up, n) == Reach(Up(up), {n})

IsTree(up, w, r, last) ==
  /\ up \in [Nodes -> Nodes \union {None}]
  /\ last \in Nat
  /\ r \in In(up) /\ up[r] = r
  /\ \A n \in In(up) : w[n] \in 0 .. last
  /\ \A n \in In(up) \ {r} : up[n] \in In(up) /\ w[n] < w[up[n]]

LEMMA AboveIs ==
  ASSUME NEW up, NEW w, NEW r, NEW last, IsTree(up, w, r, last), NEW n \in In(up)
  PROVE  /\ n \in Above(up, n)
         /\ Above(up, n) \subseteq In(up)
         /\ \A x \in Above(up, n) : up[x] \in Above(up, n)
         /\ \A S : n \in S /\ (\A x \in S \intersect In(up) : up[x] \in S)
                     => Above(up, n) \subseteq S
<1>1. Up(up) \subseteq Nodes \X Nodes /\ {n} \subseteq Nodes
  BY DEF Up, In, IsTree
<1>2. /\ {n} \subseteq Above(up, n) /\ Closed(Up(up), Above(up, n))
      /\ \A S : {n} \subseteq S /\ Closed(Up(up), S) => Above(up, n) \subseteq S
  BY <1>1, ReachIs DEF Above
<1>3. ASSUME NEW S, \A x \in S \intersect In(up) : up[x] \in S PROVE Closed(Up(up), S)
  BY <1>3 DEF Closed, Up
<1>4. Above(up, n) \subseteq In(up)
  <2>1. \A x \in In(up) \intersect In(up) : up[x] \in In(up)
    BY DEF IsTree
  <2>2. Closed(Up(up), In(up))
    BY <1>3, <2>1
  <2> QED
    BY <1>2, <2>2
<1>5. ASSUME NEW x \in Above(up, n) PROVE up[x] \in Above(up, n)
  <2>1. <<x, up[x]>> \in Up(up)
    BY <1>4 DEF Up
  <2>2. <<x, up[x]>>[1] = x /\ <<x, up[x]>>[2] = up[x]
    OBVIOUS
  <2> QED
    BY <1>2, <2>1, <2>2 DEF Closed
<1> QED
  BY <1>2, <1>3, <1>4, <1>5

(* What is above a node above n is above n; it has a higher number. *)
LEMMA AboveChain ==
  ASSUME NEW up, NEW w, NEW r, NEW last, IsTree(up, w, r, last),
         NEW n \in In(up), NEW m \in Above(up, n)
  PROVE  /\ Above(up, m) \subseteq Above(up, n)
         /\ m # n => w[n] < w[m]
         /\ m \in In(up) /\ w[m] \in Nat /\ w[n] \in Nat
<1>1. m \in In(up)
  BY AboveIs
<1>2. Above(up, m) \subseteq Above(up, n)
  <2>1. \A x \in Above(up, n) \intersect In(up) : up[x] \in Above(up, n)
    BY AboveIs
  <2> QED
    BY <1>1, <2>1, AboveIs
<1>3. \A x \in In(up) : w[x] \in Nat
  BY DEF IsTree
<1>4. Above(up, n) \subseteq {x \in In(up) : x = n \/ w[n] < w[x]}
  <2> DEFINE S == {x \in In(up) : x = n \/ w[n] < w[x]}
  <2>1. n \in S
    OBVIOUS
  <2>2. ASSUME NEW x \in S \intersect In(up) PROVE up[x] \in S
    <3>1. CASE x = r
      BY <3>1 DEF IsTree
    <3>2. CASE x # r
      <4>1. up[x] \in In(up) /\ w[x] < w[up[x]]
        BY <3>2 DEF IsTree
      <4> QED
        BY <1>3, <4>1
    <3> QED
      BY <3>1, <3>2
  <2> HIDE DEF S
  <2>3. Above(up, n) \subseteq S
    BY <2>1, <2>2, AboveIs
  <2> QED
    BY <2>3 DEF S
<1> QED
  BY <1>1, <1>2, <1>3, <1>4

LEMMA AboveStep ==
  ASSUME NEW up, NEW w, NEW r, NEW last, IsTree(up, w, r, last), NEW n \in In(up)
  PROVE  up[n] \in In(up) /\ Above(up, n) = {n} \union Above(up, up[n])
<1>1. up[n] \in In(up)
  BY DEF IsTree
<1>2. Above(up, up[n]) \subseteq Above(up, n)
  <2>1. up[n] \in Above(up, n)
    BY AboveIs
  <2> QED
    BY <2>1, AboveChain
<1>3. Above(up, n) \subseteq {n} \union Above(up, up[n])
  <2> DEFINE S == {n} \union Above(up, up[n])
  <2>1. n \in S
    OBVIOUS
  <2>2. \A x \in S \intersect In(up) : up[x] \in S
    BY <1>1, AboveIs
  <2> HIDE DEF S
  <2>3. Above(up, n) \subseteq S
    BY <2>1, <2>2, AboveIs
  <2> QED
    BY <2>3 DEF S
<1> QED
  BY <1>1, <1>2, <1>3, AboveIs

LEMMA RootIsAbove ==
  ASSUME NEW up, NEW w, NEW r, NEW last, IsTree(up, w, r, last), NEW n \in In(up)
  PROVE  r \in Above(up, n) /\ w[n] <= w[r] /\ Above(up, r) = {r}
<1> DEFINE T == {w[x] : x \in Above(up, n)}
<1>1. T \subseteq 0 .. last /\ T # {} /\ last \in Nat
  <2>1. n \in Above(up, n) /\ Above(up, n) \subseteq In(up)
    BY AboveIs
  <2>2. last \in Nat /\ \A x \in In(up) : w[x] \in 0 .. last
    BY DEF IsTree
  <2> QED
    BY <2>1, <2>2
<1>2. PICK top \in T : \A y \in T : top >= y
  <2> HIDE DEF T
  <2> QED
    BY <1>1, LargestNumber
<1>3. PICK x \in Above(up, n) : top = w[x]
  OBVIOUS
<1>4. x = r
  <2> SUFFICES ASSUME x # r PROVE FALSE
    OBVIOUS
  <2>1. x \in In(up) /\ up[x] \in Above(up, n)
    BY AboveIs
  <2>2. w[x] < w[up[x]] /\ w[x] \in Nat /\ w[up[x]] \in Nat
    BY <2>1 DEF IsTree
  <2>3. w[up[x]] \in T
    BY <2>1
  <2> HIDE DEF T
  <2> QED
    BY <1>2, <1>3, <2>2, <2>3
<1>5. r \in Above(up, n)
  BY <1>4
<1>6. w[n] <= w[r]
  BY <1>5, AboveChain
<1>7. Above(up, r) = {r}
  <2>1. \A z \in {r} \intersect In(up) : up[z] \in {r}
    BY DEF IsTree
  <2>2. r \in In(up)
    BY DEF IsTree
  <2> QED
    BY <2>1, <2>2, AboveIs
<1> QED
  BY <1>5, <1>6, <1>7

LEMMA AboveIsLinear ==
  ASSUME NEW up, NEW w, NEW r, NEW last, IsTree(up, w, r, last), NEW n \in In(up),
         NEW x \in Above(up, n), NEW y \in Above(up, n)
  PROVE  x \in Above(up, y) \/ y \in Above(up, x)
<1> DEFINE S == {z \in In(up) : z \in Above(up, y) \/ y \in Above(up, z)}
<1>1. n \in S
  OBVIOUS
<1>2. ASSUME NEW z \in S \intersect In(up) PROVE up[z] \in S
  <2>1. up[z] \in In(up) /\ Above(up, z) = {z} \union Above(up, up[z])
    BY AboveStep
  <2>2. y \in In(up)
    BY AboveIs
  <2>3. CASE z \in Above(up, y)
    BY <2>1, <2>2, <2>3, AboveIs
  <2>4. CASE y = z
    BY <2>1, <2>2, <2>4, AboveIs
  <2>5. CASE y \in Above(up, up[z])
    BY <2>1, <2>5
  <2> QED
    BY <1>2, <2>1, <2>3, <2>4, <2>5
<1>3. Above(up, n) \subseteq S
  <2> HIDE DEF S
  <2> QED
    BY <1>1, <1>2, AboveIs
<1> QED
  BY <1>3

(* Nodes with the same ancestors are the same. *)
LEMMA AboveDiffers ==
  ASSUME NEW up, NEW w, NEW r, NEW last, IsTree(up, w, r, last),
         NEW x \in In(up), NEW y \in In(up), x \in Above(up, y), y \in Above(up, x)
  PROVE  x = y
<1>1. x # y => w[y] < w[x] /\ w[x] \in Nat /\ w[y] \in Nat
  BY AboveChain
<1>2. x # y => w[x] < w[y]
  BY AboveChain
<1> QED
  BY <1>1, <1>2

(* Two nodes have a common ancestor below all others. *)
Meets(up, m, x, y) ==
  m \in In(up) /\ Above(up, m) = Above(up, x) \intersect Above(up, y)

LEMMA MeetExists ==
  ASSUME NEW up, NEW w, NEW r, NEW last, IsTree(up, w, r, last),
         NEW x \in In(up), NEW y \in In(up)
  PROVE  \E m : Meets(up, m, x, y)
<1> DEFINE C == Above(up, x) \intersect Above(up, y)
           T == {w[c] : c \in C}
<1>1. C \subseteq In(up) /\ C # {}
  BY AboveIs, RootIsAbove
<1>2. T \subseteq Nat /\ T # {}
  BY <1>1 DEF IsTree
<1>3. PICK least \in T : \A t \in T : least <= t
  <2> HIDE DEF T
  <2> QED
    BY <1>2, LeastNumber
<1>4. PICK m \in C : least = w[m]
  OBVIOUS
<1>5. \A c \in C : w[m] <= w[c]
  BY <1>3, <1>4
<1>6. Above(up, m) \subseteq C
  BY AboveChain
<1>7. ASSUME NEW c \in C PROVE c \in Above(up, m)
  <2>1. c \in Above(up, m) \/ m \in Above(up, c)
    BY AboveIsLinear
  <2>2. CASE m \in Above(up, c)
    <3>1. c \in In(up) /\ m \in In(up)
      BY <1>1
    <3>2. m # c => w[c] < w[m] /\ w[m] \in Nat /\ w[c] \in Nat
      BY <2>2, <3>1, AboveChain
    <3>3. w[m] <= w[c]
      BY <1>5
    <3> HIDE DEF C
    <3>4. m = c
      BY <3>2, <3>3
    <3> QED
      BY <3>1, <3>4, AboveIs
  <2> QED
    BY <2>1, <2>2
<1> QED
  BY <1>1, <1>6, <1>7 DEF Meets

LEMMA MeetIsOne ==
  ASSUME NEW up, NEW w, NEW r, NEW last, IsTree(up, w, r, last),
         NEW x \in In(up), NEW y \in In(up), NEW m, NEW k, Meets(up, m, x, y),
         Meets(up, k, x, y)
  PROVE  m = k
<1>1. m \in In(up) /\ k \in In(up) /\ Above(up, m) = Above(up, k)
  BY DEF Meets
<1>2. m \in Above(up, k) /\ k \in Above(up, m)
  BY <1>1, AboveIs
<1> QED
  BY <1>1, <1>2, AboveDiffers
-----------------------------------------------------------------------------
(***************************************************************************)
(* Intersect finds the common ancestor of two nodes, and folding it over a *)
(* list finds the common ancestor of all the nodes in it.                  *)
(***************************************************************************)
Number == [n \in Known |-> PostIndex(n)]

Numbered ==
  /\ IsTree(idom, Number, root, Len(order))
  /\ \A x, y \in Known : Number[x] = Number[y] => x = y

IsMeetTable(f) ==
  f = [p \in Known \X Known |->
         IF p[1] = p[2] THEN p[1]
         ELSE IF PostIndex(p[1]) < PostIndex(p[2])
         THEN IF idom[p[1]] \notin {None, p[1]} THEN f[<<idom[p[1]], p[2]>>] ELSE root
         ELSE IF idom[p[2]] \notin {None, p[2]} THEN f[<<p[1], idom[p[2]]>>] ELSE root]

LEMMA IntersectIsChosen ==
  ASSUME NEW x, NEW y
  PROVE  Intersect(x, y) = (CHOOSE f : IsMeetTable(f))[<<x, y>>]
  BY DEF Intersect, IsMeetTable

LEMMA KnownIsIn == Known = In(idom)
  BY DEF Known, In

LEMMA NumberIs == \A x \in Known : Number[x] = PostIndex(x)
  BY DEF Number

LEMMA MeetsTurned ==
  ASSUME NEW up, NEW m, NEW x, NEW y
  PROVE  Meets(up, m, x, y) <=> Meets(up, m, y, x)
  BY DEF Meets

LEMMA MeetOfSame ==
  ASSUME NEW up, NEW x \in In(up)
  PROVE  Meets(up, x, x, x)
  BY DEF Meets

(* The finger with the lower number climbs: it is not a common ancestor. *)
LEMMA Climb ==
  ASSUME Numbered, NEW x \in Known, NEW y \in Known, Number[x] < Number[y]
  PROVE  /\ idom[x] \in Known /\ idom[x] \notin {None, x}
         /\ Number[x] < Number[idom[x]]
         /\ \A m : Meets(idom, m, idom[x], y) <=> Meets(idom, m, x, y)
<1> DEFINE last == Len(order)
<1>1. /\ IsTree(idom, Number, root, last) /\ x \in In(idom) /\ y \in In(idom)
      /\ \A n \in In(idom) : Number[n] \in Nat /\ n \in Nodes
  BY KnownIsIn DEF Numbered, IsTree, In
<1> HIDE DEF last
<1>2. x # root
  <2>1. Number[y] <= Number[root] /\ root \in In(idom)
    BY <1>1, RootIsAbove DEF IsTree
  <2> QED
    BY <1>1, <2>1
<1>3. idom[x] \in In(idom) /\ Number[x] < Number[idom[x]]
  BY <1>1, <1>2 DEF IsTree
<1>4. idom[x] # x
  BY <1>1, <1>3
<1>5. idom[x] # None
  <2>1. idom[x] \in Nodes
    BY <1>1, <1>3
  <2> QED
    BY <2>1, TreeConstants DEF Nodes, None
<1>6. Above(idom, x) = {x} \union Above(idom, idom[x])
  BY <1>1, AboveStep
<1>7. x \notin Above(idom, y)
  <2>1. x \in Above(idom, y) => x = y \/ Number[y] < Number[x]
    BY <1>1, AboveChain
  <2> QED
    BY <1>1, <2>1
<1>8. Above(idom, x) \intersect Above(idom, y)
        = Above(idom, idom[x]) \intersect Above(idom, y)
  BY <1>6, <1>7
<1> QED
  BY <1>3, <1>4, <1>5, <1>8, KnownIsIn DEF Meets

LEMMA MeetTableExists ==
  ASSUME Numbered
  PROVE  \E f : IsMeetTable(f)
<1> DEFINE g == [p \in Known \X Known |-> CHOOSE m : Meets(idom, m, p[1], p[2])]
<1>1. IsTree(idom, Number, root, Len(order))
  BY DEF Numbered
<1>2. ASSUME NEW x \in Known, NEW y \in Known
      PROVE  Meets(idom, g[<<x, y>>], x, y)
  <2>1. g[<<x, y>>] = CHOOSE m : Meets(idom, m, x, y)
    BY <1>2
  <2>2. \E m : Meets(idom, m, x, y)
    BY <1>1, <1>2, MeetExists, KnownIsIn
  <2> HIDE DEF g
  <2> QED
    BY <2>1, <2>2
<1> DEFINE Made(p) ==
             IF p[1] = p[2] THEN p[1]
             ELSE IF PostIndex(p[1]) < PostIndex(p[2])
             THEN IF idom[p[1]] \notin {None, p[1]} THEN g[<<idom[p[1]], p[2]>>] ELSE root
             ELSE IF idom[p[2]] \notin {None, p[2]} THEN g[<<p[1], idom[p[2]]>>] ELSE root
<1>3. ASSUME NEW x \in Known, NEW y \in Known PROVE g[<<x, y>>] = Made(<<x, y>>)
  <2> HIDE DEF g
  <2>1. Number[x] = PostIndex(x) /\ Number[y] = PostIndex(y)
    BY NumberIs
  <2>2. Meets(idom, g[<<x, y>>], x, y)
    BY <1>2
  <2>3. \A m : Meets(idom, m, x, y) => g[<<x, y>>] = m
    BY <1>1, <2>2, MeetIsOne, KnownIsIn
  <2>4. Number[x] \in Nat /\ Number[y] \in Nat
    BY <1>1, KnownIsIn DEF IsTree
  <2>5. CASE x = y
    BY <2>3, <2>5, MeetOfSame, KnownIsIn
  <2>6. CASE x # y /\ Number[x] < Number[y]
    <3>1. /\ idom[x] \in Known /\ idom[x] \notin {None, x}
          /\ \A m : Meets(idom, m, idom[x], y) <=> Meets(idom, m, x, y)
      BY <2>6, Climb
    <3>2. Meets(idom, g[<<idom[x], y>>], idom[x], y)
      BY <1>2, <3>1
    <3>3. g[<<x, y>>] = g[<<idom[x], y>>]
      BY <2>3, <3>1, <3>2
    <3> QED
      BY <2>1, <2>6, <3>1, <3>3
  <2>7. CASE x # y /\ ~(Number[x] < Number[y])
    <3>1. Number[y] < Number[x]
      BY <2>4, <2>7 DEF Numbered
    <3>2. /\ idom[y] \in Known /\ idom[y] \notin {None, y}
          /\ \A m : Meets(idom, m, idom[y], x) <=> Meets(idom, m, y, x)
      BY <3>1, Climb
    <3>3. Meets(idom, g[<<x, idom[y]>>], x, idom[y])
      BY <1>2, <3>2
    <3>4. g[<<x, y>>] = g[<<x, idom[y]>>]
      BY <2>3, <3>2, <3>3, MeetsTurned
    <3> QED
      BY <2>1, <2>7, <3>2, <3>4
  <2> QED
    BY <2>5, <2>6, <2>7
<1>4. \A p \in Known \X Known : g[p] = Made(p)
  <2> TAKE p \in Known \X Known
  <2>1. p = <<p[1], p[2]>> /\ p[1] \in Known /\ p[2] \in Known
    OBVIOUS
  <2> HIDE DEF g, Made
  <2> QED
    BY <1>3, <2>1
<1>5. g = [p \in Known \X Known |-> g[p]]
  OBVIOUS
<1>6. IsMeetTable(g)
  <2> HIDE DEF g
  <2> QED
    BY <1>4, <1>5 DEF IsMeetTable
<1> QED
  BY <1>6

LEMMA MeetTableMeets ==
  ASSUME Numbered, NEW f, IsMeetTable(f), NEW x \in Known, NEW y \in Known
  PROVE  Meets(idom, f[<<x, y>>], x, y)
<1> DEFINE last == Len(order)
           Bad == {p \in Known \X Known : ~ Meets(idom, f[p], p[1], p[2])}
           Sums == {Number[p[1]] + Number[p[2]] : p \in Bad}
<1>1. /\ IsTree(idom, Number, root, last) /\ last \in Nat
      /\ \A n \in Known : Number[n] \in 0 .. last
  BY KnownIsIn DEF Numbered, IsTree
<1> HIDE DEF last
<1> SUFFICES ASSUME ~ Meets(idom, f[<<x, y>>], x, y) PROVE FALSE
  OBVIOUS
<1>2. Sums \subseteq 0 .. (last + last) /\ Sums # {} /\ last + last \in Nat
  <2>1. <<x, y>> \in Bad
    OBVIOUS
  <2>2. \A p \in Bad : Number[p[1]] + Number[p[2]] \in 0 .. (last + last)
    <3> TAKE p \in Bad
    <3>1. Number[p[1]] \in 0 .. last /\ Number[p[2]] \in 0 .. last
      BY <1>1
    <3> QED
      BY <1>1, <3>1
  <2> HIDE DEF Bad
  <2> QED
    BY <1>1, <2>1, <2>2
<1>3. PICK top \in Sums : \A z \in Sums : top >= z
  <2> HIDE DEF Sums
  <2> QED
    BY <1>2, LargestNumber
<1>4. PICK p \in Bad : top = Number[p[1]] + Number[p[2]]
  OBVIOUS
<1>5. PICK a \in Known, b \in Known : p = <<a, b>>
  OBVIOUS
<1>6. ASSUME NEW c \in Known, NEW d \in Known, Number[a] + Number[b] < Number[c] + Number[d]
      PROVE  Meets(idom, f[<<c, d>>], c, d)
  <2>1. <<c, d>> \notin Bad
    <3>1. <<c, d>> \in Bad => Number[c] + Number[d] \in Sums
      OBVIOUS
    <3>2. /\ Number[c] \in Nat /\ Number[d] \in Nat /\ Number[a] \in Nat
          /\ Number[b] \in Nat /\ top = Number[a] + Number[b]
      BY <1>1, <1>4, <1>5
    <3> HIDE DEF Sums, Bad
    <3> QED
      BY <1>3, <1>6, <3>1, <3>2
  <2> QED
    BY <2>1
<1>7. ~ Meets(idom, f[<<a, b>>], a, b)
  BY <1>5
<1>8. /\ Number[a] = PostIndex(a) /\ Number[b] = PostIndex(b)
      /\ Number[a] \in Nat /\ Number[b] \in Nat
  BY <1>1, NumberIs
<1>9. f[<<a, b>>] =
        IF a = b THEN a
        ELSE IF PostIndex(a) < PostIndex(b)
        THEN IF idom[a] \notin {None, a} THEN f[<<idom[a], b>>] ELSE root
        ELSE IF idom[b] \notin {None, b} THEN f[<<a, idom[b]>>] ELSE root
  <2>1. <<a, b>> \in Known \X Known /\ <<a, b>>[1] = a /\ <<a, b>>[2] = b
    OBVIOUS
  <2> HIDE DEF Bad, Sums
  <2> QED
    BY <2>1 DEF IsMeetTable
<1> HIDE DEF Bad, Sums
<1>10. CASE a = b
  <2>1. f[<<a, b>>] = a
    BY <1>9, <1>10
  <2>2. Meets(idom, a, a, b)
    BY <1>10, MeetOfSame, KnownIsIn
  <2> QED
    BY <1>7, <2>1, <2>2
<1>11. CASE a # b /\ Number[a] < Number[b]
  <2>1. /\ idom[a] \in Known /\ idom[a] \notin {None, a} /\ Number[a] < Number[idom[a]]
        /\ \A m : Meets(idom, m, idom[a], b) <=> Meets(idom, m, a, b)
    BY <1>11, Climb
  <2>2. Number[idom[a]] \in Nat
    BY <1>1, <2>1
  <2>3. Number[a] + Number[b] < Number[idom[a]] + Number[b]
    BY <1>8, <2>1, <2>2
  <2>4. Meets(idom, f[<<idom[a], b>>], idom[a], b)
    BY <1>6, <2>1, <2>3
  <2>5. f[<<a, b>>] = f[<<idom[a], b>>]
    BY <1>8, <1>9, <1>11, <2>1
  <2> QED
    BY <1>7, <2>1, <2>4, <2>5
<1>12. CASE a # b /\ ~(Number[a] < Number[b])
  <2>0. Number[b] < Number[a]
    BY <1>8, <1>12 DEF Numbered
  <2>1. /\ idom[b] \in Known /\ idom[b] \notin {None, b} /\ Number[b] < Number[idom[b]]
        /\ \A m : Meets(idom, m, idom[b], a) <=> Meets(idom, m, b, a)
    BY <2>0, Climb
  <2>2. Number[idom[b]] \in Nat
    BY <1>1, <2>1
  <2>3. Number[a] + Number[b] < Number[a] + Number[idom[b]]
    BY <1>8, <2>1, <2>2
  <2>4. Meets(idom, f[<<a, idom[b]>>], a, idom[b])
    BY <1>6, <2>1, <2>3
  <2>5. f[<<a, b>>] = f[<<a, idom[b]>>]
    BY <1>8, <1>9, <1>12, <2>1
  <2> QED
    BY <1>7, <2>1, <2>4, <2>5, MeetsTurned
<1> QED
  BY <1>10, <1>11, <1>12

LEMMA IntersectMeets ==
  ASSUME Numbered, NEW x \in Known, NEW y \in Known
  PROVE  Meets(idom, Intersect(x, y), x, y)
<1>1. PICK f : IsMeetTable(f) /\ Intersect(x, y) = f[<<x, y>>]
  BY IntersectIsChosen, MeetTableExists
<1> QED
  BY <1>1, MeetTableMeets

(* Folding Intersect over a list. *)
IsFold(s, f) ==
  f = [S \in SUBSET DOMAIN s |->
         IF S = {} THEN s[1] ELSE Intersect(s[Max(S)], f[S \ {Max(S)}])]

Folded(s) == FoldLeft(LAMBDA meeting, p : Intersect(p, meeting), s[1], s)

LEMMA FoldIsChosen ==
  ASSUME NEW s
  PROVE  Folded(s) = (CHOOSE f : IsFold(s, f))[DOMAIN s]
  BY DEF Folded, FoldLeft, MapThenFoldSet, IsFold

MeetsAll(s, S, m) ==
  /\ m \in Known
  /\ Above(idom, m) = {a \in Above(idom, s[1]) : \A i \in S : a \in Above(idom, s[i])}

LEMMA LastOfSome ==
  ASSUME NEW l \in Nat, NEW S \in SUBSET (1 .. l), S # {}
  PROVE  Max(S) \in S
<1>1. S \subseteq 0 .. l
  OBVIOUS
<1>2. \E x \in S : \A y \in S : x >= y
  BY <1>1, LargestNumber
<1> QED
  BY <1>2 DEF Max

LEMMA MeetsOneMore ==
  ASSUME NEW s, NEW S, NEW u \in S, NEW m, NEW k, MeetsAll(s, S \ {u}, m),
         Meets(idom, k, s[u], m)
  PROVE  MeetsAll(s, S, k)
  BY KnownIsIn DEF MeetsAll, Meets

LEMMA MeetsAllIsOne ==
  ASSUME Numbered, NEW s, NEW S, NEW m, NEW k, MeetsAll(s, S, m), MeetsAll(s, S, k)
  PROVE  m = k
<1>1. m \in Known /\ k \in Known /\ Above(idom, m) = Above(idom, k)
  BY DEF MeetsAll
<1>2. IsTree(idom, Number, root, Len(order))
  BY DEF Numbered
<1>3. m \in Above(idom, k) /\ k \in Above(idom, m)
  BY <1>1, <1>2, AboveIs, KnownIsIn
<1> QED
  BY <1>1, <1>2, <1>3, AboveDiffers, KnownIsIn

LEMMA MeetsNone ==
  ASSUME NEW s \in Seq(Known), s # << >>
  PROVE  MeetsAll(s, {}, s[1])
  BY DEF MeetsAll

LEMMA IndicesFinite ==
  ASSUME NEW X, NEW s \in Seq(X)
  PROVE  /\ DOMAIN s = 1 .. Len(s) /\ Len(s) \in Nat /\ IsFiniteSet(DOMAIN s)
         /\ \A i \in DOMAIN s : s[i] \in X
<1>1. DOMAIN s = 1 .. Len(s) /\ Len(s) \in Nat /\ \A i \in DOMAIN s : s[i] \in X
  OBVIOUS
<1>2. PICK l \in Nat : DOMAIN s = 1 .. l
  BY <1>1
<1> QED
  BY <1>1, <1>2, FS_Interval

LEMMA MeetOfAllExists ==
  ASSUME Numbered, NEW s \in Seq(Known), s # << >>
  PROVE  \A S \in SUBSET DOMAIN s : \E m : MeetsAll(s, S, m)
<1> DEFINE Good == {S \in SUBSET DOMAIN s : \E m : MeetsAll(s, S, m)}
<1>1. {} \in Good
  BY MeetsNone
<1>2. ASSUME NEW T \in SUBSET DOMAIN s, T # {}, \A u \in T : T \ {u} \in Good
      PROVE  T \in Good
  <2>1. PICK u \in T : TRUE
    BY <1>2
  <2>2. PICK m : MeetsAll(s, T \ {u}, m)
    BY <1>2
  <2>3. s[u] \in Known /\ m \in Known
    BY <2>2, IndicesFinite DEF MeetsAll
  <2>4. PICK k : Meets(idom, k, s[u], m)
    BY <2>3, MeetExists, KnownIsIn DEF Numbered
  <2>5. MeetsAll(s, T, k)
    BY <2>2, <2>4, MeetsOneMore
  <2> QED
    BY <2>5
<1>3. \A S \in SUBSET DOMAIN s : S \in Good
  <2>1. IsFiniteSet(DOMAIN s)
    BY IndicesFinite
  <2> HIDE DEF Good
  <2> QED
    BY <1>1, <1>2, <2>1, AllSubsets
<1> QED
  BY <1>3

LEMMA FoldExists ==
  ASSUME Numbered, NEW s \in Seq(Known), s # << >>
  PROVE  \E f : IsFold(s, f)
<1> DEFINE g == [S \in SUBSET DOMAIN s |-> CHOOSE m : MeetsAll(s, S, m)]
<1>1. ASSUME NEW S \in SUBSET DOMAIN s PROVE MeetsAll(s, S, g[S])
  BY MeetOfAllExists
<1>2. ASSUME NEW S \in SUBSET DOMAIN s
      PROVE  g[S] = IF S = {} THEN s[1] ELSE Intersect(s[Max(S)], g[S \ {Max(S)}])
  <2> HIDE DEF g
  <2>1. CASE S = {}
    BY <1>1, <2>1, MeetsNone, MeetsAllIsOne
  <2>2. CASE S # {}
    <3> DEFINE u == Max(S)
    <3>1. u \in S
      BY <2>2, LastOfSome, IndicesFinite
    <3> HIDE DEF u
    <3>2. MeetsAll(s, S \ {u}, g[S \ {u}])
      BY <1>1
    <3>3. g[S \ {u}] \in Known /\ s[u] \in Known
      BY <3>1, <3>2, IndicesFinite DEF MeetsAll
    <3>4. Meets(idom, Intersect(s[u], g[S \ {u}]), s[u], g[S \ {u}])
      BY <3>3, IntersectMeets
    <3>5. MeetsAll(s, S, Intersect(s[u], g[S \ {u}]))
      BY <3>1, <3>2, <3>4, MeetsOneMore
    <3>6. g[S] = Intersect(s[u], g[S \ {u}])
      BY <1>1, <3>5, MeetsAllIsOne
    <3> QED
      BY <2>2, <3>6 DEF u
  <2> QED
    BY <2>1, <2>2
<1>3. g = [S \in SUBSET DOMAIN s |-> g[S]]
  OBVIOUS
<1>4. IsFold(s, g)
  <2> HIDE DEF g
  <2> QED
    BY <1>2, <1>3 DEF IsFold
<1> QED
  BY <1>4

LEMMA FoldedMeets ==
  ASSUME Numbered, NEW s \in Seq(Known), s # << >>
  PROVE  /\ Folded(s) \in Known
         /\ Above(idom, Folded(s)) = {a \in Known : \A i \in DOMAIN s : a \in Above(idom, s[i])}
<1>1. PICK f : IsFold(s, f) /\ Folded(s) = f[DOMAIN s]
  BY FoldIsChosen, FoldExists
<1>2. \A S \in SUBSET DOMAIN s :
        f[S] = IF S = {} THEN s[1] ELSE Intersect(s[Max(S)], f[S \ {Max(S)}])
  BY <1>1 DEF IsFold
<1> DEFINE Good == {S \in SUBSET DOMAIN s : MeetsAll(s, S, f[S])}
<1>3. {} \in Good
  BY <1>2, MeetsNone
<1>4. ASSUME NEW S \in SUBSET DOMAIN s, S # {}, \A u \in S : S \ {u} \in Good
      PROVE  S \in Good
  <2> DEFINE u == Max(S)
  <2>1. u \in S
    BY <1>4, LastOfSome, IndicesFinite
  <2>2. f[S] = Intersect(s[u], f[S \ {u}])
    BY <1>2, <1>4
  <2> HIDE DEF u
  <2>3. MeetsAll(s, S \ {u}, f[S \ {u}])
    BY <1>4, <2>1
  <2>4. f[S \ {u}] \in Known /\ s[u] \in Known
    BY <2>1, <2>3, IndicesFinite DEF MeetsAll
  <2>5. Meets(idom, Intersect(s[u], f[S \ {u}]), s[u], f[S \ {u}])
    BY <2>4, IntersectMeets
  <2>6. MeetsAll(s, S, Intersect(s[u], f[S \ {u}]))
    BY <2>1, <2>3, <2>5, MeetsOneMore
  <2> QED
    BY <2>2, <2>6
<1>5. \A S \in SUBSET DOMAIN s : S \in Good
  <2>1. IsFiniteSet(DOMAIN s)
    BY IndicesFinite
  <2> HIDE DEF Good
  <2> QED
    BY <1>3, <1>4, <2>1, AllSubsets
<1>6. MeetsAll(s, DOMAIN s, Folded(s))
  BY <1>1, <1>5
<1>7. s[1] \in Known /\ 1 \in DOMAIN s
  BY IndicesFinite
<1>8. Above(idom, s[1]) \subseteq Known
  BY <1>7, AboveIs, KnownIsIn DEF Numbered
<1> QED
  BY <1>6, <1>7, <1>8 DEF MeetsAll
-----------------------------------------------------------------------------
(***************************************************************************)
(* The depth-first search, with finished nodes o, calls st, successors sc  *)
(* and root r.  A finished node's successors are all seen, as are those of *)
(* a call that it is past; the calls are a path from the root; a finished  *)
(* node has a predecessor that finishes later, the root excepted.          *)
(***************************************************************************)
Called(st) == {st[k][1] : k \in DOMAIN st}

Seen(o, st) == ToSet(o) \union Called(st)

EdgesOf(sc) == {e \in Nodes \X Nodes : e[2] \in ToSet(sc[e[1]])}

IsGraph(sc) == sc \in [Nodes -> Seq(Nodes)]

OnceEach(o, st) ==
  /\ \A i, j \in DOMAIN o : o[i] = o[j] => i = j
  /\ \A k, l \in DOMAIN st : st[k][1] = st[l][1] => k = l
  /\ \A i \in DOMAIN o, k \in DOMAIN st : o[i] # st[k][1]

LooksAhead(o, st, sc) ==
  /\ \A i \in DOMAIN o : ToSet(sc[o[i]]) \subseteq Seen(o, st)
  /\ \A k \in DOMAIN st : \A j \in DOMAIN sc[st[k][1]] :
       j < st[k][2] => sc[st[k][1]][j] \in Seen(o, st)

IsPath(st, sc, r) ==
  /\ st # << >> => st[1][1] = r
  /\ \A k \in DOMAIN st : k # 1 => st[k][1] \in ToSet(sc[st[k - 1][1]])

LaterParent(o, st, sc, i) ==
  \/ \E k \in DOMAIN st : o[i] \in ToSet(sc[st[k][1]])
  \/ \E j \in DOMAIN o : i < j /\ o[i] \in ToSet(sc[o[j]])

HasParents(o, st, sc, r) ==
  \A i \in DOMAIN o : o[i] = r \/ LaterParent(o, st, sc, i)

Calls == Nodes \X (Nat \ {0})

Search(o, st, sc, r) ==
  /\ o \in Seq(Nodes) /\ st \in Seq(Calls) /\ r \in Nodes
  /\ OnceEach(o, st)
  /\ LooksAhead(o, st, sc)
  /\ IsPath(st, sc, r)
  /\ HasParents(o, st, sc, r)
  /\ Seen(o, st) \subseteq Reach(EdgesOf(sc), {r})
  /\ st = << >> => o # << >> /\ o[Len(o)] = r

LEMMA SearchBegins ==
  ASSUME NEW sc, IsGraph(sc), NEW r \in Nodes
  PROVE  Search(<< >>, << <<r, 1>> >>, sc, r)
<1> DEFINE st == << <<r, 1>> >>
<1>1. << >> \in Seq(Nodes) /\ DOMAIN << >> = {} /\ ToSet(<< >>) = {}
  BY DEF ToSet
<1>2. st \in Seq(Calls) /\ DOMAIN st = {1} /\ st[1] = <<r, 1>> /\ st # << >>
  <2>1. <<r, 1>> \in Calls
    BY DEF Calls
  <2> QED
    BY <2>1
<1>3. st[1][1] = r /\ st[1][2] = 1
  BY <1>2
<1>4. EdgesOf(sc) \subseteq Nodes \X Nodes /\ {r} \subseteq Nodes
  BY DEF EdgesOf
<1>5. {r} \subseteq Reach(EdgesOf(sc), {r})
  BY <1>4, ReachIs
<1> HIDE DEF st
<1>6. Called(st) = {r}
  BY <1>2, <1>3 DEF Called
<1>7. Seen(<< >>, st) = {r}
  BY <1>1, <1>6 DEF Seen
<1>8. OnceEach(<< >>, st)
  BY <1>1, <1>2 DEF OnceEach
<1>9. LooksAhead(<< >>, st, sc)
  <2>1. \A j \in DOMAIN sc[r] : ~(j < 1)
    BY DEF IsGraph
  <2> QED
    BY <1>1, <1>2, <1>3, <2>1 DEF LooksAhead
<1>10. IsPath(st, sc, r)
  BY <1>2, <1>3 DEF IsPath
<1>11. HasParents(<< >>, st, sc, r)
  BY <1>1 DEF HasParents
<1>12. Search(<< >>, st, sc, r)
  BY <1>1, <1>2, <1>5, <1>7, <1>8, <1>9, <1>10, <1>11 DEF Search
<1> QED
  BY <1>12 DEF st

LEMMA LastReplaced ==
  ASSUME NEW X, NEW s \in Seq(X), s # << >>, NEW n \in Nat, n = Len(s), NEW x \in X,
         NEW c, c = Append(SubSeq(s, 1, n - 1), x)
  PROVE  /\ c \in Seq(X) /\ Len(c) = n /\ DOMAIN c = 1 .. n
         /\ \A k \in 1 .. n - 1 : c[k] = s[k]
         /\ c[n] = x
<1>1. Len(s) \in Nat /\ Len(s) # 0 /\ Len(s) - 1 \in Nat
  OBVIOUS
<1> DEFINE b == SubSeq(s, 1, Len(s) - 1)
<1>2. b \in Seq(X) /\ Len(b) = Len(s) - 1 /\ \A k \in 1 .. Len(s) - 1 : b[k] = s[k]
  <2>1. PICK m \in Nat : m = Len(s) /\ m # 0 /\ DOMAIN s = 1 .. m
    BY <1>1
  <2>2. b = SubSeq(s, 1, m - 1) /\ m - 1 \in Nat
    BY <2>1
  <2>3. b \in Seq(X) /\ DOMAIN b = 1 .. m - 1 /\ \A k \in 1 .. m - 1 : b[k] = s[k]
    BY <2>1, <2>2
  <2>4. Len(b) = m - 1
    BY <2>2, <2>3
  <2> HIDE DEF b
  <2> QED
    BY <2>1, <2>3, <2>4
<1> HIDE DEF b
<1>3. Append(b, x) \in Seq(X) /\ Len(Append(b, x)) = Len(s)
  BY <1>1, <1>2
<1>4. \A k \in 1 .. Len(s) - 1 : Append(b, x)[k] = b[k]
  BY <1>1, <1>2
<1>5. Append(b, x)[Len(s)] = x
  BY <1>1, <1>2
<1>6. DOMAIN Append(b, x) = 1 .. Len(s)
  BY <1>3
<1>7. c = Append(b, x)
  BY DEF b
<1> QED
  BY <1>2, <1>3, <1>4, <1>5, <1>6, <1>7

LEMMA ThenOne ==
  ASSUME NEW X, NEW s \in Seq(X), NEW x \in X
  PROVE  /\ s \o << >> = s
         /\ s \o << x >> = Append(s, x)
         /\ Append(s, x) \in Seq(X)
         /\ DOMAIN Append(s, x) = 1 .. Len(s) + 1
         /\ \A k \in 1 .. Len(s) : Append(s, x)[k] = s[k]
         /\ Append(s, x)[Len(s) + 1] = x
  OBVIOUS

(* A call moves on to the next successor, which is seen. *)
MovesOn(st, tt, m) ==
  /\ m \in DOMAIN st /\ tt \in Seq(Calls) /\ DOMAIN tt = DOMAIN st
  /\ tt[m] = <<st[m][1], st[m][2] + 1>>
  /\ \A k \in DOMAIN st : k # m => tt[k] = st[k]

LEMMA SearchMovesOn ==
  ASSUME NEW o, NEW st, NEW sc, NEW r, Search(o, st, sc, r), IsGraph(sc),
         NEW tt, NEW m, MovesOn(st, tt, m),
         NEW node, NEW at, node = st[m][1], at = st[m][2],
         at <= Len(sc[node]), sc[node][at] \in Seen(o, st)
  PROVE  Search(o, tt, sc, r)
<1> DEFINE n == Len(st)
<1>0. DOMAIN st = 1 .. n /\ st \in Seq(Calls) /\ n \in Nat
  <2>1. st \in Seq(Calls)
    BY DEF Search
  <2> QED
    BY <2>1
<1> HIDE DEF n
<1>1. /\ DOMAIN st = 1 .. n /\ n # 0 /\ st \in Seq(Calls) /\ n \in Nat
      /\ DOMAIN tt = 1 .. n /\ tt[m] = <<node, at + 1>> /\ m \in 1 .. n
      /\ \A k \in 1 .. n : k # m => tt[k] = st[k]
  BY <1>0 DEF MovesOn
<1>2. tt \in Seq(Calls)
  BY DEF MovesOn
<1>3. \A k \in 1 .. n : tt[k][1] = st[k][1]
  BY <1>1
<1>4. Called(tt) = Called(st)
  <2>1. \A x : x \in Called(tt) <=> \E k \in 1 .. n : x = tt[k][1]
    BY <1>1 DEF Called
  <2>2. \A x : x \in Called(st) <=> \E k \in 1 .. n : x = st[k][1]
    BY <1>1 DEF Called
  <2>3. \A x : x \in Called(tt) <=> x \in Called(st)
    BY <1>3, <2>1, <2>2
  <2> QED
    BY <2>3
<1>5. Seen(o, tt) = Seen(o, st)
  BY <1>4 DEF Seen
<1>6. OnceEach(o, tt)
  <2>1. /\ \A i, j \in DOMAIN o : o[i] = o[j] => i = j
        /\ \A k, l \in 1 .. n : st[k][1] = st[l][1] => k = l
        /\ \A i \in DOMAIN o, k \in 1 .. n : o[i] # st[k][1]
    BY <1>0 DEF Search, OnceEach
  <2>2. \A k, l \in 1 .. n : tt[k][1] = tt[l][1] => k = l
    BY <1>3, <2>1
  <2>3. DOMAIN tt = 1 .. n
    BY <1>1
  <2> QED
    BY <1>3, <2>1, <2>2, <2>3 DEF OnceEach
<1>7. LooksAhead(o, tt, sc)
  <2>1. ASSUME NEW k \in 1 .. n, NEW j \in DOMAIN sc[tt[k][1]], j < tt[k][2]
        PROVE  sc[tt[k][1]][j] \in Seen(o, st)
    <3>1. CASE k # m
      <4>1. tt[k] = st[k]
        BY <1>1, <3>1
      <4> QED
        BY <1>1, <2>1, <4>1 DEF Search, LooksAhead
    <3>2. CASE k = m
      <4>1. tt[k][1] = node /\ tt[k][2] = at + 1 /\ st[m][1] = node /\ st[m][2] = at
        BY <1>1, <3>2
      <4>2. at \in Nat /\ node \in Nodes
        <5>1. \A k1 \in 1 .. n : st[k1] \in Calls
          BY <1>1
        <5>2. st[m] \in Calls
          BY <1>1, <5>1
        <5>3. st[m] \in Nodes \X (Nat \ {0})
          BY <5>2 DEF Calls
        <5> QED
          BY <4>1, <5>3
      <4>3. j \in Nat
        <5>1. sc[node] \in Seq(Nodes)
          BY <4>2 DEF IsGraph
        <5> QED
          BY <2>1, <4>1, <5>1
      <4>4. j = at \/ j < at
        BY <2>1, <4>1, <4>2, <4>3
      <4>5. j < at => sc[node][j] \in Seen(o, st)
        BY <1>1, <2>1, <4>1 DEF Search, LooksAhead
      <4> QED
        BY <4>1, <4>4, <4>5
    <3> QED
      BY <3>1, <3>2
  <2> QED
    BY <1>1, <1>5, <2>1 DEF Search, LooksAhead
<1>8. IsPath(tt, sc, r)
  <2>1. tt # << >> /\ tt[1][1] = st[1][1]
    BY <1>1, <1>3
  <2>2. \A k \in 1 .. n : k # 1 => k - 1 \in 1 .. n
    BY <1>1
  <2> QED
    BY <1>1, <1>3, <2>1, <2>2 DEF Search, IsPath
<1>9. HasParents(o, tt, sc, r)
  BY <1>1, <1>3 DEF Search, HasParents, LaterParent
<1>10. tt # << >>
  BY <1>1
<1> QED
  BY <1>2, <1>5, <1>6, <1>7, <1>8, <1>9, <1>10 DEF Search

(* A call of a node that is not seen yet. *)
LEMMA SearchCalls ==
  ASSUME NEW o, NEW st, NEW sc, NEW r, Search(o, st, sc, r), IsGraph(sc), st # << >>,
         NEW n \in Nat, n = Len(st), NEW node, node = st[n][1],
         NEW new \in Nodes, new \in ToSet(sc[node]), new \notin Seen(o, st)
  PROVE  Search(o, Append(st, <<new, 1>>), sc, r)
<1> DEFINE tt == Append(st, <<new, 1>>)
<1>1. DOMAIN st = 1 .. n /\ n # 0 /\ n \in 1 .. n /\ st \in Seq(Calls)
  BY DEF Search
<1>2. <<new, 1>> \in Calls
  BY DEF Calls
<1>3. /\ tt \in Seq(Calls) /\ DOMAIN tt = 1 .. n + 1
      /\ \A k \in 1 .. n : tt[k] = st[k]
      /\ tt[n + 1] = <<new, 1>>
  BY <1>1, <1>2, ThenOne
<1> HIDE DEF tt
<1>4. /\ \A k \in 1 .. n + 1 : k \in 1 .. n \/ k = n + 1
      /\ \A k \in 1 .. n : k \in 1 .. n + 1
      /\ n + 1 \in 1 .. n + 1
  OBVIOUS
<1>5. tt[n + 1][1] = new /\ tt[n + 1][2] = 1
  BY <1>3
<1>6. Called(tt) = Called(st) \union {new}
  BY <1>1, <1>3, <1>4, <1>5 DEF Called
<1>7. Seen(o, tt) = Seen(o, st) \union {new}
  BY <1>6 DEF Seen
<1>8. OnceEach(o, tt)
  <2>1. \A k \in 1 .. n : st[k][1] # new
    BY <1>1 DEF Seen, Called
  <2>2. \A i \in DOMAIN o : o[i] # new
    BY DEF Seen, ToSet
  <2> QED
    BY <1>1, <1>3, <1>4, <1>5, <2>1, <2>2 DEF Search, OnceEach
<1>9. LooksAhead(o, tt, sc)
  <2>1. \A j \in DOMAIN sc[new] : ~(j < 1)
    BY DEF IsGraph
  <2> QED
    BY <1>1, <1>3, <1>4, <1>5, <1>7, <2>1 DEF Search, LooksAhead
<1>10. IsPath(tt, sc, r)
  <2>1. tt # << >> /\ tt[1] = st[1]
    BY <1>1, <1>3
  <2>2. \A k \in 1 .. n : k # 1 => k - 1 \in 1 .. n
    OBVIOUS
  <2>3. (n + 1) - 1 = n
    OBVIOUS
  <2>4. ASSUME NEW k \in 1 .. n + 1, k # 1 PROVE tt[k][1] \in ToSet(sc[tt[k - 1][1]])
    <3>1. CASE k \in 1 .. n
      BY <1>1, <1>3, <2>2, <2>4, <3>1 DEF Search, IsPath
    <3>2. CASE k = n + 1
      BY <1>1, <1>3, <1>5, <2>3, <3>2
    <3> QED
      BY <1>4, <3>1, <3>2
  <2> QED
    BY <1>3, <2>1, <2>4 DEF Search, IsPath
<1>11. HasParents(o, tt, sc, r)
  BY <1>1, <1>3, <1>4 DEF Search, HasParents, LaterParent
<1>12. new \in Reach(EdgesOf(sc), {r})
  <2>1. node \in Nodes /\ node \in Seen(o, st)
    <3>1. st[n] \in Calls
      BY <1>1
    <3> QED
      BY <1>1, <3>1 DEF Calls, Seen, Called
  <2>2. <<node, new>> \in EdgesOf(sc)
    BY <2>1 DEF EdgesOf
  <2>3. Closed(EdgesOf(sc), Reach(EdgesOf(sc), {r}))
    <3>1. EdgesOf(sc) \subseteq Nodes \X Nodes /\ {r} \subseteq Nodes
      BY DEF EdgesOf, Search
    <3> QED
      BY <3>1, ReachIs
  <2>4. node \in Reach(EdgesOf(sc), {r})
    BY <2>1 DEF Search
  <2> QED
    BY <2>2, <2>3, <2>4 DEF Closed
<1>13. tt # << >>
  BY <1>3
<1>14. Search(o, tt, sc, r)
  BY <1>3, <1>7, <1>8, <1>9, <1>10, <1>11, <1>12, <1>13 DEF Search
<1> QED
  BY <1>14 DEF tt

(* A call returns: its node is finished. *)
LEMMA SearchReturns ==
  ASSUME NEW o, NEW st, NEW sc, NEW r, Search(o, st, sc, r), IsGraph(sc), st # << >>,
         NEW n \in Nat, n = Len(st), NEW node, node = st[n][1],
         st[n][2] > Len(sc[node])
  PROVE  Search(Append(o, node), SubSeq(st, 1, n - 1), sc, r)
<1> DEFINE tt == SubSeq(st, 1, n - 1)
           oo == Append(o, node)
           m == Len(o)
<1>1. DOMAIN st = 1 .. n /\ n # 0 /\ n \in 1 .. n /\ st \in Seq(Calls)
  BY DEF Search
<1>2. /\ node \in Nodes /\ st[n][2] \in Nat /\ sc[node] \in Seq(Nodes)
      /\ o \in Seq(Nodes) /\ m \in Nat /\ DOMAIN o = 1 .. m
  <2>1. st[n] \in Calls
    BY <1>1
  <2>2. o \in Seq(Nodes)
    BY DEF Search
  <2> QED
    BY <2>1, <2>2 DEF Calls, IsGraph
<1>3. /\ tt \in Seq(Calls) /\ DOMAIN tt = 1 .. n - 1
      /\ \A k \in 1 .. n - 1 : tt[k] = st[k]
  BY <1>1
<1>4. /\ oo \in Seq(Nodes) /\ DOMAIN oo = 1 .. m + 1 /\ Len(oo) = m + 1
      /\ \A k \in 1 .. m : oo[k] = o[k]
      /\ oo[m + 1] = node
  BY <1>2
<1>5. ToSet(oo) = ToSet(o) \union {node}
  BY <1>2, SetOfAppend
<1> HIDE DEF tt, oo, m
<1>6. /\ \A k \in 1 .. n : k \in 1 .. n - 1 \/ k = n
      /\ \A k \in 1 .. n - 1 : k \in 1 .. n /\ k # n
      /\ \A k \in 1 .. m + 1 : k \in 1 .. m \/ k = m + 1
      /\ \A k \in 1 .. m : k \in 1 .. m + 1 /\ k < m + 1
      /\ m + 1 \in 1 .. m + 1
  BY <1>2
<1>7. Called(st) = Called(tt) \union {node}
  <2>1. \A x : x \in Called(tt) <=> \E k \in 1 .. n - 1 : x = st[k][1]
    BY <1>3 DEF Called
  <2>2. \A x : x \in Called(st) <=> \E k \in 1 .. n : x = st[k][1]
    BY <1>1 DEF Called
  <2> QED
    BY <1>1, <1>6, <2>1, <2>2
<1>8. Seen(oo, tt) = Seen(o, st)
  BY <1>5, <1>7 DEF Seen
<1>9. OnceEach(oo, tt)
  <2>1. /\ \A i, j \in 1 .. m : o[i] = o[j] => i = j
        /\ \A k, l \in 1 .. n : st[k][1] = st[l][1] => k = l
        /\ \A i \in 1 .. m, k \in 1 .. n : o[i] # st[k][1]
    BY <1>1, <1>2 DEF Search, OnceEach
  <2>0. \A i \in 1 .. m : oo[i] = o[i] /\ oo[i] # node
    BY <1>1, <1>4, <2>1
  <2>2. \A i, j \in 1 .. m + 1 : oo[i] = oo[j] => i = j
    <3> TAKE i, j \in 1 .. m + 1
    <3>1. i \in 1 .. m \/ i = m + 1
      BY <1>6
    <3>2. j \in 1 .. m \/ j = m + 1
      BY <1>6
    <3> QED
      BY <1>4, <2>0, <2>1, <3>1, <3>2
  <2>3. \A k, l \in 1 .. n - 1 : tt[k][1] = tt[l][1] => k = l
    BY <1>3, <1>6, <2>1
  <2>4. \A i \in 1 .. m + 1, k \in 1 .. n - 1 : oo[i] # tt[k][1]
    <3> TAKE i \in 1 .. m + 1, k \in 1 .. n - 1
    <3>1. i \in 1 .. m \/ i = m + 1
      BY <1>6
    <3>2. tt[k][1] = st[k][1] /\ k \in 1 .. n /\ k # n
      BY <1>3, <1>6
    <3> QED
      BY <1>1, <1>4, <2>0, <2>1, <3>1, <3>2
  <2> QED
    BY <1>3, <1>4, <2>2, <2>3, <2>4 DEF OnceEach
<1>10. LooksAhead(oo, tt, sc)
  <2>1. ToSet(sc[node]) \subseteq Seen(o, st)
    <3>1. \A j \in DOMAIN sc[node] : j < st[n][2]
      BY <1>2
    <3>2. \A j \in DOMAIN sc[node] : sc[node][j] \in Seen(o, st)
      BY <1>1, <3>1 DEF Search, LooksAhead
    <3> QED
      BY <3>2 DEF ToSet
  <2>2. \A i \in 1 .. m + 1 : ToSet(sc[oo[i]]) \subseteq Seen(o, st)
    BY <1>2, <1>4, <1>6, <2>1 DEF Search, LooksAhead
  <2>3. \A k \in 1 .. n - 1 : \A j \in DOMAIN sc[tt[k][1]] :
          j < tt[k][2] => sc[tt[k][1]][j] \in Seen(o, st)
    BY <1>1, <1>3, <1>6 DEF Search, LooksAhead
  <2> QED
    BY <1>3, <1>4, <1>8, <2>2, <2>3 DEF LooksAhead
<1>11. IsPath(tt, sc, r)
  <2>1. tt # << >> => 1 \in 1 .. n - 1
    BY <1>3
  <2>2. tt # << >> => tt[1][1] = r
    BY <1>3, <2>1 DEF Search, IsPath
  <2>3. \A k \in 1 .. n - 1 : k # 1 => k - 1 \in 1 .. n - 1
    OBVIOUS
  <2>4. \A k \in 1 .. n - 1 : k # 1 => tt[k][1] \in ToSet(sc[tt[k - 1][1]])
    BY <1>1, <1>3, <1>6, <2>3 DEF Search, IsPath
  <2> QED
    BY <1>3, <2>2, <2>4 DEF IsPath
<1>12. HasParents(oo, tt, sc, r)
  <2>1. ASSUME NEW i \in 1 .. m, oo[i] # r PROVE LaterParent(oo, tt, sc, i)
    <3>1. oo[i] = o[i] /\ LaterParent(o, st, sc, i)
      BY <1>2, <1>4, <2>1 DEF Search, HasParents
    <3>2. CASE \E k \in 1 .. n - 1 : o[i] \in ToSet(sc[st[k][1]])
      BY <1>3, <3>1, <3>2 DEF LaterParent
    <3>3. CASE o[i] \in ToSet(sc[node])
      BY <1>4, <1>6, <3>1, <3>3 DEF LaterParent
    <3>4. CASE \E j \in DOMAIN o : i < j /\ o[i] \in ToSet(sc[o[j]])
      BY <1>2, <1>4, <1>6, <3>1, <3>4 DEF LaterParent
    <3> QED
      BY <1>1, <1>6, <3>1, <3>2, <3>3, <3>4 DEF LaterParent
  <2>2. node # r => LaterParent(oo, tt, sc, m + 1)
    <3>1. node = r \/ n # 1
      BY DEF Search, IsPath
    <3>2. n # 1 => n - 1 \in 1 .. n - 1
      BY <1>1
    <3>3. n # 1 => node \in ToSet(sc[st[n - 1][1]])
      BY <1>1 DEF Search, IsPath
    <3> QED
      BY <1>3, <1>4, <3>1, <3>2, <3>3 DEF LaterParent
  <2> QED
    BY <1>4, <1>6, <2>1, <2>2 DEF HasParents
<1>13. tt = << >> => oo # << >> /\ oo[Len(oo)] = r
  <2>1. tt = << >> => n = 1
    <3>1. tt = << >> => 1 .. n - 1 = {}
      BY <1>3
    <3>2. n # 1 => 1 \in 1 .. n - 1
      BY <1>1
    <3> QED
      BY <3>1, <3>2
  <2>2. n = 1 => node = r
    BY DEF Search, IsPath
  <2> QED
    BY <1>4, <1>6, <2>1, <2>2
<1>14. Search(oo, tt, sc, r)
  BY <1>3, <1>4, <1>8, <1>9, <1>10, <1>11, <1>12, <1>13 DEF Search
<1> QED
  BY <1>14 DEF oo, tt
-----------------------------------------------------------------------------
(***************************************************************************)
(* A search that has ended found the nodes that its root leads to.         *)
(***************************************************************************)
SearchFound(o, sc, r) ==
  /\ o \in Seq(Nodes) /\ r \in Nodes
  /\ Len(o) \in Nat /\ DOMAIN o = 1 .. Len(o) /\ Len(o) \in DOMAIN o
  /\ o[Len(o)] = r
  /\ \A i, j \in DOMAIN o : o[i] = o[j] => i = j
  /\ ToSet(o) = Reach(EdgesOf(sc), {r})
  /\ \A i \in DOMAIN o :
       o[i] = r \/ \E j \in DOMAIN o : i < j /\ o[i] \in ToSet(sc[o[j]])

LEMMA SearchEnds ==
  ASSUME NEW o, NEW sc, NEW r, Search(o, << >>, sc, r), IsGraph(sc)
  PROVE  SearchFound(o, sc, r)
<1>1. /\ o \in Seq(Nodes) /\ r \in Nodes /\ o # << >> /\ o[Len(o)] = r
      /\ OnceEach(o, << >>) /\ LooksAhead(o, << >>, sc) /\ HasParents(o, << >>, sc, r)
      /\ Seen(o, << >>) \subseteq Reach(EdgesOf(sc), {r})
  BY DEF Search
<1>2. /\ Len(o) \in Nat /\ DOMAIN o = 1 .. Len(o) /\ Len(o) \in DOMAIN o
      /\ DOMAIN << >> = {}
  BY <1>1
<1>3. Called(<< >>) = {}
  BY <1>2 DEF Called
<1>4. Seen(o, << >>) = ToSet(o)
  BY <1>3 DEF Seen
<1>5. r \in ToSet(o)
  BY <1>1, <1>2 DEF ToSet
<1>6. Closed(EdgesOf(sc), ToSet(o))
  <2>1. ASSUME NEW e \in EdgesOf(sc), e[1] \in ToSet(o)
        PROVE  e[2] \in ToSet(o)
    <3>1. e[2] \in ToSet(sc[e[1]])
      BY DEF EdgesOf
    <3>2. PICK i \in DOMAIN o : e[1] = o[i]
      BY <2>1 DEF ToSet
    <3>3. \A k \in DOMAIN o : ToSet(sc[o[k]]) \subseteq ToSet(o)
      BY <1>1, <1>4 DEF LooksAhead
    <3> QED
      BY <3>1, <3>2, <3>3
  <2> QED
    BY <2>1 DEF Closed
<1>7. Reach(EdgesOf(sc), {r}) \subseteq ToSet(o)
  <2>1. EdgesOf(sc) \subseteq Nodes \X Nodes /\ {r} \subseteq Nodes
    BY <1>1 DEF EdgesOf
  <2>2. {r} \subseteq ToSet(o)
    BY <1>5
  <2> QED
    BY <1>6, <2>1, <2>2, ReachIs
<1>8. \A i \in DOMAIN o :
        o[i] = r \/ \E j \in DOMAIN o : i < j /\ o[i] \in ToSet(sc[o[j]])
  BY <1>1, <1>2 DEF HasParents, LaterParent
<1> QED
  BY <1>1, <1>2, <1>4, <1>7, <1>8 DEF SearchFound, OnceEach

Rank(o) == [n \in ToSet(o) |-> CHOOSE k \in DOMAIN o : o[k] = n]

LEMMA RankIs ==
  ASSUME NEW o, NEW sc, NEW r, SearchFound(o, sc, r)
  PROVE  /\ \A n \in ToSet(o) : Rank(o)[n] \in DOMAIN o /\ o[Rank(o)[n]] = n
         /\ \A k \in DOMAIN o : o[k] \in ToSet(o) /\ Rank(o)[o[k]] = k
         /\ r \in ToSet(o) /\ ToSet(o) \subseteq Nodes
<1>1. \A n \in ToSet(o) : Rank(o)[n] = CHOOSE k \in DOMAIN o : o[k] = n
  BY DEF Rank
<1>2. \A n \in ToSet(o) : \E k \in DOMAIN o : o[k] = n
  BY DEF ToSet
<1>3. \A n \in ToSet(o) : Rank(o)[n] \in DOMAIN o /\ o[Rank(o)[n]] = n
  BY <1>1, <1>2
<1>4. \A k \in DOMAIN o : o[k] \in ToSet(o)
  BY DEF ToSet
<1>5. \A k \in DOMAIN o : Rank(o)[o[k]] = k
  BY <1>3, <1>4 DEF SearchFound
<1>6. r \in ToSet(o)
  BY <1>4 DEF SearchFound
<1>7. ToSet(o) \subseteq Nodes
  BY DEF SearchFound, ToSet
<1> QED
  BY <1>3, <1>4, <1>5, <1>6, <1>7

-----------------------------------------------------------------------------
(***************************************************************************)
(* What the root leads to without going through a.                         *)
(***************************************************************************)
Avoid(sc, r, a) ==
  Reach({e \in EdgesOf(sc) : a \notin {e[1], e[2]}}, {r} \ {a})

LEMMA AvoidIs ==
  ASSUME NEW sc, NEW r \in Nodes, NEW a
  PROVE  /\ a \notin Avoid(sc, r, a)
         /\ Avoid(sc, r, a) \subseteq Reach(EdgesOf(sc), {r})
         /\ Avoid(sc, r, a) \subseteq Nodes
         /\ r # a => r \in Avoid(sc, r, a)
         /\ \A e \in EdgesOf(sc) : a \notin {e[1], e[2]} /\ e[1] \in Avoid(sc, r, a)
                                     => e[2] \in Avoid(sc, r, a)
         /\ \A S : /\ {r} \ {a} \subseteq S
                   /\ \A e \in EdgesOf(sc) : a \notin {e[1], e[2]} /\ e[1] \in S => e[2] \in S
                   => Avoid(sc, r, a) \subseteq S
<1> DEFINE E == {e \in EdgesOf(sc) : a \notin {e[1], e[2]}}
<1>1. E \subseteq Nodes \X Nodes /\ {r} \ {a} \subseteq Nodes
  BY DEF EdgesOf
<1>2. Avoid(sc, r, a) = Reach(E, {r} \ {a})
  BY DEF Avoid
<1>3. ASSUME NEW S, \A e \in EdgesOf(sc) : a \notin {e[1], e[2]} /\ e[1] \in S => e[2] \in S
      PROVE  Closed(E, S)
  BY <1>3 DEF Closed
<1>4. \A e \in E : e \in EdgesOf(sc) /\ a # e[1] /\ a # e[2]
  OBVIOUS
<1>5. \A e \in EdgesOf(sc) : a \notin {e[1], e[2]} => e \in E
  OBVIOUS
<1> HIDE DEF E
<1>6. /\ {r} \ {a} \subseteq Avoid(sc, r, a) /\ Avoid(sc, r, a) \subseteq Nodes
      /\ Closed(E, Avoid(sc, r, a))
      /\ \A S : {r} \ {a} \subseteq S /\ Closed(E, S) => Avoid(sc, r, a) \subseteq S
  BY <1>1, <1>2, ReachIs
<1>7. a \notin Avoid(sc, r, a)
  <2> DEFINE S == Avoid(sc, r, a) \ {a}
  <2>1. {r} \ {a} \subseteq S
    BY <1>6
  <2>2. Closed(E, S)
    BY <1>4, <1>6 DEF Closed
  <2>3. Avoid(sc, r, a) \subseteq S
    <3> HIDE DEF S
    <3> QED
      BY <1>6, <2>1, <2>2
  <2> QED
    BY <2>3
<1>8. Avoid(sc, r, a) \subseteq Reach(EdgesOf(sc), {r})
  <2>1. EdgesOf(sc) \subseteq Nodes \X Nodes /\ {r} \subseteq Nodes
    BY DEF EdgesOf
  <2>2. {r} \subseteq Reach(EdgesOf(sc), {r}) /\ Closed(EdgesOf(sc), Reach(EdgesOf(sc), {r}))
    BY <2>1, ReachIs
  <2>3. Closed(E, Reach(EdgesOf(sc), {r}))
    BY <1>4, <2>2 DEF Closed
  <2>4. {r} \ {a} \subseteq Reach(EdgesOf(sc), {r})
    BY <2>2
  <2> QED
    BY <1>6, <2>3, <2>4
<1>9. \A e \in EdgesOf(sc) : a \notin {e[1], e[2]} /\ e[1] \in Avoid(sc, r, a)
                               => e[2] \in Avoid(sc, r, a)
  BY <1>5, <1>6 DEF Closed
<1> QED
  BY <1>3, <1>6, <1>7, <1>8, <1>9

(***************************************************************************)
(* While the passes run, whatever every path to n leads through every path *)
(* to n's parent leads through, if it is not n.  Then the nodes above p    *)
(* have every node a on the way to p, and up to a all have a on their way. *)
(***************************************************************************)
Complete(up, sc, r) ==
  \A a \in Nodes : \A n \in In(up) \ {r} :
    n \notin Avoid(sc, r, a) /\ a # n => up[n] \notin Avoid(sc, r, a)

LEMMA Segment ==
  ASSUME NEW up, NEW w, NEW r, NEW last, IsTree(up, w, r, last),
         NEW sc, Complete(up, sc, r),
         NEW a \in Nodes, NEW p \in In(up), p \notin Avoid(sc, r, a)
  PROVE  /\ a \in Above(up, p)
         /\ \A x \in Above(up, p) : a \in Above(up, x) => x \notin Avoid(sc, r, a)
<1> DEFINE D == {x \in In(up) : x \notin Avoid(sc, r, a)}
           T == {w[x] : x \in D \intersect Above(up, p)}
<1>1. r \in Nodes /\ r \in In(up) /\ \A x \in In(up) : w[x] \in Nat
  BY DEF IsTree, In
<1>2. r \notin Avoid(sc, r, a) => a = r
  BY <1>1, AvoidIs
<1>3. \A x \in D \ {a} : up[x] \in D
  <2> TAKE x \in D \ {a}
  <2>1. up[x] \in In(up)
    BY DEF IsTree
  <2>2. x # r
    BY <1>2
  <2> QED
    BY <2>1, <2>2 DEF Complete
<1>4. a \in Above(up, p)
  <2>1. T \subseteq 0 .. last /\ T # {} /\ last \in Nat
    <3>1. p \in Above(up, p)
      BY AboveIs
    <3> QED
      BY <3>1 DEF IsTree
  <2>2. PICK top \in T : \A y \in T : top >= y
    <3> HIDE DEF T
    <3> QED
      BY <2>1, LargestNumber
  <2>3. PICK x \in D \intersect Above(up, p) : top = w[x]
    OBVIOUS
  <2>4. x = a
    <3> SUFFICES ASSUME x # a PROVE FALSE
      OBVIOUS
    <3>1. up[x] \in D \intersect Above(up, p)
      BY <1>3, AboveIs
    <3>2. x # r
      BY <1>2
    <3>3. w[x] < w[up[x]] /\ w[x] \in Nat /\ w[up[x]] \in Nat
      BY <1>1, <3>1, <3>2 DEF IsTree
    <3>4. top >= w[up[x]]
      BY <2>2, <3>1
    <3> HIDE DEF D, T
    <3> QED
      BY <2>3, <3>3, <3>4
  <2> QED
    BY <2>4
<1>5. a \in In(up)
  BY <1>4, AboveIs
<1> DEFINE S == {x \in In(up) : x \in D \/ (x # a /\ x \in Above(up, a))}
<1>6. Above(up, p) \subseteq S
  <2>1. p \in S
    OBVIOUS
  <2>2. ASSUME NEW x \in S \intersect In(up) PROVE up[x] \in S
    <3>1. up[x] \in In(up)
      BY AboveStep
    <3>2. CASE x \in D /\ x # a
      BY <1>3, <3>1, <3>2
    <3>3. CASE x = a
      <4>1. up[a] \in Above(up, a)
        BY <1>5, AboveIs
      <4>2. a \notin Avoid(sc, r, a)
        BY <1>1, AvoidIs
      <4> QED
        BY <3>1, <3>3, <4>1, <4>2
    <3>4. CASE x # a /\ x \in Above(up, a)
      <4>1. up[x] \in Above(up, a)
        BY <1>5, <3>4, AboveIs
      <4>2. w[a] < w[x]
        BY <1>5, <3>4, AboveChain
      <4>3. x = r \/ w[x] < w[up[x]]
        BY DEF IsTree
      <4>4. up[r] = r
        BY DEF IsTree
      <4>5. up[x] # a
        BY <1>1, <1>5, <2>2, <3>1, <3>4, <4>2, <4>3, <4>4
      <4> QED
        BY <3>1, <4>1, <4>5
    <3> QED
      BY <2>2, <3>2, <3>3, <3>4
  <2> HIDE DEF S
  <2> QED
    BY <2>1, <2>2, AboveIs
<1>7. ASSUME NEW x \in Above(up, p), a \in Above(up, x) PROVE x \notin Avoid(sc, r, a)
  <2>1. x \in In(up)
    BY AboveIs
  <2>2. CASE x \in Above(up, a) /\ x # a
    BY <1>5, <1>7, <2>1, <2>2, AboveDiffers
  <2> QED
    BY <1>6, <2>2
<1> QED
  BY <1>4, <1>7

(***************************************************************************)
(* A visit gives b the parent new, the common ancestor of predecessors T.  *)
(***************************************************************************)
Put(up, b, new) == [up EXCEPT ![b] = new]

LEMMA PutIs ==
  ASSUME NEW up, NEW w, NEW r, NEW last, IsTree(up, w, r, last),
         NEW b \in Nodes, b # r, w[b] \in 0 .. last,
         NEW new \in In(up), w[b] < w[new]
  PROVE  /\ IsTree(Put(up, b, new), w, r, last)
         /\ In(Put(up, b, new)) = In(up) \union {b}
         /\ Put(up, b, new)[b] = new
         /\ \A n \in Nodes \ {b} : Put(up, b, new)[n] = up[n]
<1>1. /\ up \in [Nodes -> Nodes \union {None}] /\ last \in Nat /\ new \in Nodes
      /\ new # None
  <2>1. None \notin Nodes
    BY TreeConstants DEF None, Nodes
  <2> QED
    BY <2>1 DEF IsTree, In
<1>2. /\ Put(up, b, new) \in [Nodes -> Nodes \union {None}]
      /\ Put(up, b, new)[b] = new
      /\ \A n \in Nodes \ {b} : Put(up, b, new)[n] = up[n]
  BY <1>1 DEF Put
<1>3. In(Put(up, b, new)) = In(up) \union {b}
  BY <1>1, <1>2 DEF In
<1>4. \A n \in In(up) : n \in Nodes
  BY DEF In
<1>5. r \in In(up) /\ up[r] = r /\ \A n \in In(up) : w[n] \in 0 .. last
  BY DEF IsTree
<1>6. \A n \in In(up) \ {r} : up[n] \in In(up) /\ w[n] < w[up[n]]
  BY DEF IsTree
<1> QED
  BY <1>1, <1>2, <1>3, <1>4, <1>5, <1>6 DEF IsTree

LEMMA PutKeepsComplete ==
  ASSUME NEW up, NEW w, NEW r, NEW last, IsTree(up, w, r, last),
         NEW sc, Complete(up, sc, r),
         NEW b \in Nodes, b # r, w[b] \in 0 .. last,
         NEW new \in In(up), w[b] < w[new],
         NEW T, T \subseteq In(up), \A p \in T : b \in ToSet(sc[p]),
         Above(up, new) = {x \in In(up) : \A p \in T : x \in Above(up, p)},
         T # {}
  PROVE  Complete(Put(up, b, new), sc, r)
<1>1. ASSUME NEW a \in Nodes, b \notin Avoid(sc, r, a), a # b
      PROVE  new \notin Avoid(sc, r, a)
  <2>1. ASSUME NEW p \in T PROVE p \notin Avoid(sc, r, a)
    <3>1. p \in Nodes /\ r \in Nodes
      BY DEF In, IsTree
    <3>2. <<p, b>> \in EdgesOf(sc)
      BY <3>1 DEF EdgesOf
    <3>3. <<p, b>>[1] = p /\ <<p, b>>[2] = b
      OBVIOUS
    <3>4. p = a => p \notin Avoid(sc, r, a)
      BY <3>1, AvoidIs
    <3> QED
      BY <1>1, <3>1, <3>2, <3>3, <3>4, AvoidIs
  <2>2. \A p \in T : a \in Above(up, p)
    BY <2>1, Segment
  <2>3. PICK p \in T : p \in In(up)
    OBVIOUS
  <2>4. a \in In(up)
    BY <2>2, <2>3, AboveIs
  <2>5. a \in Above(up, new)
    BY <2>2, <2>4
  <2>6. new \in Above(up, p)
    <3>1. new \in Above(up, new)
      BY AboveIs
    <3> QED
      BY <2>3, <3>1
  <2> QED
    BY <2>1, <2>3, <2>5, <2>6, Segment
<1>2. /\ In(Put(up, b, new)) = In(up) \union {b} /\ Put(up, b, new)[b] = new
      /\ \A n \in Nodes \ {b} : Put(up, b, new)[n] = up[n]
  BY PutIs
<1>3. \A n \in In(up) : n \in Nodes
  BY DEF In
<1> QED
  BY <1>1, <1>2, <1>3 DEF Complete

(***************************************************************************)
(* At the end a node's parent is above its predecessors.                   *)
(***************************************************************************)
Settled(up, o, pr, r) ==
  /\ In(up) = ToSet(o)
  /\ \A n \in ToSet(o) \ {r} : \A p \in ToSet(pr[n]) \intersect ToSet(o) :
       up[n] \in Above(up, p)

Converse(sc, pr) ==
  /\ pr \in [Nodes -> Seq(Nodes)]
  /\ \A m, n \in Nodes : m \in ToSet(pr[n]) <=> n \in ToSet(sc[m])

LEMMA AboveIsOnEveryPath ==
  ASSUME NEW up, NEW w, NEW r, NEW last, IsTree(up, w, r, last),
         NEW sc, NEW pr, NEW o, Complete(up, sc, r), Converse(sc, pr),
         SearchFound(o, sc, r), Settled(up, o, pr, r),
         NEW a \in Nodes, NEW n \in In(up)
  PROVE  a \in Above(up, n) <=> n \notin Avoid(sc, r, a)
<1>1. r \in Nodes /\ r \in In(up) /\ In(up) = ToSet(o) /\ In(up) = Reach(EdgesOf(sc), {r})
  BY DEF SearchFound, Settled, IsTree
<1>2. n \notin Avoid(sc, r, a) => a \in Above(up, n)
  BY Segment
<1>3. Avoid(sc, r, a) \subseteq {x \in In(up) : a \notin Above(up, x)}
  <2> DEFINE S == {x \in In(up) : a \notin Above(up, x)}
  <2>1. {r} \ {a} \subseteq S
    <3>1. Above(up, r) = {r}
      BY <1>1, RootIsAbove
    <3> QED
      BY <1>1, <3>1
  <2>2. ASSUME NEW e \in EdgesOf(sc), a \notin {e[1], e[2]}, e[1] \in S
        PROVE  e[2] \in S
    <3> DEFINE m == e[1]  k == e[2]
    <3>1. m \in Nodes /\ k \in Nodes /\ k \in ToSet(sc[m]) /\ m \in In(up) /\ k # a
      BY <2>2 DEF EdgesOf
    <3>2. k \in In(up)
      <4>1. EdgesOf(sc) \subseteq Nodes \X Nodes /\ {r} \subseteq Nodes
        BY <1>1 DEF EdgesOf
      <4>2. Closed(EdgesOf(sc), Reach(EdgesOf(sc), {r}))
        BY <4>1, ReachIs
      <4> QED
        BY <1>1, <3>1, <4>2 DEF Closed
    <3>3. a \notin Above(up, m)
      BY <2>2
    <3> HIDE DEF m, k
    <3>4. CASE k = r
      <4>1. Above(up, r) = {r}
        BY <1>1, RootIsAbove
      <4> QED
        BY <3>1, <3>2, <3>4, <4>1 DEF k
    <3>5. CASE k # r
      <4>1. m \in ToSet(pr[k]) \intersect ToSet(o)
        BY <1>1, <3>1 DEF Converse
      <4>2. up[k] \in Above(up, m)
        BY <1>1, <3>2, <3>5, <4>1 DEF Settled
      <4>3. Above(up, up[k]) \subseteq Above(up, m)
        BY <3>1, <4>2, AboveChain
      <4>4. Above(up, k) = {k} \union Above(up, up[k])
        BY <3>2, AboveStep
      <4> QED
        BY <3>1, <3>2, <3>3, <4>3, <4>4 DEF k
    <3> QED
      BY <3>4, <3>5
  <2> HIDE DEF S
  <2>3. Avoid(sc, r, a) \subseteq S
    BY <1>1, <2>1, <2>2, AvoidIs
  <2> QED
    BY <2>3 DEF S
<1> QED
  BY <1>2, <1>3
-----------------------------------------------------------------------------
(***************************************************************************)
(* The graphs: forwards the flow of control, backwards the reachable       *)
(* blocks with every edge turned, and the virtual exit before the exits.   *)
(***************************************************************************)
Flow(c) == {e \in Blocks \X Blocks : e[2] \in ToSet(c[e[1]])}

LiveIn(c) == Reach(Flow(c), {Entry})

ExitsIn(c) == {b \in LiveIn(c) : c[b] = << >>}

Turned(c) == {e \in LiveIn(c) \X LiveIn(c) : <<e[2], e[1]>> \in Flow(c)}

Forward(c, sc, r) == r = Entry /\ EdgesOf(sc) = Flow(c)

Backward(c, sc, r) ==
  /\ EdgesOf(sc) = Turned(c) \union (IF r = VirtualExit THEN {VirtualExit} \X ExitsIn(c)
                                     ELSE {})
  /\ \/ r = VirtualExit /\ ExitsIn(c) # {}
     \/ r \in LiveIn(c) /\ (ExitsIn(c) = {} \/ ExitsIn(c) = {r})

Rooted(c, direction, ph, sc, r) ==
  IF direction = "dominators" \/ ph = "order" THEN Forward(c, sc, r)
  ELSE Backward(c, sc, r)

LEMMA BlocksAreNodes ==
  /\ Blocks \subseteq Nodes /\ VirtualExit \in Nodes /\ VirtualExit \notin Blocks
  /\ None \notin Nodes /\ Entry \in Blocks /\ Nodes = Blocks \union {VirtualExit}
  BY TreeConstants DEF Blocks, Nodes, VirtualExit, None, Entry

LEMMA FlowReach ==
  ASSUME NEW c
  PROVE  /\ LiveIn(c) \subseteq Blocks /\ Entry \in LiveIn(c)
         /\ \A e \in Flow(c) : e[1] \in LiveIn(c) => e[2] \in LiveIn(c)
         /\ Flow(c) \subseteq Nodes \X Nodes
<1>1. Flow(c) \subseteq Nodes \X Nodes /\ {Entry} \subseteq Nodes
  BY BlocksAreNodes DEF Flow
<1>2. {Entry} \subseteq Blocks /\ Closed(Flow(c), Blocks)
  BY BlocksAreNodes DEF Closed, Flow
<1>3. /\ {Entry} \subseteq LiveIn(c) /\ Closed(Flow(c), LiveIn(c))
      /\ \A S : {Entry} \subseteq S /\ Closed(Flow(c), S) => LiveIn(c) \subseteq S
  BY <1>1, ReachIs DEF LiveIn
<1> QED
  BY <1>1, <1>2, <1>3 DEF Closed

LEMMA Empty == \A X : << >> \in Seq(X) /\ ToSet(<< >>) = {}
  BY DEF ToSet

LEMMA NothingIn ==
  ASSUME NEW X, NEW s \in Seq(X)
  PROVE  s = << >> <=> ToSet(s) = {}
<1>1. s # << >> => 1 \in DOMAIN s
  OBVIOUS
<1> QED
  BY <1>1, Empty DEF ToSet

(* The graph at the start. *)
LEMMA GraphBegins ==
  ASSUME NEW c \in Cfgs
  PROVE  /\ IsGraph(WithExit(c, << >>))
         /\ Converse(WithExit(c, << >>), WithExit(Predecessors(c), << >>))
         /\ Forward(c, WithExit(c, << >>), Entry)
<1> DEFINE sc == WithExit(c, << >>)
           pr == WithExit(Predecessors(c), << >>)
<1>1. c \in [Blocks -> Seq(Blocks)]
  BY TreeConstants
<1>2. /\ sc[VirtualExit] = << >> /\ pr[VirtualExit] = << >>
      /\ \A b \in Blocks : sc[b] = c[b] /\ pr[b] = Predecessors(c)[b]
      /\ DOMAIN sc = Nodes /\ DOMAIN pr = Nodes
      /\ sc = [n \in Nodes |-> sc[n]] /\ pr = [n \in Nodes |-> pr[n]]
  BY BlocksAreNodes DEF WithExit
<1> HIDE DEF sc, pr
<1>3. \A s \in Seq(Blocks) : s \in Seq(Nodes) /\ ToSet(s) \subseteq Blocks
  BY BlocksAreNodes DEF ToSet
<1>4. \A b \in Blocks : /\ Predecessors(c)[b] \in Seq(Blocks)
                        /\ ToSet(Predecessors(c)[b]) = {m \in Blocks : b \in ToSet(c[m])}
  BY <1>1, PredecessorsAre
<1>5. \A n \in Nodes : sc[n] \in Seq(Nodes) /\ pr[n] \in Seq(Nodes)
  BY <1>1, <1>2, <1>3, <1>4, BlocksAreNodes, Empty
<1>6. IsGraph(sc)
  BY <1>2, <1>5 DEF IsGraph
<1>7. ASSUME NEW m \in Nodes, NEW n \in Nodes
      PROVE  m \in ToSet(pr[n]) <=> n \in ToSet(sc[m])
  <2>1. CASE m = VirtualExit \/ n = VirtualExit
    BY <1>1, <1>2, <1>3, <1>4, <2>1, BlocksAreNodes, Empty
  <2>2. CASE m \in Blocks /\ n \in Blocks
    BY <1>2, <1>4, <2>2
  <2> QED
    BY <2>1, <2>2, BlocksAreNodes
<1>8. Converse(sc, pr)
  BY <1>2, <1>5, <1>7 DEF Converse
<1>9. EdgesOf(sc) = Flow(c)
  <2>1. ASSUME NEW e \in EdgesOf(sc) PROVE e \in Flow(c)
    <3>1. e \in Nodes \X Nodes /\ e[2] \in ToSet(sc[e[1]])
      BY DEF EdgesOf
    <3>2. e[1] # VirtualExit
      BY <1>2, <3>1, Empty
    <3>3. e[1] \in Blocks /\ e[2] \in ToSet(c[e[1]])
      BY <1>2, <3>1, <3>2, BlocksAreNodes
    <3>4. e[2] \in Blocks
      BY <1>1, <1>3, <3>3
    <3> QED
      BY <3>1, <3>3, <3>4 DEF Flow
  <2>2. ASSUME NEW e \in Flow(c) PROVE e \in EdgesOf(sc)
    BY <1>2, <2>2, BlocksAreNodes DEF Flow, EdgesOf
  <2> QED
    BY <2>1, <2>2
<1> QED
  BY <1>6, <1>8, <1>9 DEF Forward, sc, pr
(* The part of the graph that is reachable, and its exits. *)
LEMMA KeptIs ==
  ASSUME NEW g \in [Blocks -> Seq(Blocks)], NEW b \in Blocks
  PROVE  /\ Kept(g)[b] \in Seq(Blocks)
         /\ ToSet(Kept(g)[b]) = IF b \in Reachable THEN ToSet(g[b]) \intersect Reachable
                                ELSE {}
<1>1. Kept(g)[b] = IF b \in Reachable THEN Among(g[b], Reachable) ELSE << >>
  BY DEF Kept
<1>2. g[b] \in Seq(Blocks)
  OBVIOUS
<1>3. /\ Among(g[b], Reachable) \in Seq(Blocks)
      /\ ToSet(Among(g[b], Reachable)) = ToSet(g[b]) \intersect Reachable
  BY <1>2, AmongIs
<1> QED
  BY <1>1, <1>3, Empty

LEMMA ExitsAre ==
  ASSUME cfg \in Cfgs, Reachable = LiveIn(cfg)
  PROVE  Exits \in Seq(Blocks) /\ ToSet(Exits) = ExitsIn(cfg)
<1> DEFINE all == [k \in 1 .. N |-> k - 1]
           ends == {b \in Blocks \intersect Reachable : Kept(cfg)[b] = << >>}
<1>1. cfg \in [Blocks -> Seq(Blocks)]
  BY TreeConstants
<1>2. all \in Seq(Blocks) /\ ToSet(all) = Blocks
  <2>1. N \in Nat /\ \A k \in 1 .. N : k - 1 \in Blocks
    BY TreeConstants DEF Blocks
  <2>2. all \in Seq(Blocks) /\ DOMAIN all = 1 .. N /\ \A k \in 1 .. N : all[k] = k - 1
    BY <2>1
  <2>3. \A b \in Blocks : b + 1 \in 1 .. N /\ b = (b + 1) - 1
    BY <2>1 DEF Blocks
  <2> HIDE DEF all
  <2>4. \A b \in Blocks : b + 1 \in DOMAIN all /\ all[b + 1] = b
    BY <2>2, <2>3
  <2> QED
    BY <2>1, <2>2, <2>4 DEF ToSet
<1>3. Exits = Among(all, ends)
  BY DEF Exits
<1>4. ends = ExitsIn(cfg)
  <2>1. ASSUME NEW b \in LiveIn(cfg) PROVE Kept(cfg)[b] = << >> <=> cfg[b] = << >>
    <3>1. b \in Blocks
      BY FlowReach
    <3>2. \A x \in ToSet(cfg[b]) : x \in LiveIn(cfg)
      <4> TAKE x \in ToSet(cfg[b])
      <4>1. x \in Blocks
        BY <1>1, <3>1 DEF ToSet
      <4>2. <<b, x>> \in Flow(cfg)
        BY <3>1, <4>1 DEF Flow
      <4>3. <<b, x>>[1] = b /\ <<b, x>>[2] = x
        OBVIOUS
      <4> QED
        BY <4>2, <4>3, FlowReach
    <3>3. Kept(cfg)[b] \in Seq(Blocks) /\ ToSet(Kept(cfg)[b]) = ToSet(cfg[b])
      <4>1. b \in Reachable
        OBVIOUS
      <4>2. /\ Kept(cfg)[b] \in Seq(Blocks)
            /\ ToSet(Kept(cfg)[b]) = ToSet(cfg[b]) \intersect Reachable
        BY <1>1, <3>1, <4>1, KeptIs
      <4> QED
        BY <3>2, <4>2
    <3>4. cfg[b] \in Seq(Blocks)
      BY <1>1, <3>1
    <3> QED
      BY <3>3, <3>4, NothingIn
  <2>2. LiveIn(cfg) \subseteq Blocks
    BY FlowReach
  <2> QED
    BY <2>1, <2>2 DEF ExitsIn
<1> HIDE DEF all, ends
<1>5. ExitsIn(cfg) \subseteq Blocks
  BY FlowReach DEF ExitsIn
<1>6. /\ Among(all, ends) \in Seq(Blocks)
      /\ ToSet(Among(all, ends)) = ToSet(all) \intersect ends
  BY <1>2, AmongIs
<1> QED
  BY <1>2, <1>3, <1>4, <1>5, <1>6

LEMMA ReverseRootIs ==
  ASSUME cfg \in Cfgs, Reachable = LiveIn(cfg), order \in Seq(Nodes), order # << >>
  PROVE  \/ ReverseRoot = VirtualExit /\ ExitsIn(cfg) # {}
         \/ ReverseRoot \in LiveIn(cfg) /\ (ExitsIn(cfg) = {} \/ ExitsIn(cfg) = {ReverseRoot})
<1>1. Exits \in Seq(Blocks) /\ ToSet(Exits) = ExitsIn(cfg)
  BY ExitsAre
<1>2. CASE Len(Exits) = 0
  <2>1. Exits = << >> /\ 1 \in DOMAIN order
    BY <1>1, <1>2
  <2>2. ExitsIn(cfg) = {}
    BY <1>1, <2>1, Empty
  <2>3. order[1] \in Reachable
    BY <2>1 DEF Reachable, ToSet
  <2> QED
    BY <1>2, <2>2, <2>3 DEF ReverseRoot
<1>3. CASE Len(Exits) = 1
  <2>1. DOMAIN Exits = {1}
    BY <1>1, <1>3
  <2>2. ExitsIn(cfg) = {Exits[1]}
    BY <1>1, <2>1 DEF ToSet
  <2>3. ReverseRoot = Exits[1]
    BY <1>3 DEF ReverseRoot
  <2>4. Exits[1] \in LiveIn(cfg)
    BY <2>2 DEF ExitsIn
  <2> QED
    BY <2>2, <2>3, <2>4
<1>4. CASE Len(Exits) # 0 /\ Len(Exits) # 1
  <2>1. Exits # << >>
    BY <1>4
  <2>2. ExitsIn(cfg) # {}
    BY <1>1, <2>1, NothingIn
  <2> QED
    BY <1>4, <2>2 DEF ReverseRoot
<1> QED
  BY <1>2, <1>3, <1>4

LEMMA GraphTurns ==
  ASSUME cfg \in Cfgs, Reachable = LiveIn(cfg), order \in Seq(Nodes), order # << >>,
         NEW sc, NEW pr,
         sc = WithExit(Kept(Predecessors(cfg)),
                       IF ReverseRoot = VirtualExit THEN Exits ELSE << >>),
         pr = WithExit([b \in Blocks |->
                          IF ReverseRoot = VirtualExit /\ b \in ToSet(Exits)
                          THEN << VirtualExit >> ELSE Kept(cfg)[b]],
                       << >>)
  PROVE  /\ IsGraph(sc) /\ Converse(sc, pr)
         /\ Backward(cfg, sc, ReverseRoot) /\ ReverseRoot \in Nodes
<1>1. cfg \in [Blocks -> Seq(Blocks)]
  BY TreeConstants
<1>2. Exits \in Seq(Blocks) /\ ToSet(Exits) = ExitsIn(cfg) /\ ExitsIn(cfg) \subseteq Blocks
  BY ExitsAre, FlowReach DEF ExitsIn
<1>3. \A b \in Blocks : /\ Predecessors(cfg)[b] \in Seq(Blocks)
                        /\ ToSet(Predecessors(cfg)[b]) = {m \in Blocks : b \in ToSet(cfg[m])}
  BY <1>1, PredecessorsAre
<1>4. Predecessors(cfg) \in [Blocks -> Seq(Blocks)]
  <2>1. Predecessors(cfg) = [b \in Blocks |-> Predecessors(cfg)[b]]
    BY DEF Predecessors
  <2> QED
    BY <1>3, <2>1
<1>5. ASSUME NEW b \in Blocks
      PROVE  /\ Kept(Predecessors(cfg))[b] \in Seq(Blocks)
             /\ ToSet(Kept(Predecessors(cfg))[b])
                  = {m \in Blocks : <<b, m>> \in Turned(cfg)}
             /\ Kept(cfg)[b] \in Seq(Blocks)
             /\ ToSet(Kept(cfg)[b]) = {m \in Blocks : <<m, b>> \in Turned(cfg)}
             /\ b \in ExitsIn(cfg) => ToSet(Kept(cfg)[b]) = {}
  <2>1. /\ Kept(Predecessors(cfg))[b] \in Seq(Blocks)
        /\ ToSet(Kept(Predecessors(cfg))[b]) =
             IF b \in LiveIn(cfg) THEN ToSet(Predecessors(cfg)[b]) \intersect LiveIn(cfg) ELSE {}
    BY <1>4, KeptIs
  <2>2. /\ Kept(cfg)[b] \in Seq(Blocks)
        /\ ToSet(Kept(cfg)[b]) =
             IF b \in LiveIn(cfg) THEN ToSet(cfg[b]) \intersect LiveIn(cfg) ELSE {}
    BY <1>1, KeptIs
  <2>3. LiveIn(cfg) \subseteq Blocks
    BY FlowReach
  <2>4. ASSUME NEW m \in Blocks
        PROVE  <<b, m>> \in Turned(cfg)
                 <=> b \in LiveIn(cfg) /\ m \in LiveIn(cfg) /\ b \in ToSet(cfg[m])
    BY <2>3 DEF Turned, Flow
  <2>5. ASSUME NEW m \in Blocks
        PROVE  <<m, b>> \in Turned(cfg)
                 <=> b \in LiveIn(cfg) /\ m \in LiveIn(cfg) /\ m \in ToSet(cfg[b])
    BY <2>3 DEF Turned, Flow
  <2>6. b \in ExitsIn(cfg) => ToSet(cfg[b]) = {}
    BY Empty DEF ExitsIn
  <2>7. ToSet(Kept(Predecessors(cfg))[b]) = {m \in Blocks : <<b, m>> \in Turned(cfg)}
    BY <1>3, <2>1, <2>3, <2>4
  <2>8. ToSet(Kept(cfg)[b]) = {m \in Blocks : <<m, b>> \in Turned(cfg)}
    BY <2>2, <2>3, <2>5
  <2>9. b \in ExitsIn(cfg) => ToSet(Kept(cfg)[b]) = {}
    BY <2>2, <2>6
  <2> QED
    BY <2>1, <2>2, <2>7, <2>8, <2>9
<1>6. /\ sc[VirtualExit] = IF ReverseRoot = VirtualExit THEN Exits ELSE << >>
      /\ pr[VirtualExit] = << >>
      /\ \A b \in Blocks : /\ sc[b] = Kept(Predecessors(cfg))[b]
                           /\ pr[b] = IF ReverseRoot = VirtualExit /\ b \in ToSet(Exits)
                                      THEN << VirtualExit >> ELSE Kept(cfg)[b]
      /\ sc = [n \in Nodes |-> sc[n]] /\ pr = [n \in Nodes |-> pr[n]]
  BY BlocksAreNodes DEF WithExit
<1> DEFINE virtual == ReverseRoot = VirtualExit
<1>7. \A s \in Seq(Blocks) : s \in Seq(Nodes) /\ ToSet(s) \subseteq Blocks
  BY BlocksAreNodes DEF ToSet
<1>8. << VirtualExit >> \in Seq(Nodes) /\ ToSet(<< VirtualExit >>) = {VirtualExit}
  BY BlocksAreNodes DEF ToSet
<1>9. \A n \in Nodes : sc[n] \in Seq(Nodes) /\ pr[n] \in Seq(Nodes)
  <2>1. sc[VirtualExit] \in Seq(Nodes) /\ pr[VirtualExit] \in Seq(Nodes)
    BY <1>2, <1>6, <1>7, Empty
  <2>2. ASSUME NEW b \in Blocks PROVE sc[b] \in Seq(Nodes)
    BY <1>5, <1>6, <1>7
  <2>3. ASSUME NEW b \in Blocks PROVE pr[b] \in Seq(Nodes)
    <3>1. Kept(cfg)[b] \in Seq(Nodes)
      BY <1>5, <1>7
    <3>2. pr[b] = << VirtualExit >> \/ pr[b] = Kept(cfg)[b]
      BY <1>6
    <3> QED
      BY <1>8, <3>1, <3>2
  <2> QED
    BY <2>1, <2>2, <2>3, BlocksAreNodes
<1>10. IsGraph(sc)
  BY <1>6, <1>9 DEF IsGraph
<1>11. ToSet(sc[VirtualExit]) = IF virtual THEN ExitsIn(cfg) ELSE {}
  BY <1>2, <1>6, Empty
<1>12. ASSUME NEW m \in Nodes, NEW n \in Nodes
       PROVE  m \in ToSet(pr[n]) <=> n \in ToSet(sc[m])
  <2>1. CASE n = VirtualExit
    <3>1. ToSet(pr[n]) = {}
      BY <1>6, <2>1, Empty
    <3>2. \A b \in Blocks : ToSet(sc[b]) \subseteq Blocks
      BY <1>5, <1>6
    <3> QED
      BY <1>2, <1>11, <2>1, <3>1, <3>2, BlocksAreNodes
  <2>2. CASE n \in Blocks /\ m = VirtualExit
    <3>1. CASE virtual /\ n \in ExitsIn(cfg)
      BY <1>2, <1>6, <1>8, <1>11, <2>2, <3>1
    <3>2. CASE ~(virtual /\ n \in ExitsIn(cfg))
      <4>1. pr[n] = Kept(cfg)[n]
        BY <1>2, <1>6, <2>2, <3>2
      <4>2. ToSet(pr[n]) \subseteq Blocks
        BY <1>5, <2>2, <4>1
      <4> QED
        BY <1>11, <2>2, <3>2, <4>2, BlocksAreNodes
    <3> QED
      BY <3>1, <3>2
  <2>3. CASE n \in Blocks /\ m \in Blocks
    <3>1. n \in ToSet(sc[m]) <=> <<m, n>> \in Turned(cfg)
      BY <1>5, <1>6, <2>3
    <3>2. m \in ToSet(Kept(cfg)[n]) <=> <<m, n>> \in Turned(cfg)
      BY <1>5, <2>3
    <3>3. CASE virtual /\ n \in ExitsIn(cfg)
      <4>1. m \notin ToSet(pr[n])
        BY <1>2, <1>6, <1>8, <2>3, <3>3, BlocksAreNodes
      <4>2. m \notin ToSet(Kept(cfg)[n])
        BY <1>5, <2>3, <3>3
      <4> QED
        BY <3>1, <3>2, <4>1, <4>2
    <3>4. CASE ~(virtual /\ n \in ExitsIn(cfg))
      <4>1. pr[n] = Kept(cfg)[n]
        BY <1>2, <1>6, <2>3, <3>4
      <4> QED
        BY <3>1, <3>2, <4>1
    <3> QED
      BY <3>3, <3>4
  <2> QED
    BY <2>1, <2>2, <2>3, BlocksAreNodes
<1>13. Converse(sc, pr)
  BY <1>6, <1>9, <1>12 DEF Converse
<1>14. EdgesOf(sc) = Turned(cfg) \union (IF virtual THEN {VirtualExit} \X ExitsIn(cfg) ELSE {})
  <2>1. LiveIn(cfg) \subseteq Blocks
    BY FlowReach
  <2>2. ASSUME NEW m \in Nodes, NEW n \in Nodes
        PROVE  <<m, n>> \in EdgesOf(sc) <=>
                 \/ <<m, n>> \in Turned(cfg)
                 \/ virtual /\ m = VirtualExit /\ n \in ExitsIn(cfg)
    <3>1. <<m, n>> \in EdgesOf(sc) <=> n \in ToSet(sc[m])
      BY DEF EdgesOf
    <3>2. m = VirtualExit => <<m, n>> \notin Turned(cfg)
      BY <2>1, BlocksAreNodes DEF Turned
    <3>3. CASE m = VirtualExit
      BY <1>11, <3>1, <3>2, <3>3
    <3>4. CASE m \in Blocks
      <4>1. n \in ToSet(sc[m]) <=> n \in Blocks /\ <<m, n>> \in Turned(cfg)
        BY <1>5, <1>6, <3>4
      <4>2. <<m, n>> \in Turned(cfg) => n \in Blocks
        BY <2>1 DEF Turned
      <4> QED
        BY <3>1, <3>4, <4>1, <4>2, BlocksAreNodes
    <3> QED
      BY <3>3, <3>4, BlocksAreNodes
  <2>3. EdgesOf(sc) \subseteq Nodes \X Nodes
    BY DEF EdgesOf
  <2>4. Turned(cfg) \subseteq Nodes \X Nodes
    BY <2>1, BlocksAreNodes DEF Turned
  <2>5. {VirtualExit} \X ExitsIn(cfg) \subseteq Nodes \X Nodes
    BY <1>2, BlocksAreNodes
  <2> DEFINE R == Turned(cfg) \union (IF virtual THEN {VirtualExit} \X ExitsIn(cfg) ELSE {})
  <2>6. R \subseteq Nodes \X Nodes
    BY <2>4, <2>5
  <2>7. \A m, n \in Nodes : <<m, n>> \in EdgesOf(sc) <=> <<m, n>> \in R
    BY <2>2
  <2> HIDE DEF R
  <2>8. \A e \in Nodes \X Nodes : e \in EdgesOf(sc) <=> e \in R
    <3> TAKE e \in Nodes \X Nodes
    <3>1. e = <<e[1], e[2]>> /\ e[1] \in Nodes /\ e[2] \in Nodes
      OBVIOUS
    <3> QED
      BY <2>7, <3>1
  <2>9. EdgesOf(sc) = R
    BY <2>3, <2>6, <2>8
  <2> QED
    BY <2>9 DEF R
<1>15. \/ ReverseRoot = VirtualExit /\ ExitsIn(cfg) # {}
       \/ ReverseRoot \in LiveIn(cfg)
            /\ (ExitsIn(cfg) = {} \/ ExitsIn(cfg) = {ReverseRoot})
  BY ReverseRootIs
<1>16. ReverseRoot \in Nodes
  BY <1>15, FlowReach, BlocksAreNodes
<1> QED
  BY <1>10, <1>13, <1>14, <1>15, <1>16 DEF Backward
-----------------------------------------------------------------------------
(***************************************************************************)
(* The passes, over the tree up, the finished order o and the next         *)
(* position nx.  A pass that has changed nothing has found the parents of  *)
(* the nodes it visited to be above their predecessors.                    *)
(***************************************************************************)
Fixed(up, pr, n) == \A p \in ToSet(pr[n]) \intersect In(up) : up[n] \in Above(up, p)

FirstPass(up, o, nx) == \A n : n \in In(up) <=> \E k \in DOMAIN o : k > Len(o) + 1 - nx /\ n = o[k]

Passing(up, o, sc, pr, r, nx, ch) ==
  /\ IsTree(up, Rank(o), r, Len(o))
  /\ In(up) \subseteq ToSet(o)
  /\ nx \in Nat /\ 2 <= nx /\ nx <= Len(o) + 1
  /\ ch \in BOOLEAN
  /\ In(up) = ToSet(o) \/ FirstPass(up, o, nx)
  /\ Complete(up, sc, r)
  /\ ~ch => \A k \in 2 .. nx - 1 : Fixed(up, pr, o[Len(o) + 1 - k])

LEMMA PassesBegin ==
  ASSUME NEW o, NEW sc, NEW pr, NEW r, SearchFound(o, sc, r),
         NEW up, up = [n \in Nodes |-> IF n = r THEN r ELSE None]
  PROVE  Passing(up, o, sc, pr, r, 2, FALSE)
<1>1. /\ r \in Nodes /\ r # None /\ Len(o) \in Nat /\ Len(o) \in DOMAIN o
      /\ DOMAIN o = 1 .. Len(o) /\ o[Len(o)] = r
  BY BlocksAreNodes DEF SearchFound
<1>2. In(up) = {r} /\ up[r] = r /\ up \in [Nodes -> Nodes \union {None}]
  BY <1>1 DEF In
<1>3. Rank(o)[r] \in 0 .. Len(o) /\ r \in ToSet(o)
  <2>1. Rank(o)[r] \in DOMAIN o /\ r \in ToSet(o)
    BY RankIs
  <2> QED
    BY <1>1, <2>1
<1>4. IsTree(up, Rank(o), r, Len(o))
  BY <1>1, <1>2, <1>3 DEF IsTree
<1>5. FirstPass(up, o, 2)
  <2>1. \A k \in DOMAIN o : k > Len(o) + 1 - 2 <=> k = Len(o)
    BY <1>1
  <2> QED
    BY <1>1, <1>2, <2>1 DEF FirstPass
<1>6. Complete(up, sc, r)
  BY <1>2 DEF Complete
<1>7. 2 <= Len(o) + 1
  BY <1>1
<1>8. \A k \in 2 .. 2 - 1 : FALSE
  OBVIOUS
<1> QED
  BY <1>2, <1>3, <1>4, <1>5, <1>6, <1>7, <1>8 DEF Passing

LEMMA TreeIsNumbered ==
  ASSUME IsTree(idom, Rank(order), root, Len(order)), In(idom) \subseteq ToSet(order),
         NEW sc, NEW r, SearchFound(order, sc, r)
  PROVE  Numbered
<1>1. \A n \in Known : Number[n] = Rank(order)[n] /\ n \in ToSet(order)
  <2>1. \A n \in ToSet(order) : Rank(order)[n] = PostIndex(n)
    BY DEF Rank, PostIndex
  <2> QED
    BY <2>1, NumberIs, KnownIsIn
<1>2. \A x, y \in Known : Number[x] = Number[y] => x = y
  BY <1>1, RankIs
<1>3. IsTree(idom, Number, root, Len(order))
  BY <1>1, KnownIsIn DEF IsTree
<1> QED
  BY <1>2, <1>3 DEF Numbered

(* A visited node has a predecessor that is known and has a higher number. *)
LEMMA VisitsAreProcessed ==
  ASSUME NEW up, NEW o, NEW sc, NEW pr, NEW r, NEW nx, NEW ch,
         Passing(up, o, sc, pr, r, nx, ch), SearchFound(o, sc, r), Converse(sc, pr),
         nx <= Len(o), NEW b, b = o[Len(o) + 1 - nx]
  PROVE  /\ b \in Nodes /\ b # r /\ b \in ToSet(o)
         /\ Rank(o)[b] = Len(o) + 1 - nx /\ Rank(o)[b] \in 0 .. Len(o)
         /\ \E p \in ToSet(pr[b]) \intersect In(up) : Rank(o)[b] < Rank(o)[p]
<1> DEFINE l == Len(o)
           i == l + 1 - nx
<1>1. /\ l \in Nat /\ DOMAIN o = 1 .. l /\ l \in 1 .. l /\ o[l] = r
      /\ \A j, k \in 1 .. l : o[j] = o[k] => j = k
  BY DEF SearchFound
<1>2. nx \in Nat /\ 2 <= nx
  BY DEF Passing
<1> HIDE DEF l
<1>3. i \in 1 .. l /\ i # l /\ i \in 0 .. l /\ nx <= l
  BY <1>1, <1>2 DEF l
<1>4. b = o[i]
  BY DEF l
<1> HIDE DEF i
<1>5. b \in ToSet(o) /\ Rank(o)[b] = i /\ b # r /\ b \in Nodes
  BY <1>1, <1>3, <1>4, RankIs
<1>6. PICK j \in 1 .. l : i < j /\ b \in ToSet(sc[o[j]])
  BY <1>1, <1>3, <1>4, <1>5 DEF SearchFound
<1>7. o[j] \in ToSet(o) /\ o[j] \in Nodes /\ Rank(o)[o[j]] = j
  BY <1>1, RankIs
<1>8. o[j] \in In(up)
  BY <1>1, <1>6, <1>7 DEF Passing, FirstPass, i, l
<1>9. o[j] \in ToSet(pr[b])
  BY <1>5, <1>6, <1>7 DEF Converse
<1> QED
  BY <1>3, <1>5, <1>6, <1>7, <1>8, <1>9 DEF i, l

(* The common ancestor of its known predecessors has a higher number. *)
LEMMA VisitIsBelow ==
  ASSUME NEW up, NEW o, NEW sc, NEW pr, NEW r, NEW nx, NEW ch,
         Passing(up, o, sc, pr, r, nx, ch), SearchFound(o, sc, r), Converse(sc, pr),
         nx <= Len(o), NEW b, b = o[Len(o) + 1 - nx],
         NEW T, T = ToSet(pr[b]) \intersect In(up),
         NEW new \in In(up),
         Above(up, new) = {x \in In(up) : \A p \in T : x \in Above(up, p)}
  PROVE  Rank(o)[b] < Rank(o)[new]
<1> DEFINE w == Rank(o)  last == Len(o)
<1>1. w[b] \in 0 .. last
  BY VisitsAreProcessed
<1>2. PICK p \in T : w[b] < w[p]
  BY VisitsAreProcessed
<1>3. IsTree(up, w, r, last) /\ last \in Nat
  BY DEF Passing, SearchFound
<1> HIDE DEF w, last
<1>4. new \in Above(up, p)
  <2>1. new \in Above(up, new)
    BY <1>3, AboveIs
  <2> QED
    BY <2>1
<1>5. p \in In(up)
  BY <1>2
<1>6. (new # p => w[p] < w[new]) /\ w[new] \in Nat /\ w[p] \in Nat
  BY <1>3, <1>4, <1>5, AboveChain
<1>7. w[b] < w[new]
  BY <1>1, <1>2, <1>3, <1>6
<1> QED
  BY <1>7 DEF w

LEMMA VisitKeepsPassing ==
  ASSUME NEW up, NEW o, NEW sc, NEW pr, NEW r, NEW nx, NEW ch,
         Passing(up, o, sc, pr, r, nx, ch), SearchFound(o, sc, r), Converse(sc, pr),
         nx <= Len(o), NEW b, b = o[Len(o) + 1 - nx],
         NEW T, T = ToSet(pr[b]) \intersect In(up),
         NEW new \in In(up),
         Above(up, new) = {x \in In(up) : \A p \in T : x \in Above(up, p)}
  PROVE  Passing(Put(up, b, new), o, sc, pr, r, nx + 1, ch \/ up[b] # new)
<1> DEFINE w == Rank(o)  last == Len(o)
<1>1. /\ b \in Nodes /\ b # r /\ b \in ToSet(o)
      /\ w[b] = last + 1 - nx /\ w[b] \in 0 .. last
  BY VisitsAreProcessed
<1>2. PICK p \in T : w[b] < w[p]
  BY VisitsAreProcessed
<1>3. IsTree(up, w, r, last) /\ Complete(up, sc, r) /\ In(up) \subseteq ToSet(o)
  BY DEF Passing
<1>4. /\ last \in Nat /\ nx \in Nat /\ 2 <= nx /\ nx <= last
      /\ DOMAIN o = 1 .. last
  BY DEF Passing, SearchFound
<1> HIDE DEF w, last
<1>5. w[b] < w[new]
  BY VisitIsBelow DEF w
<1> DEFINE up2 == Put(up, b, new)
<1>6. /\ IsTree(up2, w, r, last)
      /\ In(up2) = In(up) \union {b} /\ up2[b] = new
      /\ \A n \in Nodes \ {b} : up2[n] = up[n]
  BY <1>1, <1>3, <1>5, PutIs
<1>7. Complete(up2, sc, r)
  <2>1. \A q \in T : b \in ToSet(sc[q])
    BY <1>1 DEF Converse, In
  <2>2. T \subseteq In(up) /\ T # {}
    BY <1>2
  <2> QED
    BY <1>1, <1>3, <1>5, <2>1, <2>2, PutKeepsComplete
<1>8. In(up2) = ToSet(o) \/ FirstPass(up2, o, nx + 1)
  <2>1. CASE In(up) = ToSet(o)
    BY <1>1, <1>6, <2>1
  <2>2. CASE FirstPass(up, o, nx)
    <3>1. last + 1 - nx \in DOMAIN o
      BY <1>4
    <3>2. \A k \in DOMAIN o :
            k > last + 1 - (nx + 1) <=> k > last + 1 - nx \/ k = last + 1 - nx
      BY <1>4
    <3>3. b = o[last + 1 - nx]
      BY DEF last
    <3> HIDE DEF up2
    <3> QED
      BY <1>6, <2>2, <3>1, <3>2, <3>3 DEF FirstPass, last
  <2> QED
    BY <2>1, <2>2 DEF Passing
<1>9. ASSUME ~(ch \/ up[b] # new), NEW k \in 2 .. (nx + 1) - 1
      PROVE  Fixed(up2, pr, o[last + 1 - k])
  <2>1. up[b] = new /\ up \in [Nodes -> Nodes \union {None}]
    BY <1>3, <1>9 DEF IsTree
  <2>2. up2 = up
    BY <1>1, <2>1 DEF Put
  <2>3. k \in 2 .. nx - 1 \/ k = nx
    BY <1>4
  <2>4. CASE k \in 2 .. nx - 1
    BY <1>9, <2>2, <2>4 DEF Passing, last
  <2>5. CASE k = nx
    <3>1. \A q \in T : new \in Above(up, q)
      <4>1. new \in Above(up, new)
        BY <1>3, AboveIs
      <4> QED
        BY <4>1
    <3>2. Fixed(up, pr, b)
      BY <2>1, <3>1 DEF Fixed
    <3>3. o[last + 1 - k] = b
      BY <2>5 DEF last
    <3> QED
      BY <2>2, <3>2, <3>3
  <2> QED
    BY <2>3, <2>4, <2>5
<1>10. nx + 1 \in Nat /\ 2 <= nx + 1 /\ nx + 1 <= last + 1
  BY <1>4
<1>11. In(up2) \subseteq ToSet(o)
  BY <1>1, <1>3, <1>6
<1>12. (ch \/ up[b] # new) \in BOOLEAN
  OBVIOUS
<1> QED
  BY <1>6, <1>7, <1>8, <1>9, <1>10, <1>11, <1>12 DEF Passing, w, last

LEMMA PassesSettle ==
  ASSUME NEW up, NEW o, NEW sc, NEW pr, NEW r, NEW nx,
         Passing(up, o, sc, pr, r, nx, FALSE), SearchFound(o, sc, r), nx > Len(o)
  PROVE  Settled(up, o, pr, r)
<1> DEFINE last == Len(o)
<1>1. last \in Nat /\ nx \in Nat /\ nx <= last + 1 /\ DOMAIN o = 1 .. last /\ o[last] = r
  BY DEF Passing, SearchFound
<1> HIDE DEF last
<1>2. nx = last + 1
  BY <1>1 DEF last
<1>3. In(up) = ToSet(o)
  <2>1. \A k \in DOMAIN o : k > last + 1 - nx
    BY <1>1, <1>2
  <2>2. FirstPass(up, o, nx) => ToSet(o) \subseteq In(up)
    BY <2>1 DEF FirstPass, ToSet, last
  <2> QED
    BY <2>2 DEF Passing
<1>4. ASSUME NEW n \in ToSet(o) \ {r} PROVE Fixed(up, pr, n)
  <2>1. PICK i \in DOMAIN o : n = o[i]
    BY DEF ToSet
  <2>2. i # last
    BY <1>1, <2>1
  <2>3. last + 1 - i \in 2 .. nx - 1 /\ last + 1 - (last + 1 - i) = i
    BY <1>1, <1>2, <2>1, <2>2
  <2> QED
    BY <2>1, <2>3 DEF Passing, last
<1> QED
  BY <1>3, <1>4 DEF Settled, Fixed
-----------------------------------------------------------------------------
(***************************************************************************)
(* The inductive invariant.                                                *)
(***************************************************************************)
TreeInv ==
  /\ cfg \in Cfgs /\ way \in {"dominators", "postdominators"}
  /\ phase \in {"order", "reverse order", "pass", "done"}
  /\ IsGraph(succ) /\ Converse(succ, pred) /\ Rooted(cfg, way, phase, succ, root)
  /\ Search(order, stack, succ, root)
  /\ phase \in {"order", "reverse order"} => idom = [n \in Nodes |-> None]
  /\ phase \in {"pass", "done"} =>
       /\ stack = << >>
       /\ Passing(idom, order, succ, pred, root, next, changed)
  /\ phase = "done" => Settled(idom, order, pred, root)

LEMMA TreeBegins == TreeInit => TreeInv
<1> SUFFICES ASSUME TreeInit PROVE TreeInv
  OBVIOUS
<1>1. /\ cfg \in Cfgs /\ way \in {"dominators", "postdominators"} /\ phase = "order"
      /\ root = Entry /\ succ = WithExit(cfg, << >>)
      /\ pred = WithExit(Predecessors(cfg), << >>)
      /\ stack = << <<Entry, 1>> >> /\ order = << >>
      /\ idom = [n \in Nodes |-> None]
  BY DEF TreeInit
<1>2. IsGraph(succ) /\ Converse(succ, pred) /\ Forward(cfg, succ, root)
  BY <1>1, GraphBegins
<1>3. Search(order, stack, succ, root)
  BY <1>1, <1>2, SearchBegins, BlocksAreNodes
<1>4. Rooted(cfg, way, phase, succ, root)
  BY <1>1, <1>2 DEF Rooted
<1> QED
  BY <1>1, <1>2, <1>3, <1>4 DEF TreeInv

(***************************************************************************)
(* A visit makes the common ancestor of the known predecessors the parent. *)
(***************************************************************************)
AtHand == order[Len(order) + 1 - next]

Processed == ToSet(pred[AtHand]) \intersect In(idom)

Puts(new) ==
  /\ Above(idom, new) = {x \in In(idom) : \A p \in Processed : x \in Above(idom, p)}
  /\ idom' = Put(idom, AtHand, new) /\ changed' = (changed \/ idom[AtHand] # new)

LEMMA VisitPuts == TreeInv /\ Visit => \E new \in In(idom) : Puts(new)
<1> DEFINE b == AtHand  T == Processed
           processed == Among(pred[b], Known)
           new == Folded(processed)
<1> SUFFICES ASSUME TreeInv, Visit PROVE \E m \in In(idom) : Puts(m)
  OBVIOUS
<1>1. /\ phase = "pass" /\ next <= Len(order)
      /\ processed # << >> => /\ idom' = [idom EXCEPT ![b] = new]
                              /\ changed' = (changed \/ idom[b] # new)
  BY DEF Visit, Folded, AtHand
<1>2. /\ SearchFound(order, succ, root) /\ Converse(succ, pred)
      /\ Passing(idom, order, succ, pred, root, next, changed)
  BY <1>1, SearchEnds DEF TreeInv
<1>3. b \in Nodes /\ T # {}
  <2>1. b = order[Len(order) + 1 - next]
    BY DEF AtHand
  <2> HIDE DEF b
  <2>2. b \in Nodes /\ ToSet(pred[b]) \intersect In(idom) # {}
    BY <1>1, <1>2, <2>1, VisitsAreProcessed
  <2> QED
    BY <2>2 DEF Processed, b
<1>4. T = ToSet(pred[b]) \intersect In(idom)
  BY DEF Processed
<1> HIDE DEF b, T
<1>5. pred[b] \in Seq(Nodes)
  BY <1>2, <1>3 DEF Converse
<1>6. ToSet(processed) = T /\ processed \in Seq(Nodes)
  BY <1>4, <1>5, AmongIs, KnownIsIn
<1>7. processed \in Seq(Known) /\ processed # << >>
  <2>1. processed # << >>
    BY <1>3, <1>6, Empty
  <2>2. \A k \in DOMAIN processed : processed[k] \in Known
    BY <1>4, <1>6, KnownIsIn DEF ToSet
  <2>3. processed \in Seq(Known)
    BY <1>6, <2>2
  <2> QED
    BY <2>1, <2>3
<1>8. Numbered
  BY <1>2, TreeIsNumbered DEF Passing
<1> HIDE DEF processed, new
<1>9. /\ new \in In(idom)
      /\ Above(idom, new) = {x \in In(idom) : \A p \in T : x \in Above(idom, p)}
  <2>1. /\ new \in Known
        /\ Above(idom, new)
             = {x \in Known : \A k \in DOMAIN processed : x \in Above(idom, processed[k])}
    BY <1>7, <1>8, FoldedMeets DEF new
  <2>2. \A x : (\A k \in DOMAIN processed : x \in Above(idom, processed[k]))
                 <=> \A p \in T : x \in Above(idom, p)
    BY <1>6 DEF ToSet
  <2> QED
    BY <2>1, <2>2, KnownIsIn
<1>10. idom' = Put(idom, b, new) /\ changed' = (changed \/ idom[b] # new)
  BY <1>1, <1>7 DEF Put
<1> QED
  BY <1>9, <1>10 DEF Puts, b, T

LEMMA TreeVisits == TreeInv /\ Visit => TreeInv'
<1> SUFFICES ASSUME TreeInv, Visit PROVE TreeInv'
  OBVIOUS
<1>1. /\ phase = "pass" /\ next <= Len(order) /\ next' = next + 1
      /\ UNCHANGED <<cfg, way, succ, pred, root, phase, stack, order>>
  BY DEF Visit, graphVars
<1>2. /\ SearchFound(order, succ, root) /\ Converse(succ, pred)
      /\ Passing(idom, order, succ, pred, root, next, changed)
  BY <1>1, SearchEnds DEF TreeInv
<1>3. PICK new \in In(idom) : Puts(new)
  BY VisitPuts
<1>4. Passing(Put(idom, AtHand, new), order, succ, pred, root, next + 1,
              changed \/ idom[AtHand] # new)
  <2>1. AtHand = order[Len(order) + 1 - next]
    BY DEF AtHand
  <2>2. Processed = ToSet(pred[AtHand]) \intersect In(idom)
    BY DEF Processed
  <2>3. Above(idom, new) = {x \in In(idom) : \A p \in Processed : x \in Above(idom, p)}
    BY <1>3 DEF Puts
  <2> QED
    BY <1>1, <1>2, <2>1, <2>2, <2>3, VisitKeepsPassing
<1>5. Passing(idom', order', succ', pred', root', next', changed')
  BY <1>1, <1>3, <1>4 DEF Puts
<1> QED
  BY <1>1, <1>5 DEF TreeInv

LEMMA TreeSteps == TreeInv /\ [TreeNext]_treeVars => TreeInv'
<1> SUFFICES ASSUME TreeInv, [TreeNext]_treeVars PROVE TreeInv'
  OBVIOUS
<1>1. /\ cfg \in Cfgs /\ way \in {"dominators", "postdominators"}
      /\ phase \in {"order", "reverse order", "pass", "done"}
      /\ IsGraph(succ) /\ Converse(succ, pred) /\ Rooted(cfg, way, phase, succ, root)
      /\ Search(order, stack, succ, root)
      /\ phase \in {"order", "reverse order"} => idom = [n \in Nodes |-> None]
      /\ phase \in {"pass", "done"} =>
           stack = << >> /\ Passing(idom, order, succ, pred, root, next, changed)
      /\ phase = "done" => Settled(idom, order, pred, root)
  BY DEF TreeInv
<1>2. stack = << >> => SearchFound(order, succ, root)
  BY <1>1, SearchEnds
<1>3. CASE Descend
  <2> DEFINE n == Len(stack)
             node == stack[n][1]
             at == stack[n][2]
             tt == Append(Caller, <<node, at + 1>>)
  <2>1. /\ phase \in {"order", "reverse order"} /\ stack # << >>
        /\ at <= Len(succ[node])
        /\ stack' = tt \o (IF succ[node][at] \in Visited THEN << >>
                           ELSE << <<succ[node][at], 1>> >>)
        /\ UNCHANGED <<cfg, way, phase, succ, pred, root, order, idom, next, changed>>
    BY <1>3 DEF Descend, Searching, Last, graphVars
  <2>2. /\ stack \in Seq(Calls) /\ n \in Nat /\ n \in DOMAIN stack
        /\ order \in Seq(Nodes) /\ stack[n] \in Calls
    <3>1. stack \in Seq(Calls) /\ order \in Seq(Nodes)
      BY <1>1 DEF Search
    <3>2. n \in Nat /\ n \in DOMAIN stack
      <4>1. stack # << >>
        BY <2>1
      <4> QED
        BY <3>1, <4>1
    <3>3. stack[n] \in Calls
      BY <3>1, <3>2
    <3> QED
      BY <3>1, <3>2, <3>3
  <2>3. node \in Nodes /\ at \in Nat \ {0} /\ stack[n] = <<node, at>>
    BY <2>2 DEF Calls
  <2>4. succ[node] \in Seq(Nodes) /\ at \in DOMAIN succ[node]
    <3>1. succ[node] \in Seq(Nodes)
      BY <1>1, <2>3 DEF IsGraph
    <3>2. at <= Len(succ[node]) /\ at \in Nat \ {0}
      BY <2>1, <2>3
    <3> HIDE DEF node, at
    <3> QED
      BY <3>1, <3>2
  <2>5. succ[node][at] \in Nodes /\ succ[node][at] \in ToSet(succ[node])
    BY <2>4 DEF ToSet
  <2>6. <<node, at + 1>> \in Calls
    BY <2>3 DEF Calls
  <2>7. Caller = SubSeq(stack, 1, n - 1)
    BY DEF Caller
  <2> HIDE DEF n, node, at, tt
  <2>8. /\ tt \in Seq(Calls) /\ Len(tt) = n /\ DOMAIN tt = 1 .. n
        /\ \A k \in 1 .. n - 1 : tt[k] = stack[k]
        /\ tt[n] = <<node, at + 1>>
    <3>1. stack # << >> /\ n = Len(stack)
      BY <2>1 DEF n
    <3>2. tt = Append(SubSeq(stack, 1, n - 1), <<node, at + 1>>)
      BY <2>7 DEF tt
    <3> QED
      BY <2>2, <2>6, <3>1, <3>2, LastReplaced
  <2>9. Visited = Seen(order, stack)
    BY DEF Visited, Seen, Called
  <2>10. Search(order, stack', succ, root)
    <3>1. CASE succ[node][at] \in Visited
      <4>1. stack' = tt
        BY <2>1, <2>8, <3>1, ThenOne, <2>6
      <4> QED
        <5>1. n \in 1 .. n /\ \A k \in 1 .. n : k # n => k \in 1 .. n - 1
          BY <2>2 DEF n
        <5>2. \A k \in 1 .. n : k # n => stack'[k] = stack[k]
          BY <2>8, <4>1, <5>1
        <5>3. DOMAIN stack = 1 .. n
          BY <2>2 DEF n
        <5>4. /\ at <= Len(succ[node]) /\ succ[node][at] \in Seen(order, stack)
              /\ IsGraph(succ) /\ Search(order, stack, succ, root)
              /\ stack[n][1] = node /\ stack[n][2] = at
          <6>1. stack[n][1] = node /\ stack[n][2] = at
            BY DEF node, at
          <6>2. at <= Len(succ[node]) /\ succ[node][at] \in Seen(order, stack)
            BY <2>1, <2>9, <3>1
          <6> QED
            BY <1>1, <6>1, <6>2
        <5>5. stack' \in Seq(Calls) /\ DOMAIN stack' = 1 .. n /\ stack'[n] = <<node, at + 1>>
          BY <2>8, <4>1
        <5>6. MovesOn(stack, stack', n)
          BY <5>1, <5>2, <5>3, <5>4, <5>5 DEF MovesOn
        <5> QED
          BY <5>4, <5>6, SearchMovesOn
    <3>2. CASE succ[node][at] \notin Visited
      <4> DEFINE new == succ[node][at]
      <4>1. new \in Nodes /\ new \in ToSet(succ[node]) /\ new \notin Seen(order, stack)
        BY <2>5, <2>9, <3>2
      <4>2. <<new, 1>> \in Calls
        BY <4>1 DEF Calls
      <4>3. stack' = Append(tt, <<new, 1>>)
        <5>1. stack' = tt \o << <<succ[node][at], 1>> >>
          BY <2>1, <3>2
        <5>2. tt \in Seq(Calls)
          BY <2>8
        <5>3. tt \o << <<new, 1>> >> = Append(tt, <<new, 1>>)
          BY <4>2, <5>2, ThenOne
        <5> QED
          BY <5>1, <5>3
      <4> HIDE DEF new
      <4> DEFINE called == Append(stack, <<new, 1>>)
      <4>4. Search(order, called, succ, root)
        <5>1. /\ stack # << >> /\ n = Len(stack) /\ node = stack[n][1]
              /\ Search(order, stack, succ, root) /\ IsGraph(succ)
          BY <1>1, <2>1 DEF n, node
        <5>2. Search(order, Append(stack, <<new, 1>>), succ, root)
          BY <2>2, <4>1, <5>1, SearchCalls
        <5> QED
          BY <5>2
      <4>5. /\ called \in Seq(Calls) /\ DOMAIN called = 1 .. n + 1
            /\ \A k \in 1 .. n : called[k] = stack[k]
            /\ called[n + 1] = <<new, 1>>
        BY <2>2, <4>2, ThenOne DEF n
      <4>6. /\ stack' \in Seq(Calls) /\ DOMAIN stack' = 1 .. n + 1
            /\ \A k \in 1 .. n : stack'[k] = tt[k]
            /\ stack'[n + 1] = <<new, 1>>
        BY <2>8, <4>2, <4>3, ThenOne
      <4> HIDE DEF called
      <4>7. n \in 1 .. n + 1 /\ n + 1 \in Nat
        <5>1. n # 0
          <6>1. stack # << >>
            BY <2>1
          <6> QED
            BY <2>2, <6>1 DEF n
        <5> QED
          BY <2>2, <5>1 DEF n
      <4>8. \A k \in 1 .. n + 1 : k = n + 1 \/ k = n \/ k \in 1 .. n - 1
        BY <2>2 DEF n
      <4>9. \A k \in 1 .. n - 1 : k \in 1 .. n
        BY <2>2 DEF n
      <4>10. \A k \in 1 .. n + 1 : k # n => stack'[k] = called[k]
        BY <2>8, <4>5, <4>6, <4>8, <4>9
      <4>11. n \in 1 .. n
        BY <2>2 DEF n
      <4>12. called[n] = <<node, at>> /\ stack'[n] = <<node, at + 1>>
        BY <2>3, <2>8, <4>5, <4>6, <4>11
      <4>13. new \in Seen(order, called)
        BY <4>5, <4>7 DEF Seen, Called
      <4>14. Len(called) = n + 1
        BY <4>5, <4>7
      <4> QED
        <5>1. at <= Len(succ[node]) /\ succ[node][at] \in Seen(order, called) /\ IsGraph(succ)
          BY <1>1, <2>1, <4>13 DEF new
        <5>2. DOMAIN called = 1 .. n + 1
          BY <4>5
        <5>3. called[n][1] = node /\ called[n][2] = at
          BY <4>12
        <5>4. MovesOn(called, stack', n)
          BY <4>6, <4>7, <4>10, <4>12, <5>2, <5>3 DEF MovesOn
        <5> QED
          BY <4>4, <5>1, <5>3, <5>4, SearchMovesOn
    <3> QED
      BY <3>1, <3>2
  <2> QED
    BY <1>1, <2>1, <2>10 DEF TreeInv
<1>4. CASE Finish
  <2> DEFINE n == Len(stack)
             node == stack[n][1]
  <2>1. /\ phase \in {"order", "reverse order"} /\ stack # << >>
        /\ stack[n][2] > Len(succ[node])
        /\ order' = Append(order, node) /\ stack' = SubSeq(stack, 1, n - 1)
        /\ UNCHANGED <<cfg, way, phase, succ, pred, root, idom, next, changed>>
    BY <1>4 DEF Finish, Searching, Last, Caller, graphVars
  <2>2. n \in Nat
    <3>1. stack \in Seq(Calls)
      BY <1>1 DEF Search
    <3> QED
      BY <3>1
  <2> HIDE DEF n, node
  <2>3. Search(order', stack', succ, root)
    <3>1. /\ stack # << >> /\ n = Len(stack) /\ node = stack[n][1]
          /\ stack[n][2] > Len(succ[node])
          /\ Search(order, stack, succ, root) /\ IsGraph(succ)
      BY <1>1, <2>1 DEF n, node
    <3>2. Search(Append(order, node), SubSeq(stack, 1, n - 1), succ, root)
      BY <2>2, <3>1, SearchReturns
    <3> QED
      BY <2>1, <3>2
  <2> QED
    BY <1>1, <2>1, <2>3 DEF TreeInv
<1>5. CASE ReverseGraph
  <2>1. /\ phase = "order" /\ stack = << >> /\ way = "postdominators"
        /\ phase' = "reverse order" /\ root' = ReverseRoot
        /\ stack' = << <<ReverseRoot, 1>> >> /\ order' = << >>
        /\ succ' = WithExit(Kept(Predecessors(cfg)),
                            IF ReverseRoot = VirtualExit THEN Exits ELSE << >>)
        /\ pred' = WithExit([b \in Blocks |->
                               IF ReverseRoot = VirtualExit /\ b \in ToSet(Exits)
                               THEN << VirtualExit >> ELSE Kept(cfg)[b]],
                            << >>)
        /\ UNCHANGED <<cfg, way, idom, next, changed>>
    BY <1>5 DEF ReverseGraph
  <2>2. /\ order \in Seq(Nodes) /\ order # << >>
        /\ ToSet(order) = Reach(EdgesOf(succ), {root})
    BY <1>1, <1>2, <2>1 DEF SearchFound, Search
  <2>3. Reachable = LiveIn(cfg)
    BY <1>1, <2>1, <2>2 DEF Rooted, Forward, LiveIn, Reachable
  <2>4. /\ IsGraph(succ') /\ Converse(succ', pred')
        /\ Backward(cfg, succ', ReverseRoot) /\ ReverseRoot \in Nodes
    BY <1>1, <2>1, <2>2, <2>3, GraphTurns
  <2>5. Search(order', stack', succ', root')
    BY <2>1, <2>4, SearchBegins
  <2>6. Rooted(cfg', way', phase', succ', root')
    BY <2>1, <2>4 DEF Rooted
  <2> QED
    BY <1>1, <2>1, <2>4, <2>5, <2>6 DEF TreeInv
<1>6. CASE StartPasses
  <2>1. /\ stack = << >> /\ phase \in {"order", "reverse order"}
        /\ phase = "reverse order" \/ (phase = "order" /\ way = "dominators")
        /\ phase' = "pass" /\ next' = 2 /\ changed' = FALSE
        /\ idom' = [idom EXCEPT ![root] = root]
        /\ UNCHANGED <<cfg, way, succ, pred, root, stack, order>>
    BY <1>6 DEF StartPasses, graphVars
  <2>2. idom' = [n \in Nodes |-> IF n = root THEN root ELSE None]
    BY <1>1, <2>1 DEF Search
  <2>3. Passing(idom', order, succ, pred, root, 2, FALSE)
    BY <1>2, <2>1, <2>2, PassesBegin
  <2>4. Rooted(cfg, way, phase', succ, root)
    BY <1>1, <2>1 DEF Rooted
  <2> QED
    BY <1>1, <2>1, <2>3, <2>4 DEF TreeInv
<1>7. CASE Visit
  BY <1>7, TreeVisits
<1>8. CASE PassEnds
  <2>1. /\ phase = "pass" /\ next > Len(order)
        /\ \/ changed /\ next' = 2 /\ changed' = FALSE /\ phase' = phase
           \/ ~changed /\ phase' = "done" /\ next' = next /\ changed' = changed
        /\ UNCHANGED <<cfg, way, succ, pred, root, stack, order, idom>>
    BY <1>8 DEF PassEnds, graphVars
  <2>2. /\ SearchFound(order, succ, root)
        /\ Passing(idom, order, succ, pred, root, next, changed)
    BY <1>1, <1>2, <2>1
  <2>3. CASE changed /\ next' = 2 /\ changed' = FALSE /\ phase' = phase
    <3>1. In(idom) = ToSet(order)
      <4>1. /\ Len(order) \in Nat /\ next \in Nat /\ next <= Len(order) + 1
            /\ DOMAIN order = 1 .. Len(order)
        BY <2>2 DEF Passing, SearchFound
      <4>2. \A k \in DOMAIN order : k > Len(order) + 1 - next
        BY <2>1, <4>1
      <4>3. FirstPass(idom, order, next) => ToSet(order) \subseteq In(idom)
        BY <4>2 DEF FirstPass, ToSet
      <4> QED
        BY <2>2, <4>3 DEF Passing
    <3>2. Passing(idom, order, succ, pred, root, 2, FALSE)
      <4>1. 2 <= Len(order) + 1
        BY <2>2 DEF SearchFound
      <4>2. \A k \in 2 .. 2 - 1 : FALSE
        OBVIOUS
      <4> QED
        BY <2>2, <3>1, <4>1, <4>2 DEF Passing
    <3>3. Passing(idom', order', succ', pred', root', next', changed')
      BY <2>1, <2>3, <3>2
    <3>4. phase' = "pass" /\ stack' = << >>
      BY <1>1, <2>1, <2>3
    <3> QED
      BY <1>1, <2>1, <3>3, <3>4 DEF TreeInv
  <2>4. CASE ~changed /\ phase' = "done" /\ next' = next /\ changed' = changed
    <3>1. changed = FALSE
      BY <2>2, <2>4 DEF Passing
    <3>2. Settled(idom, order, pred, root)
      BY <2>1, <2>2, <3>1, PassesSettle
    <3>3. Passing(idom', order', succ', pred', root', next', changed')
      BY <2>1, <2>2, <2>4
    <3>4. Rooted(cfg', way', phase', succ', root')
      BY <1>1, <2>1, <2>4 DEF Rooted
    <3>5. stack' = << >>
      BY <1>1, <2>1
    <3> QED
      BY <1>1, <2>1, <2>4, <3>2, <3>3, <3>4, <3>5 DEF TreeInv
  <2> QED
    BY <2>1, <2>3, <2>4
<1>9. CASE UNCHANGED treeVars
  BY <1>9 DEF treeVars, TreeInv
<1> QED
  BY <1>3, <1>4, <1>5, <1>6, <1>7, <1>8, <1>9 DEF TreeNext

(***************************************************************************)
(* The invariant holds in every state, for any graph with any number of    *)
(* blocks: a search's stack is a path, what it has finished is in          *)
(* post-order, and in every pass idom is a tree that has lost no node that *)
(* all paths lead through.                                                 *)
(***************************************************************************)
THEOREM TreeAlwaysInv == TreeSpec => []TreeInv
  BY TreeBegins, TreeSteps, PTL DEF TreeSpec

-----------------------------------------------------------------------------
(***************************************************************************)
(* The finished tree against the nodes above: the walk up over Tree meets  *)
(* the nodes above a block, the virtual exit apart.                        *)
(***************************************************************************)
Finished ==
  /\ IsTree(idom, Rank(order), root, Len(order))
  /\ In(idom) = Reachable /\ root \in Reachable /\ Reachable \subseteq Nodes
  /\ VirtualExit \in Reachable => root = VirtualExit

LEMMA WalkMeetsAbove ==
  ASSUME Finished, NEW b \in Reachable, b # VirtualExit
  PROVE  Reach(Tree, {b}) = Above(idom, b) \ {VirtualExit}
<1>1. /\ In(idom) = Reachable /\ IsTree(idom, Rank(order), root, Len(order))
      /\ root \in Reachable /\ Reachable \subseteq Nodes
      /\ VirtualExit \in Reachable => root = VirtualExit
  BY DEF Finished
<1>2. \A e : e \in Tree <=> \E n \in Reachable \ {root, VirtualExit} :
                              idom[n] \notin {None, VirtualExit} /\ e = <<n, idom[n]>>
  BY DEF Tree
<1>3. \A n \in Reachable : idom[n] \in Reachable /\ idom[n] # None
  BY <1>1, AboveStep, BlocksAreNodes
<1>4. Tree \subseteq Nodes \X Nodes /\ {b} \subseteq Nodes
  BY <1>1, <1>2, <1>3
<1>5. /\ {b} \subseteq Reach(Tree, {b}) /\ Closed(Tree, Reach(Tree, {b}))
      /\ \A S : {b} \subseteq S /\ Closed(Tree, S) => Reach(Tree, {b}) \subseteq S
  BY <1>4, ReachIs
<1>6. Reach(Tree, {b}) \subseteq Above(idom, b) \ {VirtualExit}
  <2> DEFINE S == Above(idom, b) \ {VirtualExit}
  <2>1. {b} \subseteq S
    BY <1>1, AboveIs
  <2>2. ASSUME NEW e \in Tree, e[1] \in S PROVE e[2] \in S
    <3>1. PICK n \in Reachable : idom[n] \notin {None, VirtualExit} /\ e = <<n, idom[n]>>
      BY <1>2
    <3>2. e[1] = n /\ e[2] = idom[n]
      BY <3>1
    <3> QED
      BY <1>1, <2>2, <3>1, <3>2, AboveIs
  <2>3. Closed(Tree, S)
    BY <2>2 DEF Closed
  <2> HIDE DEF S
  <2>4. Reach(Tree, {b}) \subseteq S
    BY <1>5, <2>1, <2>3
  <2> QED
    BY <2>4 DEF S
<1>7. Above(idom, b) \subseteq Reach(Tree, {b}) \union {VirtualExit}
  <2> DEFINE S == Reach(Tree, {b}) \union {VirtualExit}
  <2>1. b \in S
    BY <1>5
  <2>2. ASSUME NEW x \in S \intersect In(idom) PROVE idom[x] \in S
    <3>1. x \in Reachable /\ idom[root] = root
      BY <1>1 DEF IsTree
    <3>2. CASE x = VirtualExit
      BY <1>1, <2>2, <3>1, <3>2
    <3>3. CASE x = root
      BY <2>2, <3>1, <3>3
    <3>4. CASE idom[x] = VirtualExit
      BY <3>4
    <3>5. CASE x \notin {root, VirtualExit} /\ idom[x] # VirtualExit
      <4>1. <<x, idom[x]>> \in Tree
        BY <1>2, <1>3, <3>1, <3>5
      <4>2. <<x, idom[x]>>[1] = x /\ <<x, idom[x]>>[2] = idom[x]
        OBVIOUS
      <4>3. x \in Reach(Tree, {b})
        BY <2>2, <3>5
      <4> QED
        BY <1>5, <4>1, <4>2, <4>3 DEF Closed
    <3> QED
      BY <3>2, <3>3, <3>4, <3>5
  <2> HIDE DEF S
  <2>3. Above(idom, b) \subseteq S
    BY <1>1, <2>1, <2>2, AboveIs
  <2> QED
    BY <2>3 DEF S
<1> QED
  BY <1>6, <1>7

(***************************************************************************)
(* The paths of the property against those of the graph the tree is of.    *)
(***************************************************************************)
LEMMA WithoutIs ==
  ASSUME way \in {"dominators", "postdominators"}, root \in Nodes,
         Rooted(cfg, way, "done", succ, root), NEW a, a \in Blocks \union {None}
  PROVE  Without(a, Live) = Avoid(succ, root, a) \ {VirtualExit}
<1> DEFINE E == {e \in Directed : {e[1], e[2]} \subseteq Live \ {a}}
           A == Starts \ {a}
           W == Without(a, Live)
<1>1. Edges = Flow(cfg) /\ Live = LiveIn(cfg)
  BY DEF Edges, Live, Flow, LiveIn
<1>2. /\ Live \subseteq Blocks /\ Entry \in Live
      /\ \A e \in Edges : e[1] \in Live => e[2] \in Live
  BY <1>1, FlowReach
<1>3. E \subseteq Nodes \X Nodes
  <2>1. Directed \subseteq Blocks \X Blocks
    BY DEF Directed, Edges
  <2> QED
    BY <2>1, BlocksAreNodes
<1>4. Starts = IF way = "dominators" THEN {Entry}
               ELSE IF ExitsIn(cfg) = {} THEN {root} ELSE ExitsIn(cfg)
  BY <1>1 DEF Starts, ExitsIn
<1>5. way = "dominators" => Forward(cfg, succ, root)
  BY DEF Rooted
<1>6. way # "dominators" => Backward(cfg, succ, root)
  BY DEF Rooted
<1>7. /\ E \subseteq EdgesOf(succ) /\ \A e \in E : a \notin {e[1], e[2]} /\ e[2] \in Live
      /\ \A e \in EdgesOf(succ) : a \notin {e[1], e[2]} /\ e[1] \in Live => e \in E
  <2>1. CASE way = "dominators"
    <3>1. Directed = Edges /\ EdgesOf(succ) = Edges
      BY <1>1, <1>5, <2>1 DEF Directed, Forward
    <3> QED
      BY <1>2, <3>1
  <2>2. CASE way # "dominators"
    <3>1. Directed = {<<e[2], e[1]>> : e \in Edges}
      BY <2>2 DEF Directed
    <3>2. \A e \in Nodes \X Nodes : e = <<e[1], e[2]>>
      OBVIOUS
    <3>3. \A e \in Edges : e = <<e[1], e[2]>>
      BY DEF Edges
    <3>4. \A e \in Nodes \X Nodes : e \in Directed <=> <<e[2], e[1]>> \in Edges
      <4> TAKE e \in Nodes \X Nodes
      <4>1. e = <<e[1], e[2]>>
        OBVIOUS
      <4>2. <<e[2], e[1]>> \in Edges => <<<<e[2], e[1]>>[2], <<e[2], e[1]>>[1]>> \in Directed
        BY <3>1
      <4>3. <<<<e[2], e[1]>>[2], <<e[2], e[1]>>[1]>> = e
        BY <4>1
      <4>4. ASSUME e \in Directed PROVE <<e[2], e[1]>> \in Edges
        <5>1. PICK d \in Edges : e = <<d[2], d[1]>>
          BY <3>1, <4>4
        <5>2. e[1] = d[2] /\ e[2] = d[1]
          BY <5>1
        <5> QED
          BY <3>3, <5>2
      <4> QED
        BY <4>2, <4>3, <4>4
    <3>5. \A e : e \in Turned(cfg) <=> e \in LiveIn(cfg) \X LiveIn(cfg) /\ <<e[2], e[1]>> \in Edges
      BY <1>1 DEF Turned
    <3>6. \A e \in Nodes \X Nodes :
            e \in Turned(cfg) <=> e[1] \in Live /\ e[2] \in Live /\ e \in Directed
      <4> TAKE e \in Nodes \X Nodes
      <4>1. e \in LiveIn(cfg) \X LiveIn(cfg) <=> e[1] \in LiveIn(cfg) /\ e[2] \in LiveIn(cfg)
        BY <3>2
      <4> QED
        BY <1>1, <3>4, <3>5, <4>1
    <3>7. Turned(cfg) \subseteq Nodes \X Nodes
      BY <1>1, <1>2, BlocksAreNodes DEF Turned
    <3>8. Turned(cfg) \subseteq EdgesOf(succ)
      BY <1>6, <2>2 DEF Backward
    <3>9. \A e \in EdgesOf(succ) : e[1] \in Live => e \in Turned(cfg)
      <4>1. \A e \in {VirtualExit} \X ExitsIn(cfg) : e[1] \notin Live
        BY <1>2, BlocksAreNodes
      <4> QED
        BY <1>6, <2>2, <4>1 DEF Backward
    <3>10. \A e \in E : e \in Turned(cfg) /\ a \notin {e[1], e[2]} /\ e[2] \in Live
      BY <1>3, <3>6
    <3>11. \A e \in EdgesOf(succ) : a \notin {e[1], e[2]} /\ e[1] \in Live => e \in E
      BY <3>6, <3>7, <3>9
    <3> QED
      BY <3>8, <3>10, <3>11
  <2> QED
    BY <2>1, <2>2
<1>8. /\ Starts \subseteq Live
      /\ root # VirtualExit => Starts = {root}
      /\ root = VirtualExit => \A x : x \in Starts <=> <<VirtualExit, x>> \in EdgesOf(succ)
  <2>1. CASE way = "dominators"
    BY <1>2, <1>4, <1>5, <2>1, BlocksAreNodes DEF Forward
  <2>2. CASE way # "dominators"
    <3>1. ExitsIn(cfg) \subseteq Live
      BY <1>1 DEF ExitsIn
    <3>2. \/ root = VirtualExit /\ ExitsIn(cfg) # {}
          \/ root \in Live /\ (ExitsIn(cfg) = {} \/ ExitsIn(cfg) = {root})
      BY <1>1, <1>6, <2>2 DEF Backward
    <3>3. root = VirtualExit => \A x : x \in ExitsIn(cfg) <=> <<VirtualExit, x>> \in EdgesOf(succ)
      <4>1. \A x : <<VirtualExit, x>> \notin Turned(cfg)
        BY <1>1, <1>2, BlocksAreNodes DEF Turned
      <4> QED
        BY <1>6, <2>2, <4>1 DEF Backward
    <3>4. root = VirtualExit => root \notin Live
      BY <1>2, BlocksAreNodes
    <3> QED
      BY <1>4, <2>2, <3>1, <3>2, <3>3, <3>4
  <2> QED
    BY <2>1, <2>2
<1>9. A \subseteq Nodes /\ W = Reach(E, A)
  BY <1>2, <1>8, BlocksAreNodes DEF Without
<1> HIDE DEF E, A, W
<1>10. /\ A \subseteq W /\ Closed(E, W)
       /\ \A S : A \subseteq S /\ Closed(E, S) => W \subseteq S
  BY <1>3, <1>9, ReachIs
<1>11. W \subseteq Live
  <2>1. A \subseteq Live /\ Closed(E, Live)
    BY <1>7, <1>8 DEF Closed, A
  <2> QED
    BY <1>10, <2>1
<1>12. a # VirtualExit /\ VirtualExit \notin Live
  BY <1>2, BlocksAreNodes
<1>13. W \subseteq Avoid(succ, root, a)
  <2>1. Closed(E, Avoid(succ, root, a))
    BY <1>7, AvoidIs DEF Closed
  <2>2. A \subseteq Avoid(succ, root, a)
    <3>1. CASE root # VirtualExit
      <4>1. A = {root} \ {a}
        BY <1>8, <3>1 DEF A
      <4>2. root # a => root \in Avoid(succ, root, a)
        BY AvoidIs
      <4> QED
        BY <4>1, <4>2
    <3>2. CASE root = VirtualExit
      <4>1. root \in Avoid(succ, root, a)
        BY <1>12, <3>2, AvoidIs
      <4> SUFFICES ASSUME NEW x \in A PROVE x \in Avoid(succ, root, a)
        OBVIOUS
      <4>2. <<VirtualExit, x>> \in EdgesOf(succ) /\ x # a
        BY <1>8, <3>2 DEF A
      <4>3. PICK e \in EdgesOf(succ) : e[1] = VirtualExit /\ e[2] = x
        BY <4>2
      <4>4. a \notin {e[1], e[2]} /\ e[1] \in Avoid(succ, root, a)
        BY <1>12, <3>2, <4>1, <4>2, <4>3
      <4>5. e[2] \in Avoid(succ, root, a)
        BY <4>4, AvoidIs
      <4> QED
        BY <4>3, <4>5
    <3> QED
      BY <3>1, <3>2
  <2> QED
    BY <1>10, <2>1, <2>2
<1>14. Avoid(succ, root, a) \subseteq W \union {VirtualExit}
  <2> DEFINE S == W \union {VirtualExit}
  <2>1. {root} \ {a} \subseteq S
    BY <1>8, <1>10 DEF A
  <2>2. ASSUME NEW e \in EdgesOf(succ), a \notin {e[1], e[2]}, e[1] \in S
        PROVE  e[2] \in S
    <3>1. CASE e[1] \in W
      BY <1>7, <1>10, <1>11, <2>2, <3>1 DEF Closed
    <3>2. CASE e[1] = VirtualExit
      <4>1. e = <<VirtualExit, e[2]>>
        BY <3>2 DEF EdgesOf
      <4>2. root = VirtualExit
        <5>1. way = "dominators" => e[1] \in Blocks
          BY <1>5 DEF Forward, Flow
        <5>2. e \notin Turned(cfg)
          BY <1>1, <1>12, <3>2 DEF Turned
        <5>3. way # "dominators" => root = VirtualExit
          BY <1>6, <5>2 DEF Backward
        <5> QED
          BY <3>2, <5>1, <5>3, BlocksAreNodes
      <4>3. e[2] \in Starts
        BY <1>8, <4>1, <4>2
      <4> QED
        BY <1>10, <2>2, <4>3 DEF A
    <3> QED
      BY <2>2, <3>1, <3>2
  <2> HIDE DEF S
  <2>3. Avoid(succ, root, a) \subseteq S
    BY <2>1, <2>2, AvoidIs
  <2> QED
    BY <2>3 DEF S
<1>15. W = Avoid(succ, root, a) \ {VirtualExit}
  BY <1>11, <1>12, <1>13, <1>14
<1> QED
  BY <1>15 DEF W

(* What the invariant says once the tree is finished. *)
LEMMA DoneIs ==
  ASSUME TreeInv, phase = "done"
  PROVE  /\ Finished
         /\ Reachable = Reach(EdgesOf(succ), {root})
         /\ \A a \in Nodes, n \in Reachable :
              a \in Above(idom, n) <=> n \notin Avoid(succ, root, a)
         /\ Live = LiveIn(cfg) /\ Rooted(cfg, way, "done", succ, root)
         /\ root \in Nodes /\ way \in {"dominators", "postdominators"}
         /\ Converse(succ, pred)
         /\ \A n \in Reachable \ {root} : \A p \in ToSet(pred[n]) \intersect Reachable :
              idom[n] \in Above(idom, p)
<1>1. /\ way \in {"dominators", "postdominators"} /\ IsGraph(succ) /\ Converse(succ, pred)
      /\ Rooted(cfg, way, "done", succ, root) /\ Search(order, << >>, succ, root)
      /\ Passing(idom, order, succ, pred, root, next, changed)
      /\ Settled(idom, order, pred, root)
  BY DEF TreeInv
<1>2. SearchFound(order, succ, root)
  BY <1>1, SearchEnds
<1>3. /\ IsTree(idom, Rank(order), root, Len(order)) /\ Complete(idom, succ, root)
      /\ In(idom) = Reachable
  BY <1>1 DEF Passing, Settled, Reachable
<1>4. root \in Reachable /\ Reachable \subseteq Nodes
  BY <1>2, RankIs DEF Reachable
<1>5. Reachable = Reach(EdgesOf(succ), {root})
  BY <1>2 DEF SearchFound, Reachable
<1>6. VirtualExit \in Reachable => root = VirtualExit
  <2> SUFFICES ASSUME root # VirtualExit PROVE VirtualExit \notin Reachable
    OBVIOUS
  <2>1. EdgesOf(succ) \subseteq Nodes \X Nodes /\ {root} \subseteq Nodes
    BY <1>4 DEF EdgesOf
  <2>2. \A e \in EdgesOf(succ) : e[2] \in Blocks
    <3>1. CASE way = "dominators"
      BY <1>1, <3>1 DEF Rooted, Forward, Flow
    <3>2. CASE way # "dominators"
      <4>1. LiveIn(cfg) \subseteq Blocks
        BY FlowReach
      <4>2. EdgesOf(succ) = Turned(cfg)
        <5>1. Backward(cfg, succ, root)
          BY <1>1, <3>2 DEF Rooted
        <5> QED
          BY <5>1 DEF Backward
      <4>3. \A e \in Turned(cfg) : e[2] \in LiveIn(cfg)
        BY DEF Turned
      <4> QED
        BY <4>1, <4>2, <4>3
    <3> QED
      BY <3>1, <3>2
  <2>3. Closed(EdgesOf(succ), Blocks) /\ {root} \subseteq Blocks
    BY <1>4, <2>2, BlocksAreNodes DEF Closed
  <2>4. Reach(EdgesOf(succ), {root}) \subseteq Blocks
    BY <2>1, <2>3, ReachIs
  <2> QED
    BY <1>5, <2>4, BlocksAreNodes
<1>7. \A a \in Nodes, n \in Reachable : a \in Above(idom, n) <=> n \notin Avoid(succ, root, a)
  BY <1>1, <1>2, <1>3, AboveIsOnEveryPath
<1>8. Live = LiveIn(cfg)
  BY DEF Live, LiveIn, Edges, Flow
<1>9. \A n \in Reachable \ {root} : \A p \in ToSet(pred[n]) \intersect Reachable :
        idom[n] \in Above(idom, p)
  BY <1>1 DEF Settled, Reachable
<1>10. Finished
  BY <1>3, <1>4, <1>6 DEF Finished
<1> QED
  BY <1>1, <1>4, <1>5, <1>7, <1>8, <1>9, <1>10

LEMMA OnEveryPathIs ==
  ASSUME TreeInv, phase = "done", NEW a \in Nodes, NEW b \in Nodes
  PROVE  <<a, b>> \in OnEveryPath <=>
           /\ a \in Reachable \ {VirtualExit} /\ b \in Reachable \ {VirtualExit}
           /\ a \in Above(idom, b)
<1> DEFINE all == Without(None, Live)
<1>1. all = Avoid(succ, root, None) \ {VirtualExit}
  BY DoneIs, WithoutIs
<1>2. Avoid(succ, root, None) = Reachable
  <2>1. /\ Reachable = Reach(EdgesOf(succ), {root}) /\ root \in Nodes /\ None \notin Nodes
    BY DoneIs, BlocksAreNodes
  <2>2. /\ Avoid(succ, root, None) \subseteq Reach(EdgesOf(succ), {root})
        /\ root \in Avoid(succ, root, None)
        /\ \A e \in EdgesOf(succ) :
             None \notin {e[1], e[2]} /\ e[1] \in Avoid(succ, root, None)
               => e[2] \in Avoid(succ, root, None)
    BY <2>1, AvoidIs
  <2>3. EdgesOf(succ) \subseteq Nodes \X Nodes /\ {root} \subseteq Nodes
    BY <2>1 DEF EdgesOf
  <2>4. Closed(EdgesOf(succ), Avoid(succ, root, None))
    BY <2>1, <2>2, <2>3 DEF Closed
  <2>5. Reach(EdgesOf(succ), {root}) \subseteq Avoid(succ, root, None)
    BY <2>2, <2>3, <2>4, ReachIs
  <2> QED
    BY <2>1, <2>2, <2>5
<1>3. OnEveryPath = UNION {{x} \X (all \ Without(x, Live)) : x \in all}
  BY DEF OnEveryPath
<1> HIDE DEF all
<1>4. <<a, b>> \in OnEveryPath <=> a \in all /\ b \in all /\ b \notin Without(a, Live)
  BY <1>3
<1>5. a \in all => Without(a, Live) = Avoid(succ, root, a) \ {VirtualExit}
  <2>1. a \in all => a \in Blocks
    BY <1>1, BlocksAreNodes
  <2> QED
    BY <2>1, DoneIs, WithoutIs
<1>6. b \in Reachable => (a \in Above(idom, b) <=> b \notin Avoid(succ, root, a))
  BY DoneIs
<1> QED
  BY <1>1, <1>2, <1>4, <1>5, <1>6

(* A walk up the finished tree meets what is above its start in idom. *)
LEMMA DominatesIs ==
  ASSUME TreeInv, phase = "done", NEW a \in Nodes, NEW b \in Reachable \ {VirtualExit}
  PROVE  a \in Reach(Tree, {b}) <=> a # VirtualExit /\ a \in Above(idom, b)
<1>1. Finished
  BY DoneIs
<1> QED
  BY <1>1, WalkMeetsAbove

LEMMA TreeInvDominates == TreeInv => DominatesEveryPath
<1> SUFFICES ASSUME TreeInv, phase = "done", NEW a \in Blocks, NEW b \in Blocks
             PROVE  Dominates(a, b) <=> <<a, b>> \in OnEveryPath
  BY DEF DominatesEveryPath
<1>1. a \in Nodes /\ b \in Nodes /\ a # VirtualExit /\ b # VirtualExit
  BY BlocksAreNodes
<1>2. <<a, b>> \in OnEveryPath <=>
        a \in Reachable /\ b \in Reachable /\ a \in Above(idom, b)
  BY <1>1, OnEveryPathIs
<1>3. b \in Reachable => (a \in Reach(Tree, {b}) <=> a \in Above(idom, b))
  BY <1>1, DominatesIs
<1> QED
  BY <1>2, <1>3 DEF Dominates

(***************************************************************************)
(* Dominates answers true exactly for the blocks that every path leads     *)
(* through, for any graph (DominatesEveryPath).                            *)
(***************************************************************************)
THEOREM TreeDominatesEveryPath == TreeSpec => []DominatesEveryPath
  BY TreeAlwaysInv, TreeInvDominates, PTL

LEMMA TreeInvFrontier == TreeInv => FrontierOfJoins
<1> SUFFICES ASSUME TreeInv, phase = "done", NEW x \in Blocks
             PROVE  DominanceFrontier(x) =
                      {y \in Joins : /\ \E p \in ToSet(pred[y]) : <<x, p>> \in OnEveryPath
                                     /\ ~(x # y /\ <<x, y>> \in OnEveryPath)}
  BY DEF FrontierOfJoins
<1>1. /\ Finished /\ Converse(succ, pred)
      /\ \A n \in Reachable \ {root} : \A p \in ToSet(pred[n]) \intersect Reachable :
           idom[n] \in Above(idom, p)
  BY DoneIs
<1>2. /\ IsTree(idom, Rank(order), root, Len(order)) /\ In(idom) = Reachable
      /\ root \in Reachable /\ Reachable \subseteq Nodes
      /\ VirtualExit \in Reachable => root = VirtualExit
  BY <1>1 DEF Finished
<1>3. x \in Nodes /\ x # VirtualExit
  BY BlocksAreNodes
<1>4. ASSUME NEW y \in Joins, NEW p \in ToSet(pred[y])
      PROVE  /\ p \in Nodes /\ y \in Reachable \ {VirtualExit} /\ y \in Nodes
             /\ <<x, p>> \in OnEveryPath
                  <=> p \in Reachable \ {VirtualExit} /\ x \in Reach(Tree, {p})
  <2>1. y \in Reachable \ {VirtualExit} /\ y \in Nodes
    BY <1>2 DEF Joins
  <2>2. pred[y] \in Seq(Nodes)
    BY <1>1, <2>1 DEF Converse
  <2>3. p \in Nodes
    BY <2>2 DEF ToSet
  <2>4. <<x, p>> \in OnEveryPath <=>
          x \in Reachable /\ p \in Reachable \ {VirtualExit} /\ x \in Above(idom, p)
    BY <1>3, <2>3, OnEveryPathIs
  <2>5. p \in Reachable \ {VirtualExit} => (x \in Reach(Tree, {p}) <=> x \in Above(idom, p))
    BY <1>3, DominatesIs
  <2>6. p \in Reachable => Above(idom, p) \subseteq Reachable
    BY <1>2, AboveIs
  <2> QED
    BY <2>1, <2>3, <2>4, <2>5, <2>6
<1>5. ASSUME NEW y \in Joins, NEW p \in ToSet(pred[y]) \intersect Reachable,
             p # VirtualExit, x \in Reach(Tree, {p})
      PROVE  (\E e \in Tree : e[1] = y /\ e[2] \in Reach(Tree, {p}) /\ x \in Reach(Tree, {e[2]}))
               <=> x # y /\ <<x, y>> \in OnEveryPath
  <2>1. y \in Reachable \ {VirtualExit} /\ y \in Nodes /\ p \in Nodes
    BY <1>4
  <2>2. x \in Above(idom, p) /\ x \in Reachable
    BY <1>2, <1>3, <1>5, DominatesIs, AboveIs
  <2>3. <<x, y>> \in OnEveryPath <=> x \in Above(idom, y)
    BY <1>3, <2>1, <2>2, OnEveryPathIs
  <2>4. /\ idom[y] \in Reachable
        /\ Above(idom, y) = {y} \union Above(idom, idom[y])
    BY <1>2, <2>1, AboveStep
  <2>5. ASSUME NEW e \in Tree, e[1] = y, x \in Reach(Tree, {e[2]})
        PROVE  x # y /\ x \in Above(idom, y)
    <3>1. y # root /\ e[2] = idom[y] /\ idom[y] \notin {None, VirtualExit}
      BY <2>5 DEF Tree
    <3>2. x \in Above(idom, idom[y])
      BY <1>3, <2>4, <2>5, <3>1, DominatesIs
    <3>3. Rank(order)[y] < Rank(order)[idom[y]]
      BY <1>2, <2>1, <3>1 DEF IsTree
    <3>4. /\ x # idom[y] => Rank(order)[idom[y]] < Rank(order)[x]
          /\ Rank(order)[idom[y]] \in Nat /\ Rank(order)[x] \in Nat
      BY <1>2, <2>4, <3>2, AboveChain
    <3>5. Rank(order)[y] \in Nat
      BY <1>2, <2>1 DEF IsTree
    <3>6. x # y
      BY <3>3, <3>4, <3>5
    <3> QED
      BY <2>4, <3>2, <3>6
  <2>6. ASSUME x # y, x \in Above(idom, y)
        PROVE  \E e \in Tree : e[1] = y /\ e[2] \in Reach(Tree, {p}) /\ x \in Reach(Tree, {e[2]})
    <3>1. x \in Above(idom, idom[y])
      BY <2>4, <2>6
    <3>2. y # root
      BY <1>2, <2>6, RootIsAbove
    <3>3. idom[y] # VirtualExit
      <4>1. Above(idom, root) = {root} /\ idom[y] = VirtualExit => idom[y] = root
        BY <1>2, <2>1, <2>4, RootIsAbove
      <4>2. idom[y] = root => x = root
        BY <3>1, <4>1, <1>2, RootIsAbove, <2>1
      <4> QED
        BY <1>3, <2>4, <4>1, <4>2, <1>2, RootIsAbove, <2>1
    <3>4. idom[y] # None
      BY <1>2, <2>4, BlocksAreNodes
    <3>5. <<y, idom[y]>> \in Tree
      BY <2>1, <3>2, <3>3, <3>4 DEF Tree
    <3>6. idom[y] \in Above(idom, p)
      BY <1>1, <2>1, <3>2
    <3>7. idom[y] \in Reach(Tree, {p})
      BY <1>2, <1>5, <2>4, <3>3, <3>6, DominatesIs
    <3>8. x \in Reach(Tree, {idom[y]})
      BY <1>3, <2>4, <3>1, <3>3, DominatesIs
    <3>9. <<y, idom[y]>>[1] = y /\ <<y, idom[y]>>[2] = idom[y]
      OBVIOUS
    <3> QED
      BY <3>5, <3>7, <3>8, <3>9
  <2> QED
    BY <2>3, <2>5, <2>6
<1> DEFINE Strict(y) == x # y /\ <<x, y>> \in OnEveryPath
           Climbs(y, p) == \E e \in Tree : e[1] = y /\ e[2] \in Reach(Tree, {p})
                                                    /\ x \in Reach(Tree, {e[2]})
           Stops(y, p) == p # VirtualExit /\ x \in Reach(Tree, {p}) /\ ~ Climbs(y, p)
<1>6. ASSUME NEW y \in Joins
      PROVE  (\E p \in ToSet(pred[y]) \intersect Reachable : Stops(y, p))
               <=> (\E p \in ToSet(pred[y]) : <<x, p>> \in OnEveryPath) /\ ~ Strict(y)
  <2>1. ASSUME NEW p \in ToSet(pred[y]) \intersect Reachable, Stops(y, p)
        PROVE  <<x, p>> \in OnEveryPath /\ ~ Strict(y)
    BY <1>4, <1>5, <2>1
  <2>2. ASSUME NEW p \in ToSet(pred[y]), <<x, p>> \in OnEveryPath, ~ Strict(y)
        PROVE  p \in ToSet(pred[y]) \intersect Reachable /\ Stops(y, p)
    <3>1. p \in Reachable \ {VirtualExit} /\ x \in Reach(Tree, {p})
      BY <1>4, <2>2
    <3>2. Climbs(y, p) <=> Strict(y)
      BY <1>5, <3>1
    <3> QED
      BY <2>2, <3>1, <3>2
  <2> HIDE DEF Strict, Stops
  <2> QED
    BY <2>1, <2>2
<1>7. DominanceFrontier(x)
        = {y \in Joins : \E p \in ToSet(pred[y]) \intersect Reachable : Stops(y, p)}
  BY DEF DominanceFrontier
<1>8. {y \in Joins : /\ \E p \in ToSet(pred[y]) : <<x, p>> \in OnEveryPath
                     /\ ~(x # y /\ <<x, y>> \in OnEveryPath)}
        = {y \in Joins : (\E p \in ToSet(pred[y]) : <<x, p>> \in OnEveryPath) /\ ~ Strict(y)}
  OBVIOUS
<1> HIDE DEF Strict, Stops
<1> QED
  BY <1>6, <1>7, <1>8

(***************************************************************************)
(* The dominance frontier is what its definition by paths says, for any    *)
(* graph (FrontierOfJoins).                                                *)
(***************************************************************************)
THEOREM TreeFrontierOfJoins == TreeSpec => []FrontierOfJoins
  BY TreeAlwaysInv, TreeInvFrontier, PTL

-----------------------------------------------------------------------------
(***************************************************************************)
(* Natural loops, in a finished tree of dominators.                        *)
(***************************************************************************)
LEMMA ReachByPairs ==
  ASSUME NEW E, E \subseteq Nodes \X Nodes, NEW A, A \subseteq Nodes
  PROVE  /\ A \subseteq Reach(E, A) /\ Reach(E, A) \subseteq Nodes
         /\ \A m, n : <<m, n>> \in E /\ m \in Reach(E, A) => n \in Reach(E, A)
         /\ \A S : A \subseteq S /\ (\A m, n \in Nodes : <<m, n>> \in E /\ m \in S => n \in S)
                     => Reach(E, A) \subseteq S
<1>1. /\ A \subseteq Reach(E, A) /\ Reach(E, A) \subseteq Nodes
      /\ Closed(E, Reach(E, A))
      /\ \A S : A \subseteq S /\ Closed(E, S) => Reach(E, A) \subseteq S
  BY ReachIs
<1>2. \A m, n : <<m, n>>[1] = m /\ <<m, n>>[2] = n
  OBVIOUS
<1>3. \A e \in E : e = <<e[1], e[2]>> /\ e[1] \in Nodes /\ e[2] \in Nodes
  OBVIOUS
<1>4. \A m, n : <<m, n>> \in E /\ m \in Reach(E, A) => n \in Reach(E, A)
  BY <1>1, <1>2 DEF Closed
<1>5. \A S : (\A m, n \in Nodes : <<m, n>> \in E /\ m \in S => n \in S) => Closed(E, S)
  BY <1>3 DEF Closed
<1> QED
  BY <1>1, <1>4, <1>5

Off(a) == Avoid(succ, root, a)

Flowing ==
  /\ Reachable \subseteq Blocks /\ root \in Reachable
  /\ Reachable = Reach(Edges, {root})
  /\ Edges \subseteq Blocks \X Blocks
  /\ \A m, n : <<m, n>> \in Edges /\ m \in Reachable => n \in Reachable
  /\ \A m \in Blocks : \A n : n \in ToSet(cfg[m]) <=> <<m, n>> \in Edges
  /\ \A n \in Blocks : pred[n] \in Seq(Nodes)
  /\ \A n \in Blocks : \A m : m \in ToSet(pred[n]) <=> <<m, n>> \in Edges
  /\ \A n \in Reachable \ {root} : \E m \in Reachable : <<m, n>> \in Edges

Dominating ==
  /\ \A a, b \in Reachable : Dominates(a, b) <=> b \notin Off(a)
  /\ \A a \in Reachable : \A m, n \in Nodes :
       <<m, n>> \in Edges /\ a # m /\ a # n /\ m \in Off(a) => n \in Off(a)
  /\ \A a \in Reachable : a \notin Off(a) /\ (root # a => root \in Off(a))
  /\ \A a, b \in Reachable : Dominates(a, b) /\ Dominates(b, a) => a = b
  /\ \A a, b, c \in Reachable :
       Dominates(a, c) /\ Dominates(b, c) => Dominates(a, b) \/ Dominates(b, a)
  /\ \A a \in Reachable : Dominates(a, root) => a = root
  /\ \A a, b : Dominates(a, b) => a \in Reachable /\ b \in Reachable

LEMMA DoneFlows ==
  ASSUME TreeInv, phase = "done", way = "dominators"
  PROVE  Flowing
<1>1. /\ IsGraph(succ) /\ Converse(succ, pred) /\ Rooted(cfg, way, phase, succ, root)
      /\ Search(order, stack, succ, root) /\ stack = << >> /\ cfg \in Cfgs
  BY DEF TreeInv
<1>2. SearchFound(order, succ, root)
  BY <1>1, SearchEnds
<1>3. root = Entry /\ EdgesOf(succ) = Flow(cfg) /\ Edges = Flow(cfg)
  BY <1>1 DEF Rooted, Forward, Edges, Flow
<1>4. Reachable = LiveIn(cfg)
  BY <1>2, <1>3 DEF SearchFound, Reachable, LiveIn
<1>5. Reachable \subseteq Blocks /\ root \in Reachable
  BY <1>3, <1>4, FlowReach
<1>12. Reachable = Reach(Edges, {root})
  BY <1>2, <1>3 DEF SearchFound, Reachable
<1>6. Edges \subseteq Blocks \X Blocks
  BY DEF Edges
<1>7. \A m, n : <<m, n>> \in Edges /\ m \in Reachable => n \in Reachable
  <2>1. \A m, n : <<m, n>>[1] = m /\ <<m, n>>[2] = n
    OBVIOUS
  <2>2. \A e \in Edges : e[1] \in Reachable => e[2] \in Reachable
    BY <1>3, <1>4, FlowReach
  <2> QED
    BY <2>1, <2>2
<1>8. \A m \in Blocks : \A n : n \in ToSet(cfg[m]) <=> <<m, n>> \in Edges
  <2>1. cfg \in [Blocks -> Seq(Blocks)]
    BY <1>1, TreeConstants
  <2> TAKE m \in Blocks
  <2>2. cfg[m] \in Seq(Blocks)
    BY <2>1
  <2>3. \A n : n \in ToSet(cfg[m]) => n \in Blocks
    BY <2>2 DEF ToSet
  <2>4. \A n \in Blocks : n \in ToSet(cfg[m]) <=> <<m, n>> \in Edges
    BY DEF Edges
  <2> QED
    BY <1>6, <2>3, <2>4
<1>9. \A n \in Blocks : pred[n] \in Seq(Nodes)
  BY <1>1, BlocksAreNodes DEF Converse
<1>10. \A n \in Blocks : \A m : m \in ToSet(pred[n]) <=> <<m, n>> \in Edges
  <2> TAKE n \in Blocks
  <2>1. n \in Nodes /\ \A m : m \in ToSet(pred[n]) => m \in Nodes
    BY <1>9, BlocksAreNodes DEF ToSet
  <2>2. \A m \in Nodes : m \in ToSet(pred[n]) <=> n \in ToSet(succ[m])
    BY <1>1, <2>1 DEF Converse
  <2>3. \A m \in Nodes : n \in ToSet(succ[m]) <=> <<m, n>> \in EdgesOf(succ)
    BY <2>1 DEF EdgesOf
  <2>4. \A m : <<m, n>> \in Edges => m \in Nodes
    BY <1>6, BlocksAreNodes
  <2> QED
    BY <1>3, <2>1, <2>2, <2>3, <2>4
<1>11. ASSUME NEW n \in Reachable \ {root} PROVE \E m \in Reachable : <<m, n>> \in Edges
  <2>1. PICK i \in DOMAIN order : n = order[i]
    BY DEF Reachable, ToSet
  <2>2. PICK j \in DOMAIN order : order[i] \in ToSet(succ[order[j]])
    BY <1>2, <2>1 DEF SearchFound
  <2>3. order[j] \in Reachable /\ order[j] \in Nodes /\ n \in Nodes
    BY <1>5, BlocksAreNodes DEF Reachable, ToSet
  <2>4. <<order[j], n>> \in EdgesOf(succ)
    BY <2>1, <2>2, <2>3 DEF EdgesOf
  <2> QED
    BY <1>3, <2>3, <2>4
<1> QED
  BY <1>5, <1>6, <1>7, <1>8, <1>9, <1>10, <1>11, <1>12 DEF Flowing

LEMMA DoneDominates ==
  ASSUME TreeInv, phase = "done", way = "dominators"
  PROVE  Dominating
<1>1. /\ IsTree(idom, Rank(order), root, Len(order)) /\ In(idom) = Reachable
      /\ root \in Reachable /\ Reachable \subseteq Nodes
  BY DoneIs DEF Finished
<1>2. Flowing
  BY DoneFlows
<1>3. \A a \in Reachable : a \in Nodes /\ a # VirtualExit
  <2>1. Reachable \subseteq Blocks
    BY <1>2 DEF Flowing
  <2> QED
    BY <1>1, <2>1, BlocksAreNodes
<1>4. ASSUME NEW a \in Reachable, NEW b \in Reachable
      PROVE  /\ Dominates(a, b) <=> a \in Above(idom, b)
             /\ Dominates(a, b) <=> b \notin Off(a)
  <2>1. a \in Reach(Tree, {b}) <=> a \in Above(idom, b)
    BY <1>3, DominatesIs
  <2>2. a \in Above(idom, b) <=> b \notin Avoid(succ, root, a)
    BY <1>3, DoneIs
  <2> QED
    BY <2>1, <2>2 DEF Dominates, Off
<1>5. EdgesOf(succ) = Edges /\ root \in Nodes
  <2>1. Rooted(cfg, way, phase, succ, root)
    BY DEF TreeInv
  <2> QED
    BY <1>1, <2>1 DEF Rooted, Forward, Edges, Flow
<1>6. ASSUME NEW a \in Reachable, NEW m \in Nodes, NEW n \in Nodes,
             <<m, n>> \in Edges, a # m, a # n, m \in Off(a)
      PROVE  n \in Off(a)
  <2>1. PICK e \in EdgesOf(succ) : e[1] = m /\ e[2] = n
    BY <1>5, <1>6
  <2>2. a \notin {e[1], e[2]} /\ e[1] \in Avoid(succ, root, a)
    BY <1>6, <2>1 DEF Off
  <2>3. e[2] \in Avoid(succ, root, a)
    BY <1>5, <2>2, AvoidIs
  <2> QED
    BY <2>1, <2>3 DEF Off
<1>7. \A a \in Reachable : a \notin Off(a) /\ (root # a => root \in Off(a))
  BY <1>5, AvoidIs DEF Off
<1>8. \A a, b \in Reachable : Dominates(a, b) /\ Dominates(b, a) => a = b
  BY <1>1, <1>4, AboveDiffers
<1>9. \A a, b, c \in Reachable :
        Dominates(a, c) /\ Dominates(b, c) => Dominates(a, b) \/ Dominates(b, a)
  BY <1>1, <1>4, AboveIsLinear
<1>10. \A a \in Reachable : Dominates(a, root) => a = root
  <2>1. Above(idom, root) = {root}
    BY <1>1, RootIsAbove
  <2> QED
    BY <1>1, <1>4, <2>1
<1>11. \A a, b : Dominates(a, b) => a \in Reachable /\ b \in Reachable
  BY DEF Dominates
<1> QED
  BY <1>4, <1>6, <1>7, <1>8, <1>9, <1>10, <1>11 DEF Dominating

(* The natural loop of a header is closed backwards, and is the least such. *)
Inside(h) == {e \in Edges : h \notin {e[1], e[2]}}

LEMMA NaturalLoopIs ==
  ASSUME NEW h
  PROVE  \A b : b \in NaturalLoop(h) <=>
           \/ b = h
           \/ b \in Reachable \ {h} /\ \E l \in Latches(h) : l \in Reach(Inside(h), {b})
  BY DEF NaturalLoop, Inside

LEMMA InsideIs ==
  ASSUME Flowing, NEW h
  PROVE  /\ Inside(h) \subseteq Nodes \X Nodes
         /\ \A m, n : <<m, n>> \in Inside(h) <=> <<m, n>> \in Edges /\ m # h /\ n # h
<1>1. \A m, n : <<m, n>>[1] = m /\ <<m, n>>[2] = n
  OBVIOUS
<1> QED
  BY <1>1, BlocksAreNodes DEF Flowing, Inside

LEMMA InsideReach ==
  ASSUME Flowing, NEW h, NEW b \in Nodes
  PROVE  /\ b \in Reach(Inside(h), {b})
         /\ \A m, n : <<m, n>> \in Inside(h) /\ m \in Reach(Inside(h), {b})
                        => n \in Reach(Inside(h), {b})
         /\ \A S : b \in S /\ (\A m, n \in Nodes : <<m, n>> \in Inside(h) /\ m \in S => n \in S)
                     => Reach(Inside(h), {b}) \subseteq S
<1>1. Inside(h) \subseteq Nodes \X Nodes
  BY InsideIs
<1>2. {b} \subseteq Nodes
  OBVIOUS
<1> DEFINE E == Inside(h)
           A == {b}
<1>3. E \subseteq Nodes \X Nodes /\ A \subseteq Nodes
  BY <1>1, <1>2
<1>4. b \in A /\ \A S : b \in S => A \subseteq S
  OBVIOUS
<1> HIDE DEF E, A
<1>5. /\ b \in Reach(E, A)
      /\ \A m, n : <<m, n>> \in E /\ m \in Reach(E, A) => n \in Reach(E, A)
      /\ \A S : b \in S /\ (\A m, n \in Nodes : <<m, n>> \in E /\ m \in S => n \in S)
                  => Reach(E, A) \subseteq S
  <2>1. A \subseteq Reach(E, A)
    BY <1>3, ReachByPairs
  <2>2. \A m, n : <<m, n>> \in E /\ m \in Reach(E, A) => n \in Reach(E, A)
    BY <1>3, ReachByPairs
  <2>3. \A S : A \subseteq S /\ (\A m, n \in Nodes : <<m, n>> \in E /\ m \in S => n \in S)
                  => Reach(E, A) \subseteq S
    BY <1>3, ReachByPairs
  <2> QED
    BY <1>4, <2>1, <2>2, <2>3
<1> QED
  BY <1>5 DEF E, A

LEMMA LatchIs ==
  ASSUME Flowing, Dominating, NEW h, NEW l
  PROVE  l \in Latches(h) <=> l \in Reachable /\ <<l, h>> \in Edges /\ Dominates(h, l)
  BY DEF Flowing, Latches

LEMMA LoopGoesBack ==
  ASSUME Flowing, Dominating, NEW h \in Headers
  PROVE  /\ h \in Reachable /\ NaturalLoop(h) \subseteq Reachable
         /\ h \in NaturalLoop(h) /\ Latches(h) \subseteq NaturalLoop(h)
         /\ \A m \in Reachable : \A n \in NaturalLoop(h) :
              <<m, n>> \in Edges /\ m # h /\ n # h => m \in NaturalLoop(h)
         /\ \A S : /\ h \in S /\ Latches(h) \subseteq S
                   /\ \A m \in Reachable : \A n \in S :
                        <<m, n>> \in Edges /\ m # h /\ n # h => m \in S
                   => NaturalLoop(h) \subseteq S
<1>1. PICK l0 : l0 \in Latches(h)
  BY DEF Headers
<1>2. h \in Reachable
  BY <1>1, LatchIs DEF Dominating
<1>3. \A b \in Reachable : b \in Nodes
  BY BlocksAreNodes DEF Flowing
<1>4. NaturalLoop(h) \subseteq Reachable /\ h \in NaturalLoop(h)
  BY <1>2, NaturalLoopIs
<1>5. ASSUME NEW l \in Latches(h) PROVE l \in NaturalLoop(h)
  <2>1. l \in Reachable
    BY LatchIs
  <2>2. l \in Reach(Inside(h), {l})
    BY <1>3, <2>1, InsideReach
  <2> QED
    BY <2>1, <2>2, NaturalLoopIs
<1>6. ASSUME NEW m \in Reachable, NEW n \in NaturalLoop(h), <<m, n>> \in Edges, m # h, n # h
      PROVE  m \in NaturalLoop(h)
  <2>1. PICK l \in Latches(h) : l \in Reach(Inside(h), {n})
    BY <1>6, NaturalLoopIs
  <2>2. m \in Nodes /\ n \in Nodes /\ <<m, n>> \in Inside(h) /\ Inside(h) \subseteq Nodes \X Nodes
    BY <1>3, <1>4, <1>6, InsideIs
  <2>3. /\ m \in Reach(Inside(h), {m})
        /\ \A x, y : <<x, y>> \in Inside(h) /\ x \in Reach(Inside(h), {m})
                       => y \in Reach(Inside(h), {m})
    BY <2>2, InsideReach
  <2>4. n \in Reach(Inside(h), {m})
    BY <2>2, <2>3
  <2>5. Reach(Inside(h), {n}) \subseteq Reach(Inside(h), {m})
    BY <2>2, <2>3, <2>4, InsideReach
  <2> QED
    BY <1>6, <2>1, <2>5, NaturalLoopIs
<1>7. ASSUME NEW S, h \in S, Latches(h) \subseteq S,
             \A m \in Reachable : \A n \in S : <<m, n>> \in Edges /\ m # h /\ n # h => m \in S
      PROVE  NaturalLoop(h) \subseteq S
  <2> SUFFICES ASSUME NEW b \in NaturalLoop(h), b \notin S PROVE FALSE
    OBVIOUS
  <2> DEFINE U == {z \in Reachable \ {h} : z \notin S}
  <2>1. b \in U
    BY <1>4, <1>7
  <2>2. PICK l \in Latches(h) : l \in Reach(Inside(h), {b})
    BY <2>1, NaturalLoopIs
  <2>3. ASSUME NEW m \in Nodes, NEW n \in Nodes, <<m, n>> \in Inside(h), m \in U
        PROVE  n \in U
    <3>1. <<m, n>> \in Edges /\ m # h /\ n # h
      BY <2>3, InsideIs
    <3>2. n \in Reachable
      BY <2>3, <3>1 DEF Flowing
    <3> QED
      BY <1>7, <2>3, <3>1, <3>2
  <2>4. b \in Nodes /\ Inside(h) \subseteq Nodes \X Nodes
    BY <1>3, <2>1, InsideIs
  <2> HIDE DEF U
  <2>5. Reach(Inside(h), {b}) \subseteq U
    BY <2>1, <2>3, <2>4, InsideReach
  <2>6. l \in U
    BY <2>2, <2>5
  <2> QED
    BY <1>7, <2>6 DEF U
<1> QED
  BY <1>2, <1>4, <1>5, <1>6, <1>7

LEMMA LoopIsDominated ==
  ASSUME Flowing, Dominating, NEW h \in Headers, NEW b \in NaturalLoop(h)
  PROVE  Dominates(h, b)
<1> DEFINE S == {z \in Reachable : Dominates(h, z)}
<1>1. h \in Reachable
  BY LoopGoesBack
<1>2. h \in S
  BY <1>1 DEF Dominating
<1>3. Latches(h) \subseteq S
  BY LatchIs
<1>4. ASSUME NEW m \in Reachable, NEW n \in S, <<m, n>> \in Edges, m # h, n # h
      PROVE  m \in S
  <2>1. m \in Nodes /\ n \in Nodes
    BY BlocksAreNodes DEF Flowing
  <2>2. n \notin Off(h)
    BY <1>1 DEF Dominating
  <2>3. m \notin Off(h)
    BY <1>1, <1>4, <2>1, <2>2 DEF Dominating
  <2> QED
    BY <1>1, <2>3 DEF Dominating
<1> HIDE DEF S
<1>5. NaturalLoop(h) \subseteq S
  BY <1>2, <1>3, <1>4, LoopGoesBack
<1> QED
  BY <1>5 DEF S

(* Loops with a common block are nested. *)
LEMMA LoopsNest ==
  ASSUME Flowing, Dominating, NEW h \in Headers, NEW k \in Headers, h # k,
         NEW x \in NaturalLoop(h), x \in NaturalLoop(k), Dominates(h, k)
  PROVE  NaturalLoop(k) \subseteq NaturalLoop(h)
<1>1. /\ h \in Reachable /\ k \in Reachable /\ x \in Reachable
      /\ \A b \in Reachable : b \in Nodes
  BY LoopGoesBack, BlocksAreNodes DEF Flowing
<1>2. ~ Dominates(k, h)
  BY <1>1 DEF Dominating
<1>3. h \notin NaturalLoop(k)
  BY <1>2, LoopIsDominated
<1>4. x # h
  BY <1>3
<1> DEFINE R == Reach(Inside(h), {k})
<1>5. /\ k \in R /\ Inside(h) \subseteq Nodes \X Nodes
      /\ \A m, n : <<m, n>> \in Inside(h) /\ m \in R => n \in R
  BY <1>1, InsideIs, InsideReach
<1> HIDE DEF R
<1>6. x \in R
  <2> DEFINE Z == Off(k) \union R
  <2>1. h \in Off(k)
    BY <1>1, <1>2 DEF Dominating
  <2>2. root \in Z
    BY <1>1, <1>5 DEF Dominating
  <2>3. ASSUME NEW m \in Nodes, NEW n \in Nodes, <<m, n>> \in Edges, m \in Z
        PROVE  n \in Z
    <3>1. CASE n = h \/ n = k
      BY <1>5, <2>1, <3>1
    <3>2. CASE n # h /\ n # k /\ m \in Off(k)
      <4>1. m # k
        BY <1>1, <3>2 DEF Dominating
      <4> QED
        BY <1>1, <2>3, <3>2, <4>1 DEF Dominating
    <3>3. CASE n # h /\ n # k /\ m \in R /\ m # h
      BY <1>5, <2>3, <3>3, InsideIs
    <3>4. CASE n # h /\ n # k /\ m = h
      <4> QED
        BY <1>1, <2>1, <2>3, <3>4 DEF Dominating
    <3> QED
      BY <2>3, <3>1, <3>2, <3>3, <3>4
  <2>4. Reachable = Reach(Edges, {root}) /\ Edges \subseteq Nodes \X Nodes /\ root \in Nodes
    BY <1>1, BlocksAreNodes DEF Flowing
  <2> HIDE DEF Z
  <2>5. Reachable \subseteq Z
    <3>1. {root} \subseteq Z
      BY <2>2
    <3>2. {root} \subseteq Nodes
      BY <2>4
    <3> QED
      BY <2>3, <2>4, <3>1, <3>2, ReachByPairs
  <2>6. x \notin Off(k)
    BY <1>1, LoopIsDominated DEF Dominating
  <2> QED
    BY <1>1, <2>5, <2>6 DEF Z
<1>7. k \in NaturalLoop(h)
  <2>1. PICK l \in Latches(h) : l \in Reach(Inside(h), {x})
    BY <1>4, NaturalLoopIs
  <2>2. Reach(Inside(h), {x}) \subseteq R
    BY <1>1, <1>5, <1>6, InsideReach
  <2> QED
    BY <1>1, <2>1, <2>2, NaturalLoopIs DEF R
<1> DEFINE S == NaturalLoop(h) \intersect NaturalLoop(k)
<1>8. k \in S
  BY <1>7, LoopGoesBack
<1>9. ASSUME NEW m \in Reachable, NEW n \in NaturalLoop(h), m \in NaturalLoop(k),
             <<m, n>> \in Edges, n # h
      PROVE  m \in S
  BY <1>3, <1>9, LoopGoesBack
<1>10. ASSUME NEW l \in Latches(k) PROVE l \in S
  <2>1. l \in Reachable /\ <<l, k>> \in Edges /\ l \in NaturalLoop(k)
    BY LatchIs, LoopGoesBack
  <2> QED
    BY <1>7, <1>9, <2>1
<1>11. \A m \in Reachable, n \in S : <<m, n>> \in Edges /\ m # k /\ n # k => m \in S
  <2> TAKE m \in Reachable, n \in S
  <2>1. n # h
    BY <1>3
  <2>2. <<m, n>> \in Edges /\ m # k /\ n # k => m \in NaturalLoop(k)
    BY LoopGoesBack
  <2> QED
    BY <1>9, <2>1, <2>2
<1> HIDE DEF S
<1>12. NaturalLoop(k) \subseteq S
  <2>1. \A m \in Reachable : \A n \in S : <<m, n>> \in Edges /\ m # k /\ n # k => m \in S
    BY <1>11
  <2> QED
    BY <1>8, <1>10, <2>1, LoopGoesBack
<1> QED
  BY <1>12 DEF S

-----------------------------------------------------------------------------
(***************************************************************************)
(* LoopBlocks, with trampolines folded, is the natural loop.               *)
(***************************************************************************)
Held(h) == {h} \union Trampolines(h)

Back(h) == {e \in (Blocks \ Held(h)) \X Reachable : e[2] \in ToSet(pred[e[1]])}

LEMMA LoopBlocksIs ==
  ASSUME NEW h \in Headers
  PROVE  LoopBlocks[h] = Held(h) \union Reach(Back(h), FoldedLatches(h) \ Held(h))
  BY DEF LoopBlocks, Held, Back

LEMMA BackIs ==
  ASSUME Flowing, NEW h
  PROVE  /\ Back(h) \subseteq Nodes \X Nodes
         /\ \A n, m : <<n, m>> \in Back(h) <=>
              n \in Blocks \ Held(h) /\ m \in Reachable /\ <<m, n>> \in Edges
<1>1. \A m, n : <<m, n>>[1] = m /\ <<m, n>>[2] = n
  OBVIOUS
<1>2. Reachable \subseteq Nodes /\ Blocks \subseteq Nodes
  BY BlocksAreNodes DEF Flowing
<1>3. \A n, m : <<n, m>> \in Back(h) <=>
        n \in Blocks \ Held(h) /\ m \in Reachable /\ m \in ToSet(pred[n])
  BY <1>1 DEF Back
<1>4. \A n \in Blocks : \A m : m \in ToSet(pred[n]) <=> <<m, n>> \in Edges
  BY DEF Flowing
<1> QED
  BY <1>2, <1>3, <1>4 DEF Back

LEMMA TrampolineIs ==
  ASSUME Flowing, Dominating, NEW h \in Headers, NEW t \in Trampolines(h)
  PROVE  /\ t \in Latches(h) /\ t \in Reachable /\ t # h
         /\ pred[t][1] \in Reachable /\ pred[t][1] # h
         /\ \A m : <<m, t>> \in Edges <=> m = pred[t][1]
<1>1. t \in Latches(h) /\ Len(pred[t]) = 1 /\ pred[t][1] # h
  BY DEF Trampolines, IsTrampoline
<1>2. t \in Reachable /\ <<t, h>> \in Edges /\ Dominates(h, t) /\ t \in Blocks
  BY <1>1, LatchIs DEF Flowing
<1>3. \A m : m \in ToSet(pred[t]) <=> m = pred[t][1]
  <2>1. pred[t] \in Seq(Nodes)
    BY <1>2 DEF Flowing
  <2>2. DOMAIN pred[t] = {1}
    BY <1>1, <2>1
  <2> QED
    BY <2>2 DEF ToSet
<1>4. \A m : <<m, t>> \in Edges <=> m = pred[t][1]
  BY <1>2, <1>3 DEF Flowing
<1>5. t # h
  BY <1>1, <1>2, <1>4
<1>6. t # root
  <2>1. h \in Reachable
    BY LoopGoesBack
  <2> QED
    BY <1>2, <1>5, <2>1 DEF Dominating
<1>7. PICK m \in Reachable : <<m, t>> \in Edges
  BY <1>2, <1>6 DEF Flowing
<1> QED
  BY <1>1, <1>2, <1>4, <1>5, <1>7

LEMMA FoldedIs ==
  ASSUME NEW h
  PROVE  \A b : b \in FoldedLatches(h) <=>
           \/ b \in Latches(h) /\ b \notin Trampolines(h)
           \/ \E t \in Trampolines(h) : b = pred[t][1]
  BY DEF FoldedLatches

LEMMA LoopIsNatural ==
  ASSUME Flowing, Dominating, NEW h \in Headers
  PROVE  LoopBlocks[h] = NaturalLoop(h)
<1> DEFINE first == FoldedLatches(h) \ Held(h)
           R == Reach(Back(h), first)
<1>1. \A b \in FoldedLatches(h) : b \in Reachable
  <2>1. \A b \in Latches(h) : b \in Reachable
    BY LatchIs
  <2>2. \A t \in Trampolines(h) : pred[t][1] \in Reachable
    BY TrampolineIs
  <2> QED
    BY <2>1, <2>2, FoldedIs
<1>2. Back(h) \subseteq Nodes \X Nodes /\ first \subseteq Nodes
  BY <1>1, BackIs, BlocksAreNodes DEF Flowing
<1>3. /\ first \subseteq R
      /\ \A n, m : <<n, m>> \in Back(h) /\ n \in R => m \in R
      /\ \A S : first \subseteq S /\ (\A n, m \in Nodes : <<n, m>> \in Back(h) /\ n \in S => m \in S)
                  => R \subseteq S
  <2> HIDE DEF first
  <2> QED
    BY <1>2, ReachByPairs
<1>4. first \subseteq NaturalLoop(h)
  <2> SUFFICES ASSUME NEW b \in FoldedLatches(h) PROVE b \in NaturalLoop(h)
    OBVIOUS
  <2>1. CASE b \in Latches(h)
    BY <2>1, LoopGoesBack
  <2>2. CASE \E t \in Trampolines(h) : b = pred[t][1]
    <3>1. PICK t \in Trampolines(h) : b = pred[t][1]
      BY <2>2
    <3>2. /\ t \in Latches(h) /\ t # h /\ b \in Reachable /\ b # h /\ <<b, t>> \in Edges
      BY <3>1, TrampolineIs
    <3>3. t \in NaturalLoop(h)
      BY <3>2, LoopGoesBack
    <3> QED
      BY <3>2, <3>3, LoopGoesBack
  <2> QED
    BY <2>1, <2>2, FoldedIs
<1>5. ASSUME NEW n \in Nodes, NEW m \in Nodes, <<n, m>> \in Back(h), n \in NaturalLoop(h)
      PROVE  m \in NaturalLoop(h)
  <2>1. n # h /\ m \in Reachable /\ <<m, n>> \in Edges
    BY <1>5, BackIs DEF Held
  <2>2. CASE m = h
    BY <2>2, LoopGoesBack
  <2>3. CASE m # h
    BY <1>5, <2>1, <2>3, LoopGoesBack
  <2> QED
    BY <2>2, <2>3
<1>6. Held(h) \subseteq NaturalLoop(h)
  <2>1. \A t \in Trampolines(h) : t \in NaturalLoop(h)
    BY TrampolineIs, LoopGoesBack
  <2> QED
    BY <2>1, LoopGoesBack DEF Held
<1> DEFINE L == Held(h) \union R
<1>7. L \subseteq NaturalLoop(h)
  <2> HIDE DEF R, first
  <2>1. R \subseteq NaturalLoop(h)
    BY <1>3, <1>4, <1>5
  <2> QED
    BY <1>6, <2>1
<1> HIDE DEF R
<1>8. FoldedLatches(h) \subseteq L
  BY <1>3
<1> HIDE DEF first
<1>9. Latches(h) \subseteq L
  <2>1. \A l \in Latches(h) : l \in Trampolines(h) \/ l \in FoldedLatches(h)
    BY FoldedIs
  <2> QED
    BY <1>8, <2>1 DEF Held
<1>10. ASSUME NEW m \in Reachable, NEW n \in L, <<m, n>> \in Edges, m # h, n # h
       PROVE  m \in L
  <2>1. CASE n \in Held(h)
    <3>1. n \in Trampolines(h)
      BY <1>10, <2>1 DEF Held
    <3>2. m = pred[n][1]
      BY <1>10, <3>1, TrampolineIs
    <3>3. m \in FoldedLatches(h)
      BY <3>1, <3>2, FoldedIs
    <3> QED
      BY <1>8, <3>3
  <2>2. CASE n \notin Held(h)
    <3>1. n \in R
      BY <2>2
    <3>2. n \in Blocks
      <4>1. Edges \subseteq Blocks \X Blocks
        BY DEF Flowing
      <4> QED
        BY <1>10, <4>1
    <3>3. <<n, m>> \in Back(h)
      BY <1>10, <2>2, <3>2, BackIs
    <3> QED
      BY <1>3, <3>1, <3>3
  <2> QED
    BY <2>1, <2>2
<1>11. h \in L
  BY DEF Held
<1>12. \A m \in Reachable : \A n \in L : <<m, n>> \in Edges /\ m # h /\ n # h => m \in L
  BY <1>10
<1>13. LoopBlocks[h] = L
  BY LoopBlocksIs DEF R, first
<1> HIDE DEF L
<1>14. NaturalLoop(h) \subseteq L
  BY <1>9, <1>11, <1>12, LoopGoesBack
<1> QED
  BY <1>7, <1>13, <1>14

-----------------------------------------------------------------------------
(***************************************************************************)
(* A family of nested loops: each header's loop, no two the same.          *)
(***************************************************************************)
Nested(loops) ==
  /\ \A h, k \in Headers : loops[h] = loops[k] => h = k
  /\ \A h \in Headers : h \in loops[h] /\ loops[h] \subseteq Nodes
  /\ \A h, k \in Headers : \A x \in loops[h] :
       x \in loops[k] => loops[h] \subseteq loops[k] \/ loops[k] \subseteq loops[h]

LEMMA LoopsAreNested ==
  ASSUME Flowing, Dominating
  PROVE  Nested(LoopBlocks)
<1>1. \A h \in Headers : LoopBlocks[h] = NaturalLoop(h)
  BY LoopIsNatural
<1>2. \A h \in Headers : /\ h \in NaturalLoop(h) /\ NaturalLoop(h) \subseteq Nodes
                         /\ h \in Reachable
  <2>1. Reachable \subseteq Nodes
    BY BlocksAreNodes DEF Flowing
  <2> QED
    BY <2>1, LoopGoesBack
<1>3. ASSUME NEW h \in Headers, NEW k \in Headers, NaturalLoop(h) = NaturalLoop(k)
      PROVE  h = k
  <2>1. h \in NaturalLoop(k) /\ k \in NaturalLoop(h)
    BY <1>2, <1>3
  <2>2. Dominates(h, k) /\ Dominates(k, h)
    BY <2>1, LoopIsDominated
  <2> QED
    BY <1>2, <2>2 DEF Dominating
<1>4. ASSUME NEW h \in Headers, NEW k \in Headers,
             NEW x \in NaturalLoop(h), x \in NaturalLoop(k)
      PROVE  \/ NaturalLoop(h) \subseteq NaturalLoop(k)
             \/ NaturalLoop(k) \subseteq NaturalLoop(h)
  <2>1. CASE h = k
    BY <2>1
  <2>2. CASE h # k
    <3>1. Dominates(h, x) /\ Dominates(k, x)
      BY <1>4, LoopIsDominated
    <3>2. x \in Reachable
      BY LoopGoesBack
    <3>3. Dominates(h, k) \/ Dominates(k, h)
      BY <1>2, <3>1, <3>2 DEF Dominating
    <3>4. Dominates(h, k) => NaturalLoop(k) \subseteq NaturalLoop(h)
      BY <1>4, <2>2, LoopsNest
    <3>5. Dominates(k, h) => NaturalLoop(h) \subseteq NaturalLoop(k)
      BY <1>4, <2>2, LoopsNest
    <3> QED
      BY <3>3, <3>4, <3>5
  <2> QED
    BY <2>1, <2>2
<1> QED
  BY <1>1, <1>2, <1>3, <1>4 DEF Nested

(***************************************************************************)
(* Of some loops around a common block, the smallest lies in the others.   *)
(***************************************************************************)
LEMMA SmallestLoop ==
  ASSUME NEW loops, Nested(loops), NEW T, T \subseteq Headers,
         NEW x, \A h \in T : x \in loops[h]
  PROVE  /\ T # {} => \E h \in T : \A k \in T : Cardinality(loops[h]) <= Cardinality(loops[k])
         /\ \A h \in T :
              (\A k \in T : Cardinality(loops[h]) <= Cardinality(loops[k]))
                => \A k \in T : loops[h] \subseteq loops[k]
<1>1. \A h \in T : /\ h \in Headers /\ loops[h] \subseteq Nodes
                   /\ IsFiniteSet(loops[h]) /\ Cardinality(loops[h]) \in Nat
  <2>1. \A h \in T : h \in Headers /\ loops[h] \subseteq Nodes
    BY DEF Nested
  <2>2. \A S : S \subseteq Nodes => IsFiniteSet(S)
    BY NodesFinite, FS_Subset
  <2> QED
    BY <2>1, <2>2, FS_CardinalityType
<1>2. ASSUME T # {}
      PROVE  \E h \in T : \A k \in T : Cardinality(loops[h]) <= Cardinality(loops[k])
  <2> DEFINE Sizes == {Cardinality(loops[h]) : h \in T}
  <2>1. Sizes \subseteq Nat /\ Sizes # {}
    BY <1>1, <1>2
  <2>2. PICK s \in Sizes : \A y \in Sizes : s <= y
    BY <2>1, LeastNumber
  <2> QED
    BY <2>2
<1>3. ASSUME NEW h \in T, NEW k \in T, Cardinality(loops[h]) <= Cardinality(loops[k])
      PROVE  loops[h] \subseteq loops[k]
  <2>1. loops[h] \subseteq loops[k] \/ loops[k] \subseteq loops[h]
    <3>1. h \in Headers /\ k \in Headers /\ x \in loops[h] /\ x \in loops[k]
      BY <1>1
    <3> QED
      BY <3>1 DEF Nested
  <2>2. CASE loops[k] \subseteq loops[h]
    <3>1. Cardinality(loops[k]) <= Cardinality(loops[h])
      BY <1>1, <2>2, FS_Subset
    <3>2. Cardinality(loops[k]) = Cardinality(loops[h])
      BY <1>1, <1>3, <3>1
    <3> QED
      BY <1>1, <2>2, <3>2, FS_Subset
  <2> QED
    BY <2>1, <2>2
<1> QED
  BY <1>2, <1>3

(***************************************************************************)
(* The loops around a loop, itself with them.  Its parent has all but the  *)
(* loop itself around it, so its depth is their number.                    *)
(***************************************************************************)
Around(h, loops) == {k \in Headers : loops[h] \subseteq loops[k]}

LEMMA AroundIs ==
  ASSUME NEW loops, Nested(loops), IsFiniteSet(Headers), NEW h \in Headers
  PROVE  /\ h \in Around(h, loops) /\ Parents(h, loops) = Around(h, loops) \ {h}
         /\ IsFiniteSet(Around(h, loops)) /\ Cardinality(Around(h, loops)) \in Nat
         /\ Parents(h, loops) = {} => Cardinality(Around(h, loops)) = 1
         /\ Parents(h, loops) # {} =>
              /\ Parent(h, loops) \in Headers
              /\ Cardinality(Around(h, loops)) = Cardinality(Around(Parent(h, loops), loops)) + 1
<1>1. h \in Around(h, loops)
  BY DEF Around
<1>2. \A k \in Headers : loops[h] = loops[k] => h = k
  BY DEF Nested
<1>3. Parents(h, loops) = Around(h, loops) \ {h}
  BY <1>2 DEF Parents, Around
<1>4. /\ IsFiniteSet(Around(h, loops)) /\ Cardinality(Around(h, loops)) \in Nat
      /\ Around(h, loops) \subseteq Headers
  <2>1. Around(h, loops) \subseteq Headers
    BY DEF Around
  <2> QED
    BY <2>1, FS_Subset, FS_CardinalityType
<1>5. ASSUME Parents(h, loops) = {} PROVE Cardinality(Around(h, loops)) = 1
  <2>1. Around(h, loops) = {h}
    BY <1>1, <1>3, <1>5
  <2> QED
    BY <2>1, FS_Singleton
<1>6. ASSUME Parents(h, loops) # {}
      PROVE  /\ Parent(h, loops) \in Headers
             /\ Cardinality(Around(h, loops)) = Cardinality(Around(Parent(h, loops), loops)) + 1
  <2> DEFINE T == Parents(h, loops)
  <2>1. T \subseteq Headers /\ T # {} /\ \A k \in T : h \in loops[k] /\ loops[h] \subseteq loops[k]
    <3>1. h \in loops[h]
      BY DEF Nested
    <3> QED
      BY <1>6, <3>1 DEF Parents
  <2>2. \E p \in T : \A k \in T : Cardinality(loops[p]) <= Cardinality(loops[k])
    <3> HIDE DEF T
    <3> QED
      BY <2>1, SmallestLoop
  <2> DEFINE p == Parent(h, loops)
  <2>3. p \in T /\ \A k \in T : Cardinality(loops[p]) <= Cardinality(loops[k])
    BY <2>2 DEF Parent
  <2> HIDE DEF p
  <2>4. \A k \in T : loops[p] \subseteq loops[k]
    <3> HIDE DEF T
    <3>1. \A q \in T : (\A k \in T : Cardinality(loops[q]) <= Cardinality(loops[k]))
                        => \A k \in T : loops[q] \subseteq loops[k]
      BY <2>1, SmallestLoop
    <3> QED
      BY <2>3, <3>1
  <2>5. p \in Headers /\ p # h /\ loops[h] \subseteq loops[p]
    BY <1>3, <2>1, <2>3
  <2>6. \A k : k \in Around(p, loops) <=> k \in Around(h, loops) \ {h}
    <3>1. ASSUME NEW k \in Around(p, loops) PROVE k \in Around(h, loops) /\ k # h
      <4>1. k \in Headers /\ loops[p] \subseteq loops[k]
        BY DEF Around
      <4>2. loops[h] \subseteq loops[k]
        BY <2>5, <4>1
      <4>3. k # h
        <5> SUFFICES ASSUME k = h PROVE FALSE
          OBVIOUS
        <5>1. loops[h] = loops[p]
          BY <2>5, <4>1
        <5> QED
          BY <1>2, <2>5, <5>1
      <4> QED
        BY <4>1, <4>2, <4>3 DEF Around
    <3>2. ASSUME NEW k \in Around(h, loops), k # h PROVE k \in Around(p, loops)
      <4>1. k \in T
        BY <1>3, <3>2
      <4> QED
        BY <2>1, <2>4, <4>1 DEF Around
    <3> QED
      BY <3>1, <3>2
  <2>7. Around(p, loops) = Around(h, loops) \ {h}
    BY <2>6
  <2>8. Cardinality(Around(p, loops)) = Cardinality(Around(h, loops)) - 1
    BY <1>1, <1>4, <2>7, FS_RemoveElement
  <2>9. Cardinality(Around(h, loops)) = Cardinality(Around(p, loops)) + 1
    BY <1>4, <2>8
  <2> QED
    BY <2>5, <2>9 DEF p
<1> QED
  BY <1>1, <1>3, <1>4, <1>5, <1>6

IsDepth(loops, f) ==
  f = [h \in Headers |->
         IF Parents(h, loops) = {} THEN 1 ELSE f[Parent(h, loops)] + 1]

LEMMA DepthIsChosen ==
  ASSUME NEW loops
  PROVE  Depth(loops) = CHOOSE f : IsDepth(loops, f)
  BY DEF Depth, IsDepth

LEMMA DepthIs ==
  ASSUME NEW loops, Nested(loops), IsFiniteSet(Headers), NEW h \in Headers
  PROVE  Depth(loops)[h] = Cardinality(Around(h, loops))
<1> DEFINE g == [k \in Headers |-> Cardinality(Around(k, loops))]
<1>1. IsDepth(loops, g)
  <2>1. ASSUME NEW k \in Headers
        PROVE  g[k] = IF Parents(k, loops) = {} THEN 1 ELSE g[Parent(k, loops)] + 1
    <3>1. CASE Parents(k, loops) = {}
      BY <3>1, AroundIs
    <3>2. CASE Parents(k, loops) # {}
      BY <3>2, AroundIs
    <3> QED
      BY <3>1, <3>2
  <2>2. g = [k \in Headers |-> g[k]]
    OBVIOUS
  <2> HIDE DEF g
  <2> QED
    BY <2>1, <2>2 DEF IsDepth
<1>2. PICK f : IsDepth(loops, f) /\ Depth(loops) = f
  <2> HIDE DEF g
  <2> QED
    BY <1>1, DepthIsChosen
<1>3. \A k \in Headers :
        f[k] = IF Parents(k, loops) = {} THEN 1 ELSE f[Parent(k, loops)] + 1
  BY <1>2 DEF IsDepth
<1> DEFINE Size(k) == Cardinality(Around(k, loops))
           Wrong == {k \in Headers : f[k] # Size(k)}
           Sizes == {Size(k) : k \in Wrong}
<1>4. \A k \in Headers : /\ Size(k) \in Nat
                         /\ Parents(k, loops) = {} => Size(k) = 1
                         /\ Parents(k, loops) # {} => /\ Parent(k, loops) \in Headers
                                                      /\ Size(k) = Size(Parent(k, loops)) + 1
  BY AroundIs
<1> HIDE DEF Size
<1>5. Wrong = {}
  <2> SUFFICES ASSUME Wrong # {} PROVE FALSE
    OBVIOUS
  <2>1. Sizes \subseteq Nat /\ Sizes # {}
    BY <1>4
  <2>2. PICK s \in Sizes : \A y \in Sizes : s <= y
    BY <2>1, LeastNumber
  <2>3. PICK k \in Wrong : s = Size(k)
    BY <2>2
  <2>4. k \in Headers /\ f[k] # Size(k)
    BY <2>3
  <2>5. Parents(k, loops) # {}
    BY <1>3, <1>4, <2>4
  <2> DEFINE p == Parent(k, loops)
  <2>6. p \in Headers /\ Size(k) = Size(p) + 1 /\ Size(p) \in Nat /\ f[k] = f[p] + 1
    BY <1>3, <1>4, <2>4, <2>5
  <2> HIDE DEF p
  <2>7. f[p] # Size(p)
    BY <2>4, <2>6
  <2>8. Size(p) \in Sizes
    BY <2>6, <2>7
  <2> QED
    BY <2>2, <2>3, <2>6, <2>8
<1>6. f[h] = Size(h)
  BY <1>5
<1> QED
  BY <1>2, <1>6 DEF Size

LEMMA LoopDepthIs ==
  ASSUME Nested(LoopBlocks), IsFiniteSet(Headers), NEW b
  PROVE  LoopDepth(b) = Cardinality({h \in Headers : b \in LoopBlocks[h]})
<1> DEFINE loops == LoopBlocks
           C == {h \in Headers : b \in LoopBlocks[h]}
           deep == {Depth(LoopBlocks)[h] : h \in C}
<1>1. LoopDepth(b) = IF deep = {} THEN 0 ELSE CHOOSE d \in deep : \A e \in deep : d >= e
  BY DEF LoopDepth
<1>2. CASE C = {}
  <2>1. deep = {}
    BY <1>2
  <2>2. Cardinality(C) = 0
    BY <1>2, FS_EmptySet
  <2> QED
    BY <1>1, <2>1, <2>2
<1>3. CASE C # {}
  <2>1. /\ C \subseteq Headers /\ IsFiniteSet(C) /\ Cardinality(C) \in Nat
        /\ \A h \in C : b \in LoopBlocks[h]
        /\ \A h \in Headers : b \in LoopBlocks[h] => h \in C
    BY FS_Subset, FS_CardinalityType
  <2> HIDE DEF C
  <2>2. \A h \in C : Depth(LoopBlocks)[h] = Cardinality(Around(h, LoopBlocks))
    BY <2>1, DepthIs
  <2>3. ASSUME NEW h \in C
        PROVE  /\ Around(h, LoopBlocks) \subseteq C
               /\ Cardinality(Around(h, LoopBlocks)) \in Nat
               /\ Cardinality(Around(h, LoopBlocks)) <= Cardinality(C)
    <3>1. Around(h, LoopBlocks) \subseteq C
      BY <2>1 DEF Around
    <3> QED
      BY <2>1, <3>1, FS_Subset, FS_CardinalityType
  <2>4. PICK h \in C : \A k \in C : LoopBlocks[h] \subseteq LoopBlocks[k]
    BY <1>3, <2>1, SmallestLoop
  <2>5. C \subseteq Around(h, LoopBlocks)
    BY <2>1, <2>4 DEF Around
  <2>6. Around(h, LoopBlocks) = C
    BY <2>3, <2>5
  <2>7. Cardinality(C) \in deep
    BY <2>2, <2>6
  <2>8. \A e \in deep : e \in Nat /\ e <= Cardinality(C)
    BY <2>2, <2>3
  <2> HIDE DEF deep
  <2>9. LoopDepth(b) \in deep /\ \A e \in deep : LoopDepth(b) >= e
    <3>1. deep # {}
      BY <2>7
    <3>2. \E d \in deep : \A e \in deep : d >= e
      BY <2>1, <2>7, <2>8
    <3> QED
      BY <1>1, <3>1, <3>2
  <2>10. LoopDepth(b) = Cardinality(C)
    BY <2>1, <2>7, <2>8, <2>9
  <2> QED
    BY <2>10 DEF C
<1> QED
  BY <1>2, <1>3

LEMMA TreeInvLoops == TreeInv => LoopsAreNatural
<1> SUFFICES ASSUME TreeInv, phase = "done", way = "dominators"
             PROVE  /\ \A h \in Headers :
                         /\ LoopBlocks[h] = NaturalLoop(h)
                         /\ \A b \in LoopBlocks[h] : Dominates(h, b)
                         /\ \A k \in Headers \ {h} :
                              \/ LoopBlocks[h] \intersect LoopBlocks[k] = {}
                              \/ LoopBlocks[h] \subseteq LoopBlocks[k]
                              \/ LoopBlocks[k] \subseteq LoopBlocks[h]
                    /\ \A b \in Blocks :
                         LoopDepth(b) = Cardinality({h \in Headers : b \in LoopBlocks[h]})
  BY DEF LoopsAreNatural
<1>1. Flowing /\ Dominating
  BY DoneFlows, DoneDominates
<1>2. Nested(LoopBlocks)
  BY <1>1, LoopsAreNested
<1>3. IsFiniteSet(Headers)
  <2>1. Headers \subseteq Nodes
    BY BlocksAreNodes DEF Headers
  <2> QED
    BY <2>1, NodesFinite, FS_Subset
<1>4. \A b : LoopDepth(b) = Cardinality({h \in Headers : b \in LoopBlocks[h]})
  BY <1>2, <1>3, LoopDepthIs
<1>5. \A h \in Headers : LoopBlocks[h] = NaturalLoop(h)
  BY <1>1, LoopIsNatural
<1>6. \A h \in Headers : \A b \in LoopBlocks[h] : Dominates(h, b)
  BY <1>1, <1>5, LoopIsDominated
<1>7. ASSUME NEW h \in Headers, NEW k \in Headers
      PROVE  \/ LoopBlocks[h] \intersect LoopBlocks[k] = {}
             \/ LoopBlocks[h] \subseteq LoopBlocks[k]
             \/ LoopBlocks[k] \subseteq LoopBlocks[h]
  <2>1. \A x \in LoopBlocks[h] : x \in LoopBlocks[k] =>
          LoopBlocks[h] \subseteq LoopBlocks[k] \/ LoopBlocks[k] \subseteq LoopBlocks[h]
    BY <1>2 DEF Nested
  <2> QED
    BY <2>1
<1> QED
  BY <1>4, <1>5, <1>6, <1>7

(***************************************************************************)
(* In the finished dominator tree of any graph, reducible or not, the loop *)
(* that LoopInfo::Analyze collects for a header, trampolines folded, is    *)
(* its natural loop; the header dominates it, two loops nest or are        *)
(* disjoint, and a block's depth is the number of loops around it          *)
(* (LoopsAreNatural).                                                      *)
(***************************************************************************)
THEOREM TreeLoopsAreNatural == TreeSpec => []LoopsAreNatural
  BY TreeAlwaysInv, TreeInvLoops, PTL

-----------------------------------------------------------------------------
(***************************************************************************)
(* Types: no call is more than one past the end of its list of successors. *)
(***************************************************************************)
Bounded(st, sc) == \A k \in DOMAIN st : st[k][2] <= Len(sc[st[k][1]]) + 1

LEMMA DistinctIs ==
  ASSUME NEW X, NEW s \in Seq(X), \A i, j \in DOMAIN s : s[i] = s[j] => i = j
  PROVE  Distinct(s)
<1>1. DOMAIN s = 1 .. Len(s) /\ Len(s) \in Nat /\ s = [i \in DOMAIN s |-> s[i]]
  OBVIOUS
<1>2. IsFiniteSet(DOMAIN s) /\ Cardinality(DOMAIN s) = Len(s)
  <2> DEFINE n == Len(s)
  <2>1. n \in Nat /\ DOMAIN s = 1 .. n
    BY <1>1
  <2> HIDE DEF n
  <2>2. IsFiniteSet(1 .. n) /\ Cardinality(1 .. n) = IF 1 > n THEN 0 ELSE n - 1 + 1
    BY <2>1, FS_Interval
  <2>3. Cardinality(DOMAIN s) = n
    BY <2>1, <2>2
  <2> QED
    BY <2>1, <2>2, <2>3 DEF n
<1>3. s \in Surjection(DOMAIN s, ToSet(s)) /\ s \in Injection(DOMAIN s, ToSet(s))
  <2>1. s \in [DOMAIN s -> ToSet(s)]
    BY <1>1 DEF ToSet
  <2>2. \A y \in ToSet(s) : \E i \in DOMAIN s : s[i] = y
    BY DEF ToSet
  <2> QED
    BY <2>1, <2>2 DEF Surjection, Injection, IsInjective
<1>4. Cardinality(ToSet(s)) = Cardinality(DOMAIN s)
  BY <1>2, <1>3, FS_Surjection
<1> QED
  BY <1>2, <1>4 DEF Distinct

LEMMA ItemIs ==
  ASSUME NEW X, NEW s \in Seq(X)
  PROVE  /\ \A i \in DOMAIN s : s[i] \in X
         /\ DOMAIN s = 1 .. Len(s) /\ Len(s) \in Nat
  OBVIOUS

LEMMA BoundedSteps ==
  ASSUME TreeInv, Bounded(stack, succ), [TreeNext]_treeVars
  PROVE  Bounded(stack, succ)'
<1>1. IsGraph(succ) /\ stack \in Seq(Calls) /\ Calls = Nodes \X (Nat \ {0})
  BY DEF TreeInv, Search, Calls
<1> DEFINE n == Len(stack)
<1>2. DOMAIN stack = 1 .. n /\ n \in Nat
  BY <1>1
<1>3. \A k \in DOMAIN stack : /\ stack[k][1] \in Nodes /\ stack[k][2] \in Nat
                              /\ stack[k][2] <= Len(succ[stack[k][1]]) + 1
  BY <1>1 DEF Bounded
<1>4. \A b \in Nodes : succ[b] \in Seq(Nodes) /\ Len(succ[b]) \in Nat
  BY <1>1 DEF IsGraph
<1>5. ASSUME stack # << >> PROVE n \in DOMAIN stack
  BY <1>1, <1>2, <1>5
<1>6. CASE Descend
  <2> DEFINE node == stack[n][1]
             at == stack[n][2]
             tt == Append(Caller, <<node, at + 1>>)
             into == <<succ[node][at], 1>>
  <2>1. /\ stack # << >> /\ at <= Len(succ[node]) /\ succ' = succ
        /\ stack' = tt \o (IF succ[node][at] \in Visited THEN << >> ELSE << into >>)
    BY <1>6 DEF Descend, Searching, Last, graphVars
  <2>2. node \in Nodes /\ at \in Nat \ {0} /\ succ[node] \in Seq(Nodes)
    BY <1>1, <1>4, <1>5, <2>1
  <2>3. into \in Calls /\ <<node, at + 1>> \in Calls
    BY <1>1, <2>1, <2>2
  <2>4. Caller = SubSeq(stack, 1, n - 1)
    BY DEF Caller
  <2>5. /\ tt \in Seq(Calls) /\ Len(tt) = n
        /\ \A k \in 1 .. n - 1 : tt[k] = stack[k]
        /\ tt[n] = <<node, at + 1>>
    <3> HIDE DEF node, at, into
    <3>1. tt = Append(SubSeq(stack, 1, n - 1), <<node, at + 1>>)
      BY <2>4
    <3> HIDE DEF tt, n
    <3>2. n = Len(stack) /\ stack # << >> /\ stack \in Seq(Calls)
      BY <1>1, <2>1 DEF n
    <3>3. n \in Nat /\ <<node, at + 1>> \in Calls
      BY <1>2, <2>3
    <3> QED
      BY <3>1, <3>2, <3>3, LastReplaced
  <2>6. \A k \in 1 .. n : /\ tt[k][1] \in Nodes
                          /\ tt[k][2] <= Len(succ[tt[k][1]]) + 1
    <3> SUFFICES ASSUME NEW k \in 1 .. n
                 PROVE  tt[k][1] \in Nodes /\ tt[k][2] <= Len(succ[tt[k][1]]) + 1
      OBVIOUS
    <3>1. CASE k = n
      <4>1. tt[k][1] = node /\ tt[k][2] = at + 1
        BY <2>5, <3>1
      <4> HIDE DEF node, at, tt
      <4> QED
        BY <1>4, <2>1, <2>2, <4>1
    <3>2. CASE k \in 1 .. n - 1
      <4>1. tt[k] = stack[k] /\ k \in DOMAIN stack
        BY <1>2, <2>5, <3>2
      <4> HIDE DEF tt
      <4> QED
        BY <1>3, <4>1
    <3> HIDE DEF tt, n
    <3>3. k = n \/ k \in 1 .. n - 1
      BY <1>2
    <3> QED
      BY <3>1, <3>2, <3>3
  <2>7. into[2] <= Len(succ[into[1]]) + 1
    <3>1. into[1] \in Nodes /\ into[2] = 1
      BY <1>1, <2>3
    <3> HIDE DEF into
    <3> QED
      BY <1>4, <3>1
  <2> HIDE DEF tt, into
  <2>8. CASE succ[node][at] \in Visited
    <3>1. stack' = tt
      BY <2>1, <2>5, <2>8
    <3>2. DOMAIN tt = 1 .. n
      BY <1>2, <2>5
    <3> QED
      BY <2>1, <2>6, <3>1, <3>2 DEF Bounded
  <2>9. CASE succ[node][at] \notin Visited
    <3>1. stack' = tt \o << into >>
      BY <2>1, <2>9
    <3>2. /\ DOMAIN (tt \o << into >>) = 1 .. n + 1
          /\ \A k \in 1 .. n : (tt \o << into >>)[k] = tt[k]
          /\ (tt \o << into >>)[n + 1] = into
      <4> HIDE DEF n
      <4> QED
        BY <1>2, <2>3, <2>5
    <3>3. \A k \in 1 .. n + 1 : k \in 1 .. n \/ k = n + 1
      BY <1>2
    <3> QED
      BY <2>1, <2>6, <2>7, <3>1, <3>2, <3>3 DEF Bounded
  <2> QED
    BY <2>8, <2>9
<1>7. CASE Finish
  <2>1. stack # << >> /\ stack' = SubSeq(stack, 1, n - 1) /\ succ' = succ
    BY <1>7 DEF Finish, Searching, Caller, graphVars
  <2>2. /\ DOMAIN SubSeq(stack, 1, n - 1) = 1 .. n - 1
        /\ \A k \in 1 .. n - 1 : SubSeq(stack, 1, n - 1)[k] = stack[k] /\ k \in DOMAIN stack
    BY <1>1, <1>2, <1>5, <2>1
  <2> QED
    BY <1>3, <2>1, <2>2 DEF Bounded
<1>8. CASE ReverseGraph
  <2>1. stack' = << <<ReverseRoot, 1>> >>
    BY <1>8 DEF ReverseGraph
  <2>2. TreeInv'
    BY TreeSteps
  <2>3. IsGraph(succ') /\ stack' \in Seq(Calls)
    BY <2>2 DEF TreeInv, Search
  <2>4. DOMAIN stack' = {1} /\ stack'[1][1] = ReverseRoot /\ stack'[1][2] = 1
    BY <2>1
  <2>5. ReverseRoot \in Nodes
    <3> DEFINE st == stack'
    <3>1. st \in Seq(Calls) /\ 1 \in DOMAIN st
      BY <2>3, <2>4
    <3> HIDE DEF st
    <3>2. st[1] \in Calls
      BY <3>1
    <3>3. st[1][1] = ReverseRoot
      BY <2>4 DEF st
    <3> QED
      BY <3>2, <3>3 DEF Calls
  <2>6. Len(succ'[ReverseRoot]) \in Nat
    BY <2>3, <2>5 DEF IsGraph
  <2> QED
    BY <2>4, <2>6 DEF Bounded
<1>9. CASE StartPasses \/ Visit \/ PassEnds \/ UNCHANGED treeVars
  <2>1. UNCHANGED <<stack, succ>>
    BY <1>9 DEF StartPasses, Visit, PassEnds, treeVars, graphVars
  <2> QED
    BY <2>1 DEF Bounded
<1> QED
  BY <1>6, <1>7, <1>8, <1>9 DEF TreeNext

LEMMA BoundedIsTyped == TreeInv /\ Bounded(stack, succ) => TreeTypeOK
<1> SUFFICES ASSUME TreeInv, Bounded(stack, succ) PROVE TreeTypeOK
  OBVIOUS
<1>1. /\ cfg \in Cfgs /\ way \in {"dominators", "postdominators"}
      /\ phase \in {"order", "reverse order", "pass", "done"}
      /\ order \in Seq(Nodes) /\ stack \in Seq(Calls) /\ root \in Nodes
      /\ IsGraph(succ) /\ OnceEach(order, stack)
  BY DEF TreeInv, Search
<1>2. ToSet(order) \subseteq Nodes
  <2>1. order \in Seq(Nodes)
    BY <1>1
  <2> QED
    BY <2>1 DEF ToSet
<1>6. /\ \A k \in DOMAIN stack : stack[k] \in Calls
      /\ DOMAIN stack = 1 .. Len(stack) /\ Len(stack) \in Nat
  <2>1. stack \in Seq(Calls)
    BY <1>1
  <2> QED
    BY <2>1
<1>7. \A b \in Nodes : Len(succ[b]) \in Nat
  <2> TAKE b \in Nodes
  <2>1. succ[b] \in Seq(Nodes)
    BY <1>1 DEF IsGraph
  <2> QED
    BY <2>1
<1>3. \A k \in DOMAIN stack : stack[k][2] \in 1 .. Len(succ[stack[k][1]]) + 1
  <2> TAKE k \in DOMAIN stack
  <2>1. stack[k] \in Calls
    BY <1>6
  <2>2. stack[k][1] \in Nodes /\ stack[k][2] \in Nat \ {0}
    BY <2>1 DEF Calls
  <2>3. Len(succ[stack[k][1]]) \in Nat
    BY <1>7, <2>2
  <2>4. stack[k][2] <= Len(succ[stack[k][1]]) + 1
    BY DEF Bounded
  <2> QED
    BY <2>2, <2>3, <2>4
<1> DEFINE calls == [k \in DOMAIN stack |-> stack[k][1]]
<1>4. Distinct(order \o calls)
  <2>1. /\ DOMAIN stack = 1 .. Len(stack) /\ Len(stack) \in Nat
        /\ \A k \in DOMAIN stack : stack[k][1] \in Nodes
    BY <1>6 DEF Calls
  <2>2. calls \in Seq(Nodes) /\ Len(calls) = Len(stack) /\ DOMAIN calls = 1 .. Len(stack)
    BY <2>1
  <2>3. \A k \in DOMAIN stack : calls[k] = stack[k][1]
    OBVIOUS
  <2> HIDE DEF calls
  <2> DEFINE m == Len(order)
             n == Len(stack)
             s == order \o calls
  <2>4. /\ s \in Seq(Nodes) /\ DOMAIN s = 1 .. m + n /\ m \in Nat /\ DOMAIN order = 1 .. m
        /\ \A i \in 1 .. m + n : s[i] = IF i <= m THEN order[i] ELSE calls[i - m]
    <3>1. order \in Seq(Nodes) /\ calls \in Seq(Nodes) /\ Len(calls) = n
      BY <1>1, <2>2
    <3>2. order \o calls \in Seq(Nodes) /\ DOMAIN (order \o calls) = 1 .. m + Len(calls)
          /\ m \in Nat /\ DOMAIN order = 1 .. m
      BY <3>1
    <3>3. \A i \in 1 .. m + Len(calls) :
            (order \o calls)[i] = IF i <= m THEN order[i] ELSE calls[i - m]
      BY <3>1
    <3> QED
      BY <3>1, <3>2, <3>3
  <2> HIDE DEF s
  <2>5. ASSUME NEW i \in 1 .. m + n, NEW j \in 1 .. m + n, s[i] = s[j] PROVE i = j
    <3>1. CASE i <= m /\ j <= m
      <4>1. i \in DOMAIN order /\ j \in DOMAIN order /\ order[i] = order[j]
        BY <2>4, <2>5, <3>1
      <4> QED
        BY <1>1, <4>1 DEF OnceEach
    <3>2. CASE i <= m /\ ~(j <= m)
      <4>1. i \in DOMAIN order /\ j - m \in DOMAIN stack
        BY <2>1, <2>4, <3>2
      <4>2. order[i] = stack[j - m][1]
        BY <2>3, <2>4, <2>5, <3>2, <4>1
      <4> QED
        BY <1>1, <4>1, <4>2 DEF OnceEach
    <3>3. CASE ~(i <= m) /\ j <= m
      <4>1. j \in DOMAIN order /\ i - m \in DOMAIN stack
        BY <2>1, <2>4, <3>3
      <4>2. order[j] = stack[i - m][1]
        BY <2>3, <2>4, <2>5, <3>3, <4>1
      <4> QED
        BY <1>1, <4>1, <4>2 DEF OnceEach
    <3>4. CASE ~(i <= m) /\ ~(j <= m)
      <4>1. i - m \in DOMAIN stack /\ j - m \in DOMAIN stack
        BY <2>1, <2>4, <3>4
      <4>2. stack[i - m][1] = stack[j - m][1]
        BY <2>3, <2>4, <2>5, <3>4, <4>1
      <4>3. i - m = j - m
        BY <1>1, <4>1, <4>2 DEF OnceEach
      <4> QED
        BY <2>1, <2>4, <4>3
    <3> QED
      BY <3>1, <3>2, <3>3, <3>4
  <2>6. Distinct(s)
    BY <2>4, <2>5, DistinctIs
  <2> QED
    BY <2>6 DEF s
<1>5. /\ idom \in [Nodes -> Nodes \union {None}]
      /\ \A n \in Nodes : idom[n] # None => {n, idom[n]} \subseteq Reachable
  <2>1. CASE phase \in {"order", "reverse order"}
    <3>1. idom = [n \in Nodes |-> None]
      BY <2>1 DEF TreeInv
    <3> QED
      BY <3>1
  <2>2. CASE phase \in {"pass", "done"}
    <3>1. IsTree(idom, Rank(order), root, Len(order)) /\ In(idom) \subseteq ToSet(order)
      BY <2>2 DEF TreeInv, Passing
    <3> QED
      BY <3>1 DEF IsTree, In, Reachable
  <2> QED
    BY <1>1, <2>1, <2>2
<1> QED
  BY <1>1, <1>2, <1>3, <1>4, <1>5 DEF TreeTypeOK

(***************************************************************************)
(* Types of the search and of the passes, for any graph with any number of *)
(* blocks: dfs finishes or is in the midst of a node once, never reads     *)
(* past its successors, and only what it has finished is in the tree       *)
(* (TreeTypeOK).                                                           *)
(***************************************************************************)
THEOREM TreeTypeCorrect == TreeSpec => []TreeTypeOK
<1>1. TreeInit => Bounded(stack, succ)
  <2> SUFFICES ASSUME TreeInit PROVE Bounded(stack, succ)
    OBVIOUS
  <2>1. TreeInv
    BY TreeBegins
  <2>2. stack = << <<Entry, 1>> >>
    BY DEF TreeInit
  <2>3. DOMAIN stack = {1} /\ stack[1][1] = Entry /\ stack[1][2] = 1
    BY <2>2
  <2>4. Len(succ[Entry]) \in Nat
    <3>1. succ[Entry] \in Seq(Nodes)
      BY <2>1, BlocksAreNodes DEF TreeInv, IsGraph
    <3> QED
      BY <3>1
  <2> QED
    BY <2>3, <2>4 DEF Bounded
<1>2. TreeInv /\ Bounded(stack, succ) /\ [TreeNext]_treeVars => Bounded(stack, succ)'
  BY BoundedSteps
<1> QED
  BY <1>1, <1>2, TreeAlwaysInv, BoundedIsTyped, PTL DEF TreeSpec
-----------------------------------------------------------------------------
(***************************************************************************)
(* What a visit does to the chains: those without b stay, the others lose  *)
(* what was between b and its new parent.                                  *)
(***************************************************************************)
LEMMA PutElsewhere ==
  ASSUME NEW up, NEW w, NEW r, NEW last, IsTree(up, w, r, last),
         NEW b \in Nodes, b # r, w[b] \in 0 .. last,
         NEW new \in In(up), w[b] < w[new],
         NEW n \in In(up), b \notin Above(up, n)
  PROVE  Above(Put(up, b, new), n) = Above(up, n)
<1> DEFINE up2 == Put(up, b, new)
<1>1. /\ IsTree(up2, w, r, last) /\ n \in In(up2)
      /\ \A x \in Nodes \ {b} : up2[x] = up[x]
  BY PutIs
<1>2. Above(up, n) \subseteq In(up) /\ In(up) \subseteq Nodes
  BY AboveIs DEF In
<1> HIDE DEF up2
<1>3. \A x \in Above(up, n) : up2[x] = up[x] /\ up[x] \in Above(up, n)
  BY <1>1, <1>2, AboveIs
<1>4. Above(up2, n) \subseteq Above(up, n)
  <2>1. n \in Above(up, n)
    BY AboveIs
  <2> QED
    BY <1>1, <1>3, <2>1, AboveIs
<1>5. Above(up, n) \subseteq Above(up2, n)
  <2>1. n \in Above(up2, n) /\ \A x \in Above(up2, n) : up2[x] \in Above(up2, n)
    BY <1>1, AboveIs
  <2>2. \A x \in Above(up2, n) \intersect In(up) : up[x] \in Above(up2, n)
    BY <1>3, <1>4, <2>1
  <2> QED
    BY <2>1, <2>2, AboveIs
<1> QED
  BY <1>4, <1>5 DEF up2

Shortened(up, b, new, n) ==
  {x \in Above(up, n) : x \in Above(up, b) => x = b \/ x \in Above(up, new)}

LEMMA PutShortens ==
  ASSUME NEW up, NEW w, NEW r, NEW last, IsTree(up, w, r, last),
         NEW b \in In(up), b # r, w[b] \in 0 .. last,
         NEW new \in In(up), w[b] < w[new], new \in Above(up, up[b]),
         NEW n \in In(up), b \in Above(up, n)
  PROVE  Above(Put(up, b, new), n) = Shortened(up, b, new, n)
<1> DEFINE up2 == Put(up, b, new)
           D == Shortened(up, b, new, n)
<1>1. /\ IsTree(up2, w, r, last) /\ n \in In(up2) /\ up2[b] = new
      /\ \A x \in In(up) \ {b} : up2[x] = up[x]
      /\ new \in In(up2) /\ b \in Nodes
  <2>1. b \in Nodes /\ In(up) \subseteq Nodes
    BY DEF In
  <2>2. /\ IsTree(up2, w, r, last) /\ In(up2) = In(up) \union {b} /\ up2[b] = new
        /\ \A x \in Nodes \ {b} : up2[x] = up[x]
    BY <2>1, PutIs
  <2> QED
    BY <2>1, <2>2
<1>2. Above(up, n) \subseteq In(up) /\ Above(up, b) \subseteq Above(up, n)
  BY AboveIs, AboveChain
<1>3. Above(up2, new) = Above(up, new)
  <2>1. b \notin Above(up, new)
    <3>1. b \in Above(up, new) => b = new \/ w[new] < w[b]
      BY AboveChain
    <3>2. w[b] \in Nat /\ w[new] \in Nat
      BY DEF IsTree
    <3> QED
      BY <3>1, <3>2
  <2> QED
    BY <1>1, <2>1, PutElsewhere
<1>4. new \in Above(up, b) /\ new \in Above(up, new) /\ up[b] \in Above(up, b)
  <2>1. up[b] \in In(up) /\ Above(up, b) = {b} \union Above(up, up[b])
    BY AboveStep
  <2> QED
    BY <2>1, AboveIs
<1> HIDE DEF up2
<1>5. Above(up2, n) \subseteq D
  <2>1. n \in D
    <3>1. n \in Above(up, b) => n = b
      BY AboveDiffers
    <3> QED
      BY <3>1, AboveIs DEF Shortened
  <2>2. ASSUME NEW x \in D PROVE up2[x] \in D
    <3>1. x \in Above(up, n) /\ x \in In(up) /\ up[x] \in Above(up, n) /\ up[x] \in In(up)
      BY <1>2, <2>2, AboveIs DEF Shortened
    <3>2. CASE x = b
      <4>1. up2[x] = new /\ new \in Above(up, n)
        BY <1>1, <1>2, <1>4, <3>2
      <4> QED
        BY <1>4, <4>1 DEF Shortened
    <3>3. CASE x # b /\ x \in Above(up, b)
      <4>1. x \in Above(up, new)
        BY <2>2, <3>3 DEF Shortened
      <4>2. up[x] \in Above(up, new)
        BY <4>1, AboveIs
      <4> QED
        BY <1>1, <3>1, <3>3, <4>2 DEF Shortened
    <3>4. CASE x # b /\ b \in Above(up, x)
      <4>1. b \in Above(up, up[x])
        BY <3>1, <3>4, AboveStep
      <4>2. up[x] \in Above(up, b) => up[x] = b
        BY <3>1, <4>1, AboveDiffers
      <4> QED
        BY <1>1, <3>1, <3>4, <4>2 DEF Shortened
    <3>5. x \in Above(up, b) \/ b \in Above(up, x)
      BY <3>1, AboveIsLinear
    <3> QED
      BY <3>2, <3>3, <3>4, <3>5
  <2> HIDE DEF D
  <2> QED
    BY <1>1, <2>1, <2>2, AboveIs
<1>6. Above(up, n) \subseteq Above(up2, n) \union {x \in Above(up, b) : b \in Above(up2, n)}
  <2> DEFINE S == Above(up2, n) \union {x \in Above(up, b) : b \in Above(up2, n)}
  <2>1. n \in Above(up2, n) /\ \A x \in Above(up2, n) : up2[x] \in Above(up2, n)
    BY <1>1, AboveIs
  <2>2. \A x \in Above(up, b) : up[x] \in Above(up, b)
    BY AboveIs
  <2>3. ASSUME NEW x \in S \intersect In(up) PROVE up[x] \in S
    <3>1. CASE x \in Above(up2, n) /\ x # b
      BY <1>1, <2>1, <3>1
    <3>2. CASE x \in Above(up2, n) /\ x = b
      BY <1>4, <3>2
    <3>3. CASE x \in Above(up, b) /\ b \in Above(up2, n)
      BY <2>2, <3>3
    <3> QED
      BY <2>3, <3>1, <3>2, <3>3
  <2> HIDE DEF S
  <2>4. n \in S
    BY <2>1 DEF S
  <2>5. Above(up, n) \subseteq S
    BY <2>3, <2>4, AboveIs
  <2> QED
    BY <2>5 DEF S
<1>7. b \in Above(up2, n)
  BY <1>6
<1>8. Above(up, new) \subseteq Above(up2, n)
  <2>1. new \in Above(up2, n)
    BY <1>1, <1>7, AboveIs
  <2> QED
    BY <1>1, <1>3, <2>1, AboveChain
<1>9. D \subseteq Above(up2, n)
  BY <1>6, <1>7, <1>8 DEF Shortened
<1> QED
  BY <1>5, <1>9 DEF up2

(***************************************************************************)
(* What makes it so: a parent is the lowest that can be at present, and no *)
(* node not yet visited in this pass has lost an ancestor that one already *)
(* visited could have kept.  at is the number of the node to visit next.   *)
(***************************************************************************)
Joined(up, pr, r) ==
  \A n \in In(up) \ {r} : \A x \in In(up) :
    (\A p \in ToSet(pr[n]) \intersect In(up) : x \in Above(up, p))
      => x \in Above(up, up[n])

Ahead(up, w, pr, r, at) ==
  \A n \in In(up) \ {r} : \A p \in ToSet(pr[n]) \intersect In(up) :
    w[n] < w[p] =>
      \A y \in Above(up, up[n]) : w[n] > at \/ w[y] <= at => y \in Above(up, p)

(* The visit of b, numbered at, whose known predecessors are T. *)
VisitOf(up, w, pr, r, last, at, b, T, new) ==
  /\ IsTree(up, w, r, last)
  /\ b \in Nodes /\ b # r /\ w[b] = at /\ at \in 0 .. last
  /\ \A n \in In(up) : w[n] = at => n = b
  /\ T = ToSet(pr[b]) \intersect In(up) /\ T # {}
  /\ new \in In(up) /\ w[b] < w[new]
  /\ Above(up, new) = {x \in In(up) : \A p \in T : x \in Above(up, p)}
  /\ \A n \in In(up) \ {r} : \E p \in ToSet(pr[n]) \intersect In(up) : w[n] < w[p]
  /\ b \notin In(up) => \A n \in In(up) : w[n] > at

LEMMA VisitLifts ==
  ASSUME NEW up, NEW w, NEW pr, NEW r, NEW last, NEW at, NEW b, NEW T, NEW new,
         VisitOf(up, w, pr, r, last, at, b, T, new), Joined(up, pr, r),
         b \in In(up)
  PROVE  new \in Above(up, up[b])
<1>1. new \in Above(up, new)
  BY AboveIs DEF VisitOf
<1> QED
  BY <1>1 DEF VisitOf, Joined

(* The chains after a visit, with b known before or not. *)
LEMMA VisitIs ==
  ASSUME NEW up, NEW w, NEW pr, NEW r, NEW last, NEW at, NEW b, NEW T, NEW new,
         VisitOf(up, w, pr, r, last, at, b, T, new), Joined(up, pr, r),
         NEW up2, up2 = Put(up, b, new)
  PROVE  /\ In(up2) = In(up) \union {b} /\ up2[b] = new
         /\ \A n \in In(up) \ {b} : up2[n] = up[n]
         /\ Above(up2, new) = Above(up, new)
         /\ \A n \in In(up) : b \notin Above(up, n) => Above(up2, n) = Above(up, n)
         /\ \A n \in In(up) : b \in Above(up, n) =>
              Above(up2, n) = Shortened(up, b, new, n)
         /\ \A n \in In(up) : w[n] > at => b \notin Above(up, n)
<1>1. /\ IsTree(up, w, r, last) /\ b \in Nodes /\ b # r /\ w[b] \in 0 .. last
      /\ new \in In(up) /\ w[b] < w[new] /\ w[b] = at
  BY DEF VisitOf
<1>2. /\ In(up2) = In(up) \union {b} /\ up2[b] = new
      /\ \A n \in Nodes \ {b} : up2[n] = up[n]
  BY <1>1, PutIs
<1>3. In(up) \subseteq Nodes
  BY DEF In
<1>4. ASSUME NEW n \in In(up), b \notin Above(up, n)
      PROVE  Above(up2, n) = Above(up, n)
  BY <1>1, <1>4, PutElsewhere
<1>5. ASSUME NEW n \in In(up), b \in Above(up, n)
      PROVE  Above(up2, n) = Shortened(up, b, new, n)
  <2>1. b \in In(up)
    BY <1>1, <1>5, AboveIs
  <2>2. new \in Above(up, up[b])
    BY <2>1, VisitLifts
  <2> QED
    BY <1>1, <1>5, <2>1, <2>2, PutShortens
<1>6. ASSUME NEW n \in In(up), w[n] > at PROVE b \notin Above(up, n)
  <2>1. b \in Above(up, n) => b = n \/ w[n] < w[b]
    BY <1>1, AboveChain
  <2>2. w[n] \in Nat /\ at \in Nat
    BY <1>1 DEF IsTree
  <2> QED
    BY <1>1, <1>6, <2>1, <2>2
<1>7. w[new] > at
  <2>1. w[new] \in Nat /\ at \in Nat
    BY <1>1 DEF IsTree
  <2> QED
    BY <1>1, <2>1
<1> QED
  BY <1>1, <1>2, <1>3, <1>4, <1>5, <1>6, <1>7

(* Chains only get shorter. *)
LEMMA VisitShortens ==
  ASSUME NEW up, NEW w, NEW pr, NEW r, NEW last, NEW at, NEW b, NEW T, NEW new,
         VisitOf(up, w, pr, r, last, at, b, T, new), Joined(up, pr, r),
         NEW n \in In(up)
  PROVE  Above(Put(up, b, new), n) \subseteq Above(up, n)
BY VisitIs DEF Shortened

LEMMA VisitKeepsJoined ==
  ASSUME NEW up, NEW w, NEW pr, NEW r, NEW last, NEW at, NEW b, NEW T, NEW new,
         VisitOf(up, w, pr, r, last, at, b, T, new),
         Joined(up, pr, r), Ahead(up, w, pr, r, at)
  PROVE  Joined(Put(up, b, new), pr, r)
<1> DEFINE up2 == Put(up, b, new)
<1>1. /\ In(up2) = In(up) \union {b} /\ up2[b] = new
      /\ \A n \in In(up) \ {b} : up2[n] = up[n]
      /\ Above(up2, new) = Above(up, new)
      /\ \A n \in In(up) : b \notin Above(up, n) => Above(up2, n) = Above(up, n)
      /\ \A n \in In(up) : b \in Above(up, n) => Above(up2, n) = Shortened(up, b, new, n)
  BY VisitIs
<1>2. \A n \in In(up) : Above(up2, n) \subseteq Above(up, n)
  BY VisitShortens
<1>3. /\ IsTree(up, w, r, last) /\ w[b] = at /\ at \in 0 .. last /\ b # r
      /\ T = ToSet(pr[b]) \intersect In(up) /\ T # {} /\ new \in In(up)
      /\ Above(up, new) = {x \in In(up) : \A p \in T : x \in Above(up, p)}
      /\ \A n \in In(up) \ {r} : \E p \in ToSet(pr[n]) \intersect In(up) : w[n] < w[p]
  BY DEF VisitOf
<1> HIDE DEF up2
<1>4. SUFFICES ASSUME NEW n \in In(up2) \ {r}, NEW x \in In(up2),
                      \A p \in ToSet(pr[n]) \intersect In(up2) : x \in Above(up2, p)
               PROVE  x \in Above(up2, up2[n])
  BY DEF Joined, up2
<1>5. \A p \in ToSet(pr[n]) \intersect In(up) : x \in Above(up2, p) /\ x \in Above(up, p)
  BY <1>1, <1>2, <1>4
<1>6. CASE n = b
  <2>1. PICK p \in T : x \in Above(up, p)
    BY <1>3, <1>5, <1>6
  <2>2. p \in In(up)
    BY <1>3
  <2>3. x \in In(up)
    BY <1>3, <2>1, <2>2, AboveIs
  <2>4. x \in Above(up, new)
    BY <1>3, <1>5, <1>6, <2>3
  <2> QED
    BY <1>1, <1>6, <2>4
<1>7. CASE n # b
  <2>1. n \in In(up) \ {r} /\ up2[n] = up[n]
    BY <1>1, <1>4, <1>7
  <2>2. up[n] \in In(up) /\ w[n] < w[up[n]]
    BY <1>3, <2>1 DEF IsTree
  <2>3. PICK p \in ToSet(pr[n]) \intersect In(up) : w[n] < w[p]
    BY <1>3, <2>1
  <2>4. x \in Above(up2, p) /\ x \in Above(up, p)
    BY <1>5
  <2>5. x \in In(up)
    BY <1>3, <2>4, AboveIs
  <2>6. x \in Above(up, up[n])
    BY <1>5, <2>1, <2>5 DEF Joined
  <2>7. CASE b \notin Above(up, up[n])
    BY <1>1, <2>1, <2>2, <2>6, <2>7
  <2>8. CASE b \in Above(up, up[n])
    <3>1. b \in Above(up, p)
      <4>1. w[b] <= at
        BY <1>3
      <4> QED
        BY <2>1, <2>3, <2>8, <4>1 DEF Ahead
    <3>2. x \in Above(up, b) => x = b \/ x \in Above(up, new)
      BY <1>1, <2>4, <3>1 DEF Shortened
    <3>3. x \in Shortened(up, b, new, up[n])
      BY <2>6, <3>2 DEF Shortened
    <3> QED
      BY <1>1, <2>1, <2>2, <2>8, <3>3
  <2> QED
    BY <2>7, <2>8
<1> QED
  BY <1>6, <1>7

LEMMA VisitKeepsAhead ==
  ASSUME NEW up, NEW w, NEW pr, NEW r, NEW last, NEW at, NEW b, NEW T, NEW new,
         VisitOf(up, w, pr, r, last, at, b, T, new),
         Joined(up, pr, r), Ahead(up, w, pr, r, at)
  PROVE  Ahead(Put(up, b, new), w, pr, r, at - 1)
<1> DEFINE up2 == Put(up, b, new)
<1>1. /\ In(up2) = In(up) \union {b} /\ up2[b] = new
      /\ \A n \in In(up) \ {b} : up2[n] = up[n]
      /\ Above(up2, new) = Above(up, new)
      /\ \A n \in In(up) : b \notin Above(up, n) => Above(up2, n) = Above(up, n)
      /\ \A n \in In(up) : b \in Above(up, n) => Above(up2, n) = Shortened(up, b, new, n)
      /\ \A n \in In(up) : w[n] > at => b \notin Above(up, n)
  BY VisitIs
<1>2. \A n \in In(up) : Above(up2, n) \subseteq Above(up, n)
  BY VisitShortens
<1>3. /\ IsTree(up, w, r, last) /\ w[b] = at /\ at \in 0 .. last /\ b # r
      /\ \A n \in In(up) : w[n] = at => n = b
      /\ T = ToSet(pr[b]) \intersect In(up) /\ T # {} /\ new \in In(up)
      /\ Above(up, new) = {x \in In(up) : \A p \in T : x \in Above(up, p)}
      /\ b \notin In(up) => \A n \in In(up) : w[n] > at
  BY DEF VisitOf
<1>4. (\A n \in In(up) : w[n] \in Nat) /\ at \in Nat
  BY <1>3 DEF IsTree
<1> HIDE DEF up2
<1>5. SUFFICES ASSUME NEW n \in In(up2) \ {r}, NEW p \in ToSet(pr[n]) \intersect In(up2),
                      w[n] < w[p], NEW y \in Above(up2, up2[n]),
                      w[n] > at - 1 \/ w[y] <= at - 1
               PROVE  y \in Above(up2, p)
  BY DEF Ahead, up2
<1>6. p \in In(up)
  <2>1. p = b => n \in In(up) /\ ~(w[n] > at)
    BY <1>1, <1>3, <1>4, <1>5
  <2>2. b \notin In(up) => p # b
    BY <1>3, <2>1
  <2> QED
    BY <1>1, <2>2
<1>7. CASE n = b
  <2>1. y \in Above(up, new) /\ p \in T /\ w[p] > at
    BY <1>1, <1>3, <1>4, <1>5, <1>6, <1>7
  <2>2. y \in Above(up, p)
    BY <1>3, <2>1
  <2> QED
    BY <1>1, <1>6, <2>1, <2>2
<1>8. CASE n # b
  <2>1. n \in In(up) \ {r} /\ up2[n] = up[n] /\ w[n] # at
    BY <1>1, <1>3, <1>5, <1>8
  <2>2. up[n] \in In(up) /\ w[n] < w[up[n]]
    BY <1>3, <2>1 DEF IsTree
  <2>3. y \in Above(up, up[n])
    BY <1>2, <1>5, <2>1, <2>2
  <2>4. y \in In(up)
    BY <1>3, <2>2, <2>3, AboveIs
  <2>5. w[n] \in Nat /\ w[y] \in Nat /\ w[p] \in Nat
    BY <1>4, <1>6, <2>1, <2>4
  <2>6. w[n] > at \/ w[y] <= at
    BY <1>4, <1>5, <2>1, <2>5
  <2>7. y \in Above(up, p)
    BY <1>5, <1>6, <2>1, <2>3, <2>6 DEF Ahead
  <2>8. CASE b \notin Above(up, p)
    BY <1>1, <1>6, <2>7, <2>8
  <2>9. CASE b \in Above(up, p)
    <3>1. ~(w[p] > at)
      BY <1>1, <1>6, <2>9
    <3>2. w[y] < at
      BY <1>4, <1>5, <2>5, <3>1
    <3>3. y \notin Above(up, b)
      <4>1. b \in In(up)
        BY <1>3, <1>6, <2>9, AboveIs
      <4>2. y \in Above(up, b) => y = b \/ w[b] < w[y]
        BY <1>3, <4>1, AboveChain
      <4> QED
        BY <1>3, <1>4, <2>5, <3>2, <4>2
    <3> QED
      BY <1>1, <1>6, <2>7, <2>9, <3>3 DEF Shortened
  <2> QED
    BY <2>8, <2>9
<1> QED
  BY <1>7, <1>8

(***************************************************************************)
(* The invariant of climbing, over the state, and the climbing: a parent   *)
(* gives way only to itself or to one of its ancestors.                    *)
(***************************************************************************)
ClimbInv ==
  phase = "pass" =>
    /\ Joined(idom, pred, root)
    /\ Ahead(idom, Rank(order), pred, root, Len(order) + 1 - next)

Climbs == \A n \in Nodes : idom[n] # None => idom'[n] \in Above(idom, idom[n])

(* A visit is one of VisitOf. *)
LEMMA VisitFits ==
  ASSUME NEW up, NEW o, NEW sc, NEW pr, NEW r, NEW nx, NEW ch,
         Passing(up, o, sc, pr, r, nx, ch), SearchFound(o, sc, r), Converse(sc, pr),
         nx <= Len(o), NEW b, b = o[Len(o) + 1 - nx],
         NEW T, T = ToSet(pr[b]) \intersect In(up),
         NEW new \in In(up),
         Above(up, new) = {x \in In(up) : \A p \in T : x \in Above(up, p)}
  PROVE  VisitOf(up, Rank(o), pr, r, Len(o), Len(o) + 1 - nx, b, T, new)
<1> DEFINE w == Rank(o)  last == Len(o)  at == Len(o) + 1 - nx
<1>1. b \in Nodes /\ b # r /\ b \in ToSet(o) /\ w[b] = at /\ at \in 0 .. last /\ T # {}
  BY VisitsAreProcessed
<1>2. w[b] < w[new]
  BY VisitIsBelow
<1>3. IsTree(up, w, r, last) /\ In(up) \subseteq ToSet(o)
  BY DEF Passing
<1>4. /\ \A n \in ToSet(o) : w[n] \in DOMAIN o /\ o[w[n]] = n
      /\ \A k \in DOMAIN o : o[k] \in ToSet(o) /\ w[o[k]] = k
  BY RankIs
<1>5. last \in Nat /\ DOMAIN o = 1 .. last /\ nx \in Nat /\ 2 <= nx /\ nx <= last
  BY DEF SearchFound, Passing
<1>6. \A n \in In(up) : w[n] = at => n = b
  BY <1>1, <1>3, <1>4
<1>7. b \notin In(up) => \A n \in In(up) : w[n] > at
  <2>1. b \notin In(up) => FirstPass(up, o, nx)
    BY <1>1 DEF Passing
  <2>2. FirstPass(up, o, nx) => \A n \in In(up) : w[n] > at
    BY <1>4 DEF FirstPass
  <2> QED
    BY <2>1, <2>2
<1>8. ASSUME NEW n \in In(up) \ {r}
      PROVE  \E p \in ToSet(pr[n]) \intersect In(up) : w[n] < w[p]
  <2>1. n \in ToSet(o) /\ w[n] \in DOMAIN o /\ o[w[n]] = n
    BY <1>3, <1>4
  <2>2. PICK j \in DOMAIN o : w[n] < j /\ n \in ToSet(sc[o[j]])
    BY <2>1 DEF SearchFound
  <2>3. o[j] \in ToSet(o) /\ o[j] \in Nodes /\ w[o[j]] = j /\ n \in Nodes
    BY <1>4, <2>1, RankIs
  <2>4. o[j] \in ToSet(pr[n])
    BY <2>2, <2>3 DEF Converse
  <2>5. o[j] \in In(up)
    <3>1. CASE In(up) = ToSet(o)
      BY <2>3, <3>1
    <3>2. CASE FirstPass(up, o, nx)
      <4>1. w[n] > at
        <5>1. PICK k \in DOMAIN o : k > at /\ n = o[k]
          BY <3>2 DEF FirstPass
        <5> QED
          BY <1>4, <5>1
      <4>2. j > at
        BY <1>5, <2>1, <2>2, <4>1
      <4> QED
        BY <3>2, <4>2 DEF FirstPass
    <3> QED
      BY <3>1, <3>2 DEF Passing
  <2> QED
    BY <2>2, <2>3, <2>4, <2>5
<1> HIDE DEF w, last, at
<1>9. VisitOf(up, w, pr, r, last, at, b, T, new)
  BY <1>1, <1>2, <1>3, <1>6, <1>7, <1>8 DEF VisitOf
<1> QED
  BY <1>9 DEF w, last, at

(* In one pass after another, each step keeps the invariant and climbs. *)
LEMMA VisitClimbs == TreeInv /\ ClimbInv /\ Visit => ClimbInv' /\ Climbs
<1> SUFFICES ASSUME TreeInv, ClimbInv, Visit PROVE ClimbInv' /\ Climbs
  OBVIOUS
<1> DEFINE b == AtHand  T == Processed  at == Len(order) + 1 - next
<1>1. /\ phase = "pass" /\ next <= Len(order) /\ next' = next + 1
      /\ UNCHANGED <<pred, root, phase, order>>
  BY DEF Visit, graphVars
<1>2. /\ SearchFound(order, succ, root) /\ Converse(succ, pred)
      /\ Passing(idom, order, succ, pred, root, next, changed)
  BY <1>1, SearchEnds DEF TreeInv
<1>3. PICK new \in In(idom) : Puts(new)
  BY VisitPuts
<1>4. VisitOf(idom, Rank(order), pred, root, Len(order), at, b, T, new)
  <2>1. b = order[Len(order) + 1 - next]
    BY DEF AtHand
  <2>2. T = ToSet(pred[b]) \intersect In(idom)
    BY DEF Processed
  <2>3. Above(idom, new) = {x \in In(idom) : \A p \in T : x \in Above(idom, p)}
    BY <1>3 DEF Puts
  <2> HIDE DEF b, T
  <2> QED
    BY <1>1, <1>2, <2>1, <2>2, <2>3, VisitFits
<1>5. Joined(idom, pred, root) /\ Ahead(idom, Rank(order), pred, root, at)
  BY <1>1 DEF ClimbInv
<1>6. idom' = Put(idom, b, new)
  BY <1>3 DEF Puts
<1> HIDE DEF b, T
<1>7. Joined(idom', pred, root)
  BY <1>6, <1>4, <1>5, VisitKeepsJoined
<1>8. Ahead(idom', Rank(order), pred, root, at - 1)
  BY <1>6, <1>4, <1>5, VisitKeepsAhead
<1>9. at - 1 = Len(order) + 1 - (next + 1)
  BY <1>2 DEF Passing, SearchFound
<1>10. ClimbInv'
  <2> HIDE DEF at
  <2>1. Ahead(idom', Rank(order'), pred', root', Len(order') + 1 - next')
    BY <1>1, <1>8, <1>9
  <2> QED
    BY <1>1, <1>7, <2>1 DEF ClimbInv
<1>11. ASSUME NEW n \in Nodes, idom[n] # None PROVE idom'[n] \in Above(idom, idom[n])
  <2>1. n \in In(idom)
    BY <1>11 DEF In
  <2>2. IsTree(idom, Rank(order), root, Len(order))
    BY <1>2 DEF Passing
  <2>3. CASE n = b
    <3>1. idom'[b] = new
      BY <1>6, <1>4, <1>5, VisitIs
    <3>2. new \in Above(idom, idom[b])
      BY <1>4, <1>5, <2>1, <2>3, VisitLifts
    <3> QED
      BY <2>3, <3>1, <3>2
  <2>4. CASE n # b
    <3>1. idom'[n] = idom[n]
      BY <1>6, <1>4, <1>5, <2>1, <2>4, VisitIs
    <3>2. idom[n] \in In(idom)
      BY <2>1, <2>2, AboveStep
    <3>3. idom[n] \in Above(idom, idom[n])
      BY <2>2, <3>2, AboveIs
    <3> QED
      BY <3>1, <3>3
  <2> QED
    BY <2>3, <2>4
<1> QED
  BY <1>10, <1>11 DEF Climbs

(* A step that leaves the tree alone. *)
LEMMA StayingClimbs ==
  ASSUME TreeInv, UNCHANGED idom
  PROVE  Climbs
<1> SUFFICES ASSUME NEW n \in Nodes, idom[n] # None PROVE idom'[n] \in Above(idom, idom[n])
  BY DEF Climbs
<1>1. n \in In(idom)
  BY DEF In
<1>2. phase \in {"pass", "done"}
  BY DEF TreeInv
<1>3. IsTree(idom, Rank(order), root, Len(order))
  BY <1>2 DEF TreeInv, Passing
<1>4. idom[n] \in In(idom)
  BY <1>1, <1>3, AboveStep
<1> QED
  BY <1>3, <1>4, AboveIs

LEMMA ClimbSteps ==
  TreeInv /\ ClimbInv /\ [TreeNext]_treeVars => ClimbInv' /\ Climbs
<1> SUFFICES ASSUME TreeInv, ClimbInv, [TreeNext]_treeVars PROVE ClimbInv' /\ Climbs
  OBVIOUS
<1>1. CASE Descend \/ Finish
  <2>1. phase' # "pass" /\ UNCHANGED idom
    BY <1>1 DEF Descend, Finish, Searching
  <2> QED
    BY <2>1, StayingClimbs DEF ClimbInv
<1>2. CASE ReverseGraph
  <2>1. phase' # "pass" /\ UNCHANGED idom
    BY <1>2 DEF ReverseGraph
  <2> QED
    BY <2>1, StayingClimbs DEF ClimbInv
<1>3. CASE StartPasses
  <2>1. /\ phase \in {"order", "reverse order"} /\ UNCHANGED <<root, pred, order>>
        /\ idom' = [idom EXCEPT ![root] = root]
    BY <1>3 DEF StartPasses, graphVars
  <2>2. idom = [n \in Nodes |-> None]
    BY <2>1 DEF TreeInv
  <2>3. In(idom') \ {root} = {}
    BY <2>1, <2>2 DEF In
  <2>4. Joined(idom', pred', root')
    BY <2>1, <2>3 DEF Joined
  <2>5. Ahead(idom', Rank(order'), pred', root', Len(order') + 1 - next')
    BY <2>1, <2>3 DEF Ahead
  <2>6. Climbs
    BY <2>2 DEF Climbs
  <2> QED
    BY <2>4, <2>5, <2>6 DEF ClimbInv
<1>4. CASE Visit
  BY <1>4, VisitClimbs
<1>5. CASE PassEnds
  <2>1. phase = "pass" /\ next > Len(order) /\ UNCHANGED <<pred, root, order, idom>>
    BY <1>5 DEF PassEnds, graphVars
  <2>2. /\ SearchFound(order, succ, root)
        /\ Passing(idom, order, succ, pred, root, next, changed)
    BY <2>1, SearchEnds DEF TreeInv
  <2>3. \A n \in In(idom) : Rank(order)[n] > Len(order) + 1 - next
    <3>1. /\ Len(order) \in Nat /\ next \in Nat /\ next <= Len(order) + 1
          /\ DOMAIN order = 1 .. Len(order) /\ In(idom) \subseteq ToSet(order)
      BY <2>2 DEF Passing, SearchFound
    <3>2. \A n \in In(idom) : Rank(order)[n] \in DOMAIN order
      BY <2>2, <3>1, RankIs
    <3> QED
      BY <2>1, <3>1, <3>2
  <2>4. Joined(idom, pred, root)
        /\ Ahead(idom, Rank(order), pred, root, Len(order) + 1 - next)
    BY <2>1 DEF ClimbInv
  <2>5. \A at : Ahead(idom, Rank(order), pred, root, at)
    BY <2>3, <2>4 DEF Ahead
  <2>6. ClimbInv'
    BY <2>1, <2>4, <2>5 DEF ClimbInv
  <2> QED
    BY <2>1, <2>6, StayingClimbs
<1>6. CASE UNCHANGED treeVars
  <2>1. UNCHANGED <<phase, idom, pred, root, order, next>>
    BY <1>6 DEF treeVars
  <2> QED
    BY <2>1, StayingClimbs DEF ClimbInv
<1> QED
  BY <1>1, <1>2, <1>3, <1>4, <1>5, <1>6 DEF TreeNext

(***************************************************************************)
(* Once a block has an immediate dominator, no visit puts it lower or to a *)
(* side: the new one is one of those that the block had above it.  This is *)
(* why the passes end, since no chain grows again; it rests on visiting    *)
(* the blocks in reverse post-order.                                       *)
(***************************************************************************)
THEOREM TreeOnlyClimbs == TreeSpec => [][Climbs]_treeVars
<1>1. TreeInit => ClimbInv
  BY DEF TreeInit, ClimbInv
<1>2. TreeInv /\ ClimbInv /\ [TreeNext]_treeVars => ClimbInv' /\ [Climbs]_treeVars
  BY ClimbSteps
<1>3. TreeSpec => []TreeInv
  BY TreeAlwaysInv
<1> QED
  BY <1>1, <1>2, <1>3, PTL DEF TreeSpec
==============================================================================
