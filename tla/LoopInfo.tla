------------------------------- MODULE LoopInfo -------------------------------
(***************************************************************************)
(* lifter/loop_analyzer.cc: the natural loops of the graph, from its       *)
(* finished dominator tree.  LoopInfo::Analyze is a function of both: its  *)
(* results are definitions over the state of DominatorTree.  The edges     *)
(* that leave a loop and its classification are left out.                  *)
(***************************************************************************)
EXTENDS DominatorTree

CONSTANTS
  Jumps,     \* blocks of two instructions that end in a jump when they have one successor
  Branches   \* blocks that end in a branch when they have at most two successors

ASSUME JumpsAreBlocks == Jumps \subseteq Blocks /\ Branches \subseteq Blocks

(***************************************************************************)
(* Back edges: their target dominates their source.                        *)
(***************************************************************************)
Latches(header) ==
  {b \in Reachable : header \in ToSet(cfg[b]) /\ Dominates(header, b)}

Headers == {h \in Blocks : Latches(h) # {}}

\* A branch into another function, or at the end of this one, has one successor here.
IsBranch(b) == b \in Branches /\ Len(cfg[b]) <= 2

FaultIsTrampoline(latch, header) ==    \* fault: any number of predecessors
  /\ latch \in Jumps /\ cfg[latch] = <<header>>
  /\ Len(pred[latch]) >= 1
  /\ pred[latch][1] # header /\ IsBranch(pred[latch][1])

(***************************************************************************)
(* DetectTrampolineBranchPredecessor: the latch is a jump back to the      *)
(* header that only one block, which ends in a branch, leads to.           *)
(***************************************************************************)
IsTrampoline(latch, header) ==
  /\ latch \in Jumps /\ cfg[latch] = <<header>>
  /\ Len(pred[latch]) = 1
  /\ pred[latch][1] # header /\ IsBranch(pred[latch][1])

Trampolines(header) == {t \in Latches(header) : IsTrampoline(t, header)}

(***************************************************************************)
(* loop->latches: a trampoline's branch takes its place.                   *)
(***************************************************************************)
FoldedLatches(header) ==
  (Latches(header) \ Trampolines(header))
    \union {pred[t][1] : t \in Trampolines(header)}

(***************************************************************************)
(* loop->blocks: the worklist goes back from the latches and stops at the  *)
(* blocks that are in already.                                             *)
(***************************************************************************)
LoopBlocks ==
  [header \in Headers |->
     LET in == {header} \union Trampolines(header)
         back == {e \in (Blocks \ in) \X Reachable : e[2] \in ToSet(pred[e[1]])}
     IN in \union Reach(back, FoldedLatches(header) \ in)]

(***************************************************************************)
(* The immediate parent is the smallest loop that contains the loop.       *)
(***************************************************************************)
Parents(header, loops) ==
  {h \in Headers : /\ loops[header] \subseteq loops[h]
                   /\ loops[header] # loops[h]}

Parent(header, loops) ==
  CHOOSE h \in Parents(header, loops) :
    \A k \in Parents(header, loops) :
      Cardinality(loops[h]) <= Cardinality(loops[k])

Depth(loops) ==
  LET depth[h \in Headers] ==
        IF Parents(h, loops) = {} THEN 1 ELSE depth[Parent(h, loops)] + 1
  IN depth

(***************************************************************************)
(* LoopDepth(block): the depth of the innermost loop that contains it.     *)
(***************************************************************************)
LoopDepth(block) ==
  LET loops == LoopBlocks
      depth == Depth(loops)
      around == {depth[h] : h \in {k \in Headers : block \in loops[k]}}
  IN IF around = {} THEN 0 ELSE CHOOSE d \in around : \A e \in around : d >= e

-----------------------------------------------------------------------------
(***************************************************************************)
(* What a header's loop is: the blocks that reach one of its back edges    *)
(* without going through it.                                               *)
(***************************************************************************)
NaturalLoop(header) ==
  LET inside == {e \in Edges : header \notin {e[1], e[2]}}
  IN {header} \union {b \in Reachable \ {header} :
                        Reach(inside, {b}) \intersect Latches(header) # {}}

(***************************************************************************)
(* Folding a trampoline into its branch changes no loop, a loop is entered *)
(* through its header only, two loops are disjoint or one contains the     *)
(* other, and a block is as deep as there are loops around it.             *)
(***************************************************************************)
LoopsAreNatural ==
  phase = "done" /\ way = "dominators" =>
    LET loops == LoopBlocks IN
    /\ \A h \in Headers :
         /\ loops[h] = NaturalLoop(h)
         /\ \A b \in loops[h] : Dominates(h, b)
         /\ \A k \in Headers \ {h} : \/ loops[h] \intersect loops[k] = {}
                                     \/ loops[h] \subseteq loops[k]
                                     \/ loops[k] \subseteq loops[h]
    /\ \A b \in Blocks :
         LoopDepth(b) = Cardinality({h \in Headers : b \in loops[h]})
=============================================================================
