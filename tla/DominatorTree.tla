---------------------------- MODULE DominatorTree ----------------------------
(***************************************************************************)
(* lifter/dominator_tree.cc over core/control_flow_graph.cc: dominators    *)
(* and post-dominators of a function's blocks by the algorithm of Cooper,  *)
(* Harvey and Kennedy.  A depth-first search orders the blocks, for        *)
(* post-dominators a second one over the reversed graph; then every block  *)
(* takes the common ancestor of its processed predecessors, until a pass   *)
(* changes nothing.                                                        *)
(***************************************************************************)
EXTENDS Integers, Sequences, FiniteSets, SequencesExt

CONSTANTS
  N,       \* blocks, numbered from 0; EntryBlockId() is 0
  Cfgs     \* successors of each block, in the order of its edges

Blocks == 0 .. N - 1
Entry == 0
VirtualExit == N
Nodes == 0 .. N
None == N + 1

ASSUME TreeConstants ==
  /\ N \in Nat \ {0}
  /\ Cfgs \subseteq [Blocks -> Seq(Blocks)]

VARIABLES
  cfg,       \* successors of the control flow graph
  way,       \* "dominators" or "postdominators"
  phase,     \* "order", "reverse order", "pass", "done"
  succ,      \* successors in the graph the tree is of
  pred,      \* its predecessors
  root,      \* its root
  stack,     \* calls of dfs: <<node, next successor>>
  order,     \* the nodes dfs has finished, in post-order
  idom,      \* idom[node], None while it is not in the map
  next,      \* nodes of the current pass that are visited
  changed

treeVars == <<cfg, way, phase, succ, pred, root, stack, order, idom, next, changed>>

graphVars == <<cfg, way, succ, pred, root>>

-----------------------------------------------------------------------------
(***************************************************************************)
(* A block's predecessors, one for each edge, as the graph's construction  *)
(* appends them.                                                           *)
(***************************************************************************)
Predecessors(g) ==
  [b \in Blocks |->
     FlattenSeq([k \in 1 .. N |->
       [j \in 1 .. Cardinality({e \in DOMAIN g[k - 1] : g[k - 1][e] = b})
          |-> k - 1]])]

(***************************************************************************)
(* A function on the blocks, and a value at the virtual exit.              *)
(***************************************************************************)
WithExit(f, atExit) == [n \in Nodes |-> IF n = VirtualExit THEN atExit ELSE f[n]]

NoEdges == [b \in Blocks |-> << >>]

TreeInit ==
  /\ cfg \in Cfgs
  /\ way \in {"dominators", "postdominators"}
  /\ phase = "order"
  /\ succ = WithExit(cfg, << >>)
  /\ pred = WithExit(Predecessors(cfg), << >>)
  /\ root = Entry
  /\ stack = << <<Entry, 1>> >>
  /\ order = << >>
  /\ idom = [n \in Nodes |-> None]
  /\ next = 1
  /\ changed = FALSE

-----------------------------------------------------------------------------
(***************************************************************************)
(* One step of dfs: into the next successor unless it is visited, or back  *)
(* to the caller.                                                          *)
(***************************************************************************)
Visited == ToSet(order) \union {stack[k][1] : k \in DOMAIN stack}

Searching == phase \in {"order", "reverse order"} /\ stack # << >>

Caller == SubSeq(stack, 1, Len(stack) - 1)

Descend ==
  /\ Searching
  /\ LET node == Last(stack)[1]  at == Last(stack)[2] IN
       /\ at <= Len(succ[node])
       /\ stack' = Append(Caller, <<node, at + 1>>)
                   \o (IF succ[node][at] \in Visited THEN << >>
                       ELSE << <<succ[node][at], 1>> >>)
  /\ UNCHANGED <<graphVars, phase, order, idom, next, changed>>

Finish ==
  /\ Searching
  /\ Last(stack)[2] > Len(succ[Last(stack)[1]])
  /\ order' = Append(order, Last(stack)[1])
  /\ stack' = Caller
  /\ UNCHANGED <<graphVars, phase, idom, next, changed>>

(***************************************************************************)
(* The reversed graph of the reachable blocks, rooted at the one exit, at  *)
(* a virtual exit that follows several, or, in a function that never       *)
(* returns, at the last block in reverse post-order.                       *)
(***************************************************************************)
Reachable == ToSet(order)

(***************************************************************************)
(* The elements of s that are in S, in their order.                        *)
(***************************************************************************)
Among(s, S) ==
  LET kept[i \in 0 .. Len(s)] ==
        IF i = 0 THEN << >>
        ELSE IF s[i] \in S THEN Append(kept[i - 1], s[i]) ELSE kept[i - 1]
  IN kept[Len(s)]

Kept(edges) ==
  [b \in Blocks |-> IF b \in Reachable
                    THEN Among(edges[b], Reachable) ELSE << >>]

Exits == Among([k \in 1 .. N |-> k - 1],
               {b \in Blocks \intersect Reachable : Kept(cfg)[b] = << >>})

ReverseRoot == IF Len(Exits) = 0 THEN order[1]
               ELSE IF Len(Exits) = 1 THEN Exits[1] ELSE VirtualExit

ReverseGraph ==
  /\ phase = "order" /\ stack = << >> /\ way = "postdominators"
  /\ phase' = "reverse order"
  /\ root' = ReverseRoot
  /\ LET virtual == ReverseRoot = VirtualExit IN
       /\ succ' = WithExit(Kept(Predecessors(cfg)),
                           IF virtual THEN Exits ELSE << >>)
       /\ pred' = WithExit([b \in Blocks |->
                              IF virtual /\ b \in ToSet(Exits)
                              THEN << VirtualExit >> ELSE Kept(cfg)[b]],
                           << >>)
  /\ stack' = << <<ReverseRoot, 1>> >>
  /\ order' = << >>
  /\ UNCHANGED <<cfg, way, idom, next, changed>>

-----------------------------------------------------------------------------
(***************************************************************************)
(* ComputeOnGraph.                                                         *)
(***************************************************************************)
StartPasses ==
  /\ stack = << >>
  /\ phase = "reverse order" \/ (phase = "order" /\ way = "dominators")
  /\ phase' = "pass"
  /\ idom' = [idom EXCEPT ![root] = root]
  /\ next' = 2
  /\ changed' = FALSE
  /\ UNCHANGED <<graphVars, stack, order>>

Known == {n \in Nodes : idom[n] # None}

PostIndex(n) == CHOOSE k \in DOMAIN order : order[k] = n

(***************************************************************************)
(* Two fingers climb, the later in reverse post-order first, until they    *)
(* meet; a node without a parent sends them to the root.                   *)
(***************************************************************************)
Intersect(b1, b2) ==
  LET Up(n) == idom[n] \notin {None, n}
      meet[f \in Known \X Known] ==
        IF f[1] = f[2] THEN f[1]
        ELSE IF PostIndex(f[1]) < PostIndex(f[2])
        THEN IF Up(f[1]) THEN meet[<<idom[f[1]], f[2]>>] ELSE root
        ELSE IF Up(f[2]) THEN meet[<<f[1], idom[f[2]]>>] ELSE root
  IN meet[<<b1, b2>>]

Visit ==
  /\ phase = "pass" /\ next <= Len(order)
  /\ next' = next + 1
  /\ LET block == order[Len(order) + 1 - next]
         processed == Among(pred[block], Known)
         new_idom == FoldLeft(LAMBDA meeting, p : Intersect(p, meeting),
                              processed[1], processed) IN
       IF processed = << >> THEN UNCHANGED <<idom, changed>>
       ELSE /\ idom' = [idom EXCEPT ![block] = new_idom]
            /\ changed' = (changed \/ idom[block] # new_idom)
  /\ UNCHANGED <<graphVars, phase, stack, order>>

FaultPassEnds ==    \* fault: one pass only
  /\ phase = "pass" /\ next > Len(order)
  /\ phase' = "done"
  /\ UNCHANGED <<graphVars, stack, order, idom, next, changed>>

FaultPassStays ==    \* fault: changed is not reset
  /\ phase = "pass" /\ next > Len(order)
  /\ IF changed THEN next' = 2 /\ UNCHANGED phase
                ELSE phase' = "done" /\ UNCHANGED next
  /\ UNCHANGED <<graphVars, stack, order, idom, changed>>

PassEnds ==
  /\ phase = "pass" /\ next > Len(order)
  /\ IF changed THEN next' = 2 /\ changed' = FALSE /\ UNCHANGED phase
                ELSE phase' = "done" /\ UNCHANGED <<next, changed>>
  /\ UNCHANGED <<graphVars, stack, order, idom>>

TreeNext == Descend \/ Finish \/ ReverseGraph \/ StartPasses \/ Visit \/ PassEnds

TreeSpec == TreeInit /\ [][TreeNext]_treeVars

FairTreeSpec == TreeSpec /\ WF_treeVars(TreeNext)

-----------------------------------------------------------------------------
(***************************************************************************)
(* The nodes that the edges lead to from A.  A path of N edges meets all.  *)
(***************************************************************************)
Reach(edges, A) ==
  LET reached[k \in 0 .. N + 1] ==
        IF k = 0 THEN A
        ELSE LET before == reached[k - 1] IN
             before \union {e[2] : e \in {d \in edges : d[1] \in before}}
  IN reached[N + 1]

(***************************************************************************)
(* The finished tree: idom_ leaves out the root and the virtual exit.      *)
(***************************************************************************)
Tree == {<<n, idom[n]>> : n \in {m \in Reachable \ {root, VirtualExit} :
                                   idom[m] \notin {None, VirtualExit}}}

(***************************************************************************)
(* Dominates(a, b): a walk up from b meets a.                              *)
(***************************************************************************)
Dominates(a, b) ==
  a \in Reachable /\ b \in Reachable /\ a \in Reach(Tree, {b})

(***************************************************************************)
(* DominanceFrontier(x): from each predecessor of a join up to the join's  *)
(* immediate dominator.                                                    *)
(***************************************************************************)
Joins == {y \in Reachable \ {VirtualExit} : Len(pred[y]) >= 2}

FaultDominanceFrontier(x) ==    \* fault: the walk stops at the join itself
  {y \in Joins \ {x} : \E p \in ToSet(pred[y]) \intersect Reachable :
     /\ p # VirtualExit /\ x \in Reach(Tree, {p})
     /\ ~(y \in Reach(Tree, {p}) /\ x \in Reach(Tree, {y}))}

DominanceFrontier(x) ==
  {y \in Joins : \E p \in ToSet(pred[y]) \intersect Reachable :
     /\ p # VirtualExit /\ x \in Reach(Tree, {p})
     /\ ~ \E e \in Tree : e[1] = y /\ e[2] \in Reach(Tree, {p})
                                    /\ x \in Reach(Tree, {e[2]})}

-----------------------------------------------------------------------------
Distinct(s) == Cardinality(ToSet(s)) = Len(s)

TreeTypeOK ==
  /\ cfg \in Cfgs /\ way \in {"dominators", "postdominators"}
  /\ phase \in {"order", "reverse order", "pass", "done"}
  /\ root \in Nodes
  /\ ToSet(order) \subseteq Nodes
  /\ Distinct(order \o [k \in DOMAIN stack |-> stack[k][1]])
  /\ \A k \in DOMAIN stack : stack[k][2] \in 1 .. Len(succ[stack[k][1]]) + 1
  /\ idom \in [Nodes -> Nodes \union {None}]
  /\ \A n \in Nodes : idom[n] # None => {n, idom[n]} \subseteq Reachable

(***************************************************************************)
(* Whether every path to b, from where the tree is rooted, leads through   *)
(* a: from the entry, or backwards from the exits.  A function that never  *)
(* returns has its root for an exit.                                       *)
(***************************************************************************)
Edges == {e \in Blocks \X Blocks : e[2] \in ToSet(cfg[e[1]])}

Live == Reach(Edges, {Entry})

Directed == IF way = "dominators" THEN Edges ELSE {<<e[2], e[1]>> : e \in Edges}

Starts ==
  LET exits == {b \in Live : cfg[b] = << >>} IN
  IF way = "dominators" THEN {Entry} ELSE IF exits = {} THEN {root} ELSE exits

Without(a, live) ==
  Reach({e \in Directed : {e[1], e[2]} \subseteq live \ {a}}, Starts \ {a})

OnEveryPath ==
  LET live == Live
      all == Without(None, live)
  IN UNION {{a} \X (all \ Without(a, live)) : a \in all}

(***************************************************************************)
(* Dominates answers true exactly for the blocks every path leads through, *)
(* whatever the graph: irreducible, with unreachable blocks, with several  *)
(* exits or none.                                                          *)
(***************************************************************************)
DominatesEveryPath ==
  phase = "done" =>
    LET dom == OnEveryPath IN
    \A a, b \in Blocks : Dominates(a, b) <=> <<a, b>> \in dom

(***************************************************************************)
(* The frontier of x holds the joins with a predecessor that x dominates   *)
(* and that x does not strictly dominate (dominator_tree.h), by the paths  *)
(* and not by the tree.                                                    *)
(***************************************************************************)
FrontierOfJoins ==
  phase = "done" =>
    LET dom == OnEveryPath IN
    \A x \in Blocks :
      DominanceFrontier(x) =
        {y \in Joins : /\ \E p \in ToSet(pred[y]) : <<x, p>> \in dom
                       /\ ~(x # y /\ <<x, y>> \in dom)}

(***************************************************************************)
(* The passes end: a block's immediate dominator only ever climbs.         *)
(***************************************************************************)
PassesEnd == <>(phase = "done")
=============================================================================
