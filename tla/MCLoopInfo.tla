------------------------------ MODULE MCLoopInfo ------------------------------
(***************************************************************************)
(* Every graph whose blocks end in a return, a jump or a branch with the   *)
(* next block in memory for its other successor (a branch may go to that   *)
(* block too), one of them possibly in a jump table.                       *)
(***************************************************************************)
EXTENDS LoopInfo

Tables == {<<t, u, v>> : t, u, v \in Blocks}

Ends(b) ==
  {<< >>} \union {<<t>> : t \in Blocks}
          \union (IF b + 1 \in Blocks THEN {<<t, b + 1>> : t \in Blocks} ELSE {})
          \union (IF b = 1 THEN {t \in Tables : t[1] < t[2] /\ t[2] < t[3]} ELSE {})

AllGraphs == {g \in [Blocks -> UNION {Ends(b) : b \in Blocks}] :
                \A b \in Blocks : g[b] \in Ends(b)}

LaterBlocks == Blocks \ {0, 1}
InnerBlocks == {1, 2}
=============================================================================
