---------------------------- MODULE MCTunerModule ----------------------------
(***************************************************************************)
(* Four functions, of which the third is not in the ROM, and two flag      *)
(* profiles.  Caches: none; one with a stale entry, entries filed under    *)
(* another module and the module's flags; one with an entry that has no    *)
(* flags of its own.  Tables: the winning flags differ with the base       *)
(* flags, one function never compiles under one of them, and a search that *)
(* is seeded with a recipe or with flags finds something else.  Runs       *)
(* search what is not cached, search the near misses again too, or only    *)
(* apply the cache.                                                        *)
(***************************************************************************)
EXTENDS TunerModule

CONSTANTS f0, f1

MCFlags == {f0, f1}

MCOptions == {[search_on_miss |-> TRUE, only_non_bit_exact |-> FALSE],
              [search_on_miss |-> TRUE, only_non_bit_exact |-> TRUE],
              [search_on_miss |-> FALSE, only_non_bit_exact |-> FALSE]}

E(flags, exact, recipe, fresh, here) ==
  [flags |-> flags, exact |-> exact, recipe |-> recipe, fresh |-> fresh,
   here |-> here]

MCStores ==
  {Empty,
   [entries |-> <<NoEntry, E(f0, TRUE, 4, TRUE, FALSE), E(f0, TRUE, 4, TRUE, FALSE),
                  E(f1, FALSE, 4, FALSE, TRUE)>>,
    flags |-> f1],
   [entries |-> <<E(NoFlags, FALSE, 4, TRUE, TRUE), NoEntry, NoEntry,
                  E(f1, TRUE, 4, TRUE, TRUE)>>,
    flags |-> NoFlags]}

Found(flags, exact, recipe) == [flags |-> flags, exact |-> exact, recipe |-> recipe]

MCRecipes == 0 .. 4

Domain == Fns \X MCFlags \X Seeds

MCTables ==
  {[x \in Domain |-> IF x[1] = 1 /\ x[2] = f0 THEN Failed
                     ELSE Found(IF x[3].flags = f1 THEN f1 ELSE x[2], FALSE, x[1])],
   [x \in Domain |-> IF x[1] = 2
                     THEN Found(f1, TRUE, IF x[3].recipe = 4 THEN 3 ELSE 2)
                     ELSE Found(f0, FALSE, IF x[3].recipe = 4 THEN 2 ELSE 1)]}
=============================================================================
