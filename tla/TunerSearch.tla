----------------------------- MODULE TunerSearch -----------------------------
(***************************************************************************)
(* The search for one function: TunerPipeline::SearchFunctionCandidates    *)
(* and the part of TuneLoadedFunctionAst that verifies its winner and      *)
(* writes the cache entry (tuner/tuner_pipeline.cc).                       *)
(*                                                                         *)
(* An AST is the recipe that makes it: the sequence of mutation steps      *)
(* applied to the baseline, which is <<>>.  Emit gives the C code of a     *)
(* recipe; different recipes may emit the same code.  A score is a number, *)
(* IsBetterThan is >, and the largest score is raw_bit_exact.  The order   *)
(* in which a loop visits its candidates is left open.                     *)
(***************************************************************************)
EXTENDS Integers, Sequences, FiniteSets

CONSTANTS
  Steps,              \* AstMutationSteps
  BaseFlags,          \* base_flags
  ExploredFlags,      \* FlagExplorer::GenerateCandidateFlags(base_flags)
  CachedFlags,        \* {} or {previous_cached_flags}
  Presets,            \* canonical presets and previous_cached_mutations
  Emit(_),            \* emit_c_fn
  ExploreFlags, ExploreMutations, VerifyWithFuzzer,
  MaxRounds, MaxPolishRounds, MaxRunnersUp,
  ExactScore,         \* the score of a raw_bit_exact candidate
  NearMiss,           \* scores from here on satisfy IsNearMissScore
  Structure(_)        \* the structural part of a score

ASSUME SearchConstants ==
  /\ MaxRounds \in Nat /\ MaxPolishRounds \in Nat
  /\ ExactScore \in Nat
  /\ \A p \in Presets : p \in Seq(Steps)
  /\ {ExploreFlags, ExploreMutations, VerifyWithFuzzer} \subseteq BOOLEAN

Score == 0 .. ExactScore

NoScore == -1    \* score_fn returned an error: the candidate did not compile

Flags == ExploredFlags \union CachedFlags \union {BaseFlags}

FlagProfiles == {BaseFlags} \union (IF ExploreFlags THEN ExploredFlags ELSE {})
                            \union CachedFlags

SweepFlags == ExploreFlags \/ Cardinality(FlagProfiles) > 1

VARIABLES
  stage,     \* the loop the search is in
  scored,    \* evaluated_candidates, with what score_fn answered
  best,      \* best_ast (and with it best_c_code), winning_c_flags, best_score
  applied,   \* applied_mutations
  pending,   \* the steps best_ast has over applied_mutations, pushed at the
             \* end of the round: round_best_step, the lookahead's pair or
             \* polish_best_step
  baseline,  \* baseline_score
  improved,  \* improved_over_baseline
  inAst,     \* improved_in_ast_search
  inRound,   \* improved_in_round, improved_in_polish
  rounds,    \* rounds and polish rounds begun
  runnersUp, \* runners_up
  todo,      \* candidates the current loop has left
  entry      \* the FunctionTuningEntry written: {} or {entry}

vars == <<stage, scored, best, applied, pending, baseline, improved, inAst,
          inRound, rounds, runnersUp, todo, entry>>

Exact == best.score = ExactScore

FaultLoopOver == todo = {} /\ Exact    \* fault: && for ||

LoopOver == todo = {} \/ Exact

(***************************************************************************)
(* The steps of q after those of r: AstMutator::ApplyMutations on the AST  *)
(* of r, push_back on a list of steps.                                     *)
(***************************************************************************)
Then(r, q) == r \o q

Key(ast, flags) == <<flags, Emit(ast)>>

Extend(f, k, s) == [x \in DOMAIN f \union {k} |-> IF x = k THEN s ELSE f[x]]

Candidate(ast, flags, steps) == [ast |-> ast, flags |-> flags, steps |-> steps]

(***************************************************************************)
(* The candidates one step beyond a recipe, and recipes under other flags. *)
(***************************************************************************)
Extensions(ast, flags, steps, found) ==
  {Candidate(Then(ast, <<x>>), flags, Then(steps, <<x>>)) : x \in found}

Under(recipes, profiles) ==
  UNION {{Candidate(r.ast, f, r.steps) : r \in recipes} : f \in profiles}

Init == /\ stage = "baseline"
        /\ scored = <<>>
        /\ best = [ast |-> <<>>, flags |-> BaseFlags, score |-> NoScore]
        /\ applied = <<>> /\ pending = <<>>
        /\ baseline = NoScore
        /\ improved = FALSE /\ inAst = FALSE /\ inRound = FALSE
        /\ rounds = 0
        /\ runnersUp = {} /\ todo = {} /\ entry = {}

(***************************************************************************)
(* A candidate is compiled and scored unless its flags and code were seen  *)
(* before.  The answer is s; NoScore also stands for "seen before".        *)
(***************************************************************************)
Answer(c, s) ==
  IF Key(c.ast, c.flags) \in DOMAIN scored
  THEN s = NoScore /\ UNCHANGED scored
  ELSE s \in Score \union {NoScore}
       /\ scored' = Extend(scored, Key(c.ast, c.flags), s)

FaultTake(c, s) ==     \* fault: improved_over_baseline not set
  best' = [ast |-> c.ast, flags |-> c.flags, score |-> s] /\ UNCHANGED improved

Take(c, s) == /\ best' = [ast |-> c.ast, flags |-> c.flags, score |-> s]
              /\ improved' = TRUE

-----------------------------------------------------------------------------
ScoreBaseline ==
  /\ stage = "baseline"
  /\ \E s \in Score \union {NoScore} :
       /\ scored' = Extend(scored, Key(<<>>, BaseFlags), s)
       /\ baseline' = s
       /\ best' = [ast |-> <<>>, flags |-> BaseFlags, score |-> s]
       /\ stage' = IF s = NoScore THEN "failed" ELSE "flags"
       /\ todo' = IF s \in {NoScore, ExactScore} THEN {}
                  ELSE {Candidate(<<>>, f, <<>>) : f \in FlagProfiles \ {BaseFlags}}
  /\ UNCHANGED <<applied, pending, improved, inAst, inRound, rounds,
                 runnersUp, entry>>

(***************************************************************************)
(* Phases 1a and 3: the current code under every other flag profile.       *)
(***************************************************************************)
TryFlags ==
  /\ stage \in {"flags", "resweep"} /\ ~Exact
  /\ \E c \in todo, s \in Score \union {NoScore} :
       /\ Answer(c, s)
       /\ todo' = todo \ {c}
       /\ IF s > best.score THEN Take(c, s) ELSE UNCHANGED <<best, improved>>
  /\ UNCHANGED <<stage, applied, pending, baseline, inAst, inRound, rounds,
                 runnersUp, entry>>

(***************************************************************************)
(* Phase 1b: whole recipes, under the winning, the base and cached flags.  *)
(***************************************************************************)
BeginPresets ==
  /\ stage = "flags" /\ LoopOver
  /\ stage' = "presets"
  /\ todo' = IF Exact \/ ~ExploreMutations THEN {}
             ELSE {Candidate(p, f, <<>>) :
                     p \in Presets,
                     f \in {best.flags, BaseFlags} \union CachedFlags}
  /\ UNCHANGED <<scored, best, applied, pending, baseline, improved, inAst,
                 inRound, rounds, runnersUp, entry>>

TryPreset ==
  /\ stage = "presets" /\ ~Exact
  /\ \E c \in todo, s \in Score \union {NoScore} :
       /\ Answer(c, s)
       /\ todo' = todo \ {c}
       /\ IF s > best.score
          THEN Take(c, s) /\ applied' = c.ast /\ inAst' = TRUE
          ELSE UNCHANGED <<best, improved, applied, inAst>>
  /\ UNCHANGED <<stage, pending, baseline, inRound, rounds, runnersUp, entry>>

-----------------------------------------------------------------------------
(***************************************************************************)
(* Phase 2.  A round tries single steps on the best AST so far.            *)
(***************************************************************************)
Leave(next) == /\ stage' = next
               /\ todo' = {} /\ runnersUp' = {}
               /\ inRound' = FALSE

BeginRound ==
  /\ stage = "next round" \/ (stage = "presets" /\ LoopOver)
  /\ IF Exact \/ ~ExploreMutations \/ rounds = MaxRounds
     THEN Leave("mutated") /\ UNCHANGED rounds
     ELSE /\ stage' = "round"
          /\ rounds' = rounds + 1
          /\ \E found \in SUBSET Steps :
               todo' = Extensions(best.ast, best.flags, <<>>, found)
          /\ inRound' = FALSE /\ runnersUp' = {}
  /\ UNCHANGED <<scored, best, applied, pending, baseline, improved, inAst,
                 entry>>

(***************************************************************************)
(* A candidate no better than the best is kept as a runner-up while there  *)
(* is room, or in place of the worst one.                                  *)
(***************************************************************************)
RunnersUpWith(c, s) ==
  LET r == [ast |-> c.ast, steps |-> c.steps, score |-> s]
  IN  IF Cardinality(runnersUp) < MaxRunnersUp THEN {runnersUp \union {r}}
      ELSE {(runnersUp \ {w}) \union {r} :
              w \in {w \in runnersUp : /\ s > w.score
                                       /\ \A o \in runnersUp :
                                            w.score <= o.score}}

TryMutation ==
  /\ stage = "round" /\ ~Exact
  /\ \E c \in todo, s \in Score \union {NoScore} :
       /\ Answer(c, s)
       /\ todo' = todo \ {c}
       /\ IF s > best.score
          THEN /\ Take(c, s)
               /\ pending' = c.steps
               /\ inRound' = TRUE /\ inAst' = TRUE
               /\ UNCHANGED runnersUp
          ELSE /\ UNCHANGED <<best, improved, pending, inRound, inAst>>
               /\ IF s # NoScore /\ ~inRound
                     /\ Structure(s) >= Structure(best.score)
                     /\ RunnersUpWith(c, s) # {}
                  THEN runnersUp' \in RunnersUpWith(c, s)
                  ELSE UNCHANGED runnersUp
  /\ UNCHANGED <<stage, applied, baseline, rounds, entry>>

(***************************************************************************)
(* Runners-up again under base_flags, then with a second step each.        *)
(***************************************************************************)
BeginBaseFlags ==
  /\ stage = "round" /\ LoopOver
  /\ stage' = "base flags"
  /\ todo' = IF inRound \/ best.flags = BaseFlags THEN {}
             ELSE Under(runnersUp, {BaseFlags})
  /\ UNCHANGED <<scored, best, applied, pending, baseline, improved, inAst,
                 inRound, rounds, runnersUp, entry>>

BeginLookahead ==
  /\ stage = "base flags" /\ LoopOver
  /\ stage' = "lookahead"
  /\ IF inRound \/ rounds = MaxRounds THEN todo' = {}
     ELSE \E found \in [runnersUp -> SUBSET Steps] :
            todo' = UNION {Extensions(r.ast, best.flags, r.steps, found[r]) :
                             r \in runnersUp}
  /\ UNCHANGED <<scored, best, applied, pending, baseline, improved, inAst,
                 inRound, rounds, runnersUp, entry>>

FaultTryVariant ==    \* fault: IsBetterThan(baseline)
  /\ stage \in {"base flags", "lookahead", "polish", "cross flags"} /\ ~Exact
  /\ \E c \in todo, s \in Score \union {NoScore} :
       /\ Answer(c, s)
       /\ todo' = todo \ {c}
       /\ IF s > baseline
          THEN /\ Take(c, s)
               /\ pending' = c.steps
               /\ inRound' = TRUE /\ inAst' = TRUE
          ELSE UNCHANGED <<best, improved, pending, inRound, inAst>>
  /\ UNCHANGED <<stage, applied, baseline, rounds, runnersUp, entry>>


(***************************************************************************)
(* One candidate of the base-flags, lookahead, polish or cross-flag loop.  *)
(***************************************************************************)
TryVariant ==
  /\ stage \in {"base flags", "lookahead", "polish", "cross flags"} /\ ~Exact
  /\ \E c \in todo, s \in Score \union {NoScore} :
       /\ Answer(c, s)
       /\ todo' = todo \ {c}
       /\ IF s > best.score
          THEN /\ Take(c, s)
               /\ pending' = c.steps
               /\ inRound' = TRUE /\ inAst' = TRUE
          ELSE UNCHANGED <<best, improved, pending, inRound, inAst>>
  /\ UNCHANGED <<stage, applied, baseline, rounds, runnersUp, entry>>

FaultPush ==    \* fault: only the lookahead's second step is pushed
  applied' = Append(applied, pending[Len(pending)]) /\ pending' = <<>>

Push == applied' = Then(applied, pending) /\ pending' = <<>>

EndRound ==
  /\ stage = "lookahead" /\ LoopOver
  /\ IF inRound
     THEN Push /\ stage' = "next round" /\ UNCHANGED <<inRound, runnersUp, todo>>
     ELSE Leave("mutated") /\ UNCHANGED <<applied, pending>>
  /\ UNCHANGED <<scored, best, baseline, improved, inAst, rounds, entry>>

-----------------------------------------------------------------------------
(***************************************************************************)
(* Phase 2b, the near-miss polish: every step under the winning flags,     *)
(* then some of them under every profile.                                  *)
(***************************************************************************)
BeginPolish ==
  /\ stage = "mutated"
  /\ IF ~Exact /\ ExploreMutations /\ MaxRounds > 0 /\ best.score >= NearMiss
     THEN stage' = "next polish" /\ rounds' = 0
     ELSE stage' = "polished" /\ UNCHANGED rounds
  /\ UNCHANGED <<scored, best, applied, pending, baseline, improved, inAst,
                 inRound, runnersUp, todo, entry>>

PolishRound ==
  /\ stage = "next polish"
  /\ IF Exact \/ rounds = MaxPolishRounds
     THEN Leave("polished") /\ UNCHANGED rounds
     ELSE /\ stage' = "polish"
          /\ rounds' = rounds + 1
          /\ inRound' = FALSE
          /\ \E found \in SUBSET Steps :
               /\ todo' = Extensions(best.ast, best.flags, <<>>, found)
               /\ runnersUp' = todo'
  /\ UNCHANGED <<scored, best, applied, pending, baseline, improved, inAst,
                 entry>>

(***************************************************************************)
(* polish_steps, kept in runnersUp, again under all of flag_profiles; the  *)
(* first max_cross_flag_polish_steps of them are some subset.              *)
(***************************************************************************)
BeginCrossFlags ==
  /\ stage = "polish" /\ LoopOver
  /\ stage' = "cross flags"
  /\ IF Exact \/ ~SweepFlags
     THEN todo' = {}
     ELSE \E bounded \in SUBSET runnersUp :
            todo' = Under(bounded, FlagProfiles)
  /\ UNCHANGED <<scored, best, applied, pending, baseline, improved, inAst,
                 inRound, rounds, runnersUp, entry>>

EndPolishRound ==
  /\ stage = "cross flags" /\ LoopOver
  /\ IF inRound
     THEN Push /\ stage' = "next polish" /\ UNCHANGED <<inRound, runnersUp, todo>>
     ELSE Leave("polished") /\ UNCHANGED <<applied, pending>>
  /\ UNCHANGED <<scored, best, baseline, improved, inAst, rounds, entry>>

BeginResweep ==
  /\ stage = "polished"
  /\ stage' = "resweep"
  /\ todo' = IF Exact \/ ~inAst \/ ~SweepFlags THEN {}
             ELSE {Candidate(best.ast, f, <<>>) : f \in FlagProfiles}
  /\ UNCHANGED <<scored, best, applied, pending, baseline, improved, inAst,
                 inRound, rounds, runnersUp, entry>>

-----------------------------------------------------------------------------
(***************************************************************************)
(* TuneLoadedFunctionAst: a winner that is not raw bit-exact must pass the *)
(* fuzzer, or the baseline is recorded in its place.  best, applied and    *)
(* improved stay those of the search; the entry holds those of the result. *)
(***************************************************************************)
Entry(ast, steps, flags, score) ==
  [ast |-> ast, ast_mutations |-> steps, c_flags |-> flags, score |-> score]

FaultRecord ==    \* fault: the score is not reset with the recipe
  /\ stage = "resweep" /\ LoopOver
  /\ stage' = "done"
  /\ \/ entry' = {Entry(best.ast, applied, best.flags, best.score)}
     \/ /\ improved /\ ~Exact /\ VerifyWithFuzzer
        /\ entry' = {Entry(<<>>, <<>>, BaseFlags, best.score)}
  /\ UNCHANGED <<scored, best, applied, pending, baseline, improved, inAst,
                 inRound, rounds, runnersUp, todo>>

Record ==
  /\ stage = "resweep" /\ LoopOver
  /\ stage' = "done"
  /\ \/ entry' = {Entry(best.ast, applied, best.flags, best.score)}
     \/ /\ improved /\ ~Exact /\ VerifyWithFuzzer
        /\ entry' = {Entry(<<>>, <<>>, BaseFlags, baseline)}
  /\ UNCHANGED <<scored, best, applied, pending, baseline, improved, inAst,
                 inRound, rounds, runnersUp, todo>>

Next == \/ ScoreBaseline \/ TryFlags
        \/ BeginPresets \/ TryPreset
        \/ BeginRound \/ TryMutation
        \/ BeginBaseFlags \/ BeginLookahead \/ TryVariant \/ EndRound
        \/ BeginPolish \/ PolishRound \/ BeginCrossFlags \/ EndPolishRound
        \/ BeginResweep \/ Record

Spec == Init /\ [][Next]_vars

FairSpec == Spec /\ WF_vars(Next)

-----------------------------------------------------------------------------
TypeOK ==
  /\ stage \in {"baseline", "failed", "flags", "presets", "round",
                "base flags", "lookahead", "next round", "mutated",
                "next polish", "polish", "cross flags", "polished",
                "resweep", "done"}
  /\ best.flags \in Flags
  /\ best.score \in Score \union {NoScore}
  /\ baseline \in Score \union {NoScore}
  /\ {improved, inAst, inRound} \subseteq BOOLEAN
  /\ rounds \in Nat
  /\ \A c \in todo : c.flags \in Flags
  /\ \A e \in entry : e.score \in Score /\ e.c_flags \in Flags

(***************************************************************************)
(* The recipe makes the AST: replaying applied_mutations, and the steps a  *)
(* round has yet to push, on the baseline gives best_ast.  The cache keeps *)
(* the recipe, not the AST.                                                *)
(***************************************************************************)
RecipeReproduces == /\ best.ast = Then(applied, pending)
                    /\ stage = "done" => pending = <<>>

(***************************************************************************)
(* What is written to the cache is what was measured: the entry's score is *)
(* the one its recipe, compiled under its flags, was given.                *)
(***************************************************************************)
EntryWasMeasured ==
  \A e \in entry : /\ e.ast = e.ast_mutations
                   /\ Key(e.ast, e.c_flags) \in DOMAIN scored
                   /\ scored[Key(e.ast, e.c_flags)] = e.score

(***************************************************************************)
(* Nothing compiled on the way was better than the winner; and             *)
(* improved_over_baseline, which decides whether the fuzzer is asked,      *)
(* tells whether the winner beats the baseline.                            *)
(***************************************************************************)
WinnerIsBest == /\ \A k \in DOMAIN scored : scored[k] <= best.score
                /\ improved <=> best.score > baseline

(***************************************************************************)
(* The search ends.                                                        *)
(***************************************************************************)
Terminates == <>(stage \in {"done", "failed"})
=============================================================================
