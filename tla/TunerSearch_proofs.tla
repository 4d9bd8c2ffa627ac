------------------------- MODULE TunerSearch_proofs -------------------------
(***************************************************************************)
(* For every set of mutations, every code emitter and every score: the     *)
(* recipe the search keeps makes the AST it scored, and the cache entry    *)
(* holds the score that recipe was given.                                  *)
(***************************************************************************)
EXTENDS TunerSearch, SequenceTheorems, TLAPS

Recipes == Seq(Steps)

Shaped(c) == c.ast \in Recipes /\ c.steps \in Recipes

(***************************************************************************)
(* The loops whose winner is pushed when they end.                         *)
(***************************************************************************)
Mutating == stage \in {"round", "base flags", "lookahead", "polish",
                       "cross flags"}

Sweeping == stage \in {"flags", "resweep"}

RecipeTypes ==
  /\ best.ast \in Recipes /\ applied \in Recipes /\ pending \in Recipes
  /\ \A c \in todo : Shaped(c)
  /\ \A r \in runnersUp : Shaped(r)

(***************************************************************************)
(* While a round runs, applied_mutations is the recipe of the AST the      *)
(* round started from; every candidate and runner-up extends it.           *)
(***************************************************************************)
RecipeInv ==
  /\ best.ast = Then(applied, pending)
  /\ ~inRound \/ ~Mutating => pending = <<>>
  /\ Mutating => /\ \A c \in todo : c.ast = Then(applied, c.steps)
                 /\ \A r \in runnersUp : r.ast = Then(applied, r.steps)
  /\ Sweeping => \A c \in todo : c.ast = best.ast
  /\ stage = "baseline" => applied = <<>>

RInv == RecipeTypes /\ RecipeInv

LEMMA ThenEmpty ==
  <<>> \in Recipes /\ \A r \in Recipes : Then(r, <<>>) = r /\ Then(<<>>, r) = r
  BY ConcatEmptySeq DEF Recipes, Then

LEMMA ThenType ==
  /\ \A r, q \in Recipes : Then(r, q) \in Recipes
  /\ \A x \in Steps : <<x>> \in Recipes
  BY DEF Recipes, Then

LEMMA ThenAssociative ==
  \A r, q, p \in Recipes : Then(Then(r, q), p) = Then(r, Then(q, p))
  BY ConcatAssociative DEF Recipes, Then

LEMMA ThenOneMore ==
  ASSUME NEW a \in Recipes, NEW q \in Recipes, NEW x \in Steps
  PROVE  Then(Then(a, q), <<x>>) = Then(a, Then(q, <<x>>))
  BY ThenAssociative, ThenType

LEMMA TakeFacts ==
  ASSUME NEW c, NEW s, Take(c, s)
  PROVE  best.ast' = c.ast /\ best.flags' = c.flags /\ best.score' = s
  BY DEF Take

LEMMA CandidateFacts ==
  \A a, f, q : /\ Candidate(a, f, q).ast = a
              /\ Candidate(a, f, q).flags = f
              /\ Candidate(a, f, q).steps = q
  BY DEF Candidate

LEMMA ExtensionsFacts ==
  ASSUME NEW a, NEW f, NEW q, NEW found
  PROVE  \A c \in Extensions(a, f, q, found) :
           \E x \in found : c.ast = Then(a, <<x>>) /\ c.steps = Then(q, <<x>>)
  BY CandidateFacts DEF Extensions

LEMMA UnderFacts ==
  ASSUME NEW R, NEW F
  PROVE  \A c \in Under(R, F) : \E r \in R : c.ast = r.ast /\ c.steps = r.steps
  BY CandidateFacts DEF Under

LEMMA RunnersUpFacts ==
  ASSUME NEW c, NEW s, NEW R \in RunnersUpWith(c, s), NEW q \in R
  PROVE  q \in runnersUp \/ (q.ast = c.ast /\ q.steps = c.steps)
<1> DEFINE r == [ast |-> c.ast, steps |-> c.steps, score |-> s]
<1>1. q \in runnersUp \/ q = r
  BY DEF RunnersUpWith
<1> QED
  BY <1>1

(***************************************************************************)
(* What each loop is about to try.                                         *)
(***************************************************************************)
OneStepBeyond(c, r) == \E x \in Steps : /\ c.ast = Then(r.ast, <<x>>)
                                       /\ c.steps = Then(r.steps, <<x>>)

SameRecipe(c, r) == c.ast = r.ast /\ c.steps = r.steps

LEMMA RoundTodo ==
  ASSUME BeginRound \/ PolishRound
  PROVE  \A c \in todo' : \E x \in Steps :
           c.ast = Then(best.ast, <<x>>) /\ c.steps = Then(<<>>, <<x>>)
<1>1. todo' = {} \/ \E found \in SUBSET Steps :
                      todo' = Extensions(best.ast, best.flags, <<>>, found)
  BY DEF BeginRound, PolishRound, Leave
<1>2. CASE todo' = {}
  BY <1>2
<1>3. ASSUME NEW found \in SUBSET Steps,
             todo' = Extensions(best.ast, best.flags, <<>>, found)
      PROVE  \A c \in todo' : \E x \in Steps :
               c.ast = Then(best.ast, <<x>>) /\ c.steps = Then(<<>>, <<x>>)
  <2>1. \A c \in Extensions(best.ast, best.flags, <<>>, found) :
           \E x \in found : c.ast = Then(best.ast, <<x>>) /\
                           c.steps = Then(<<>>, <<x>>)
    BY CandidateFacts DEF Extensions
  <2>2. found \subseteq Steps
    BY <1>3
  <2> QED
    BY <1>3, <2>1, <2>2
<1> QED
  BY <1>1, <1>2, <1>3

LEMMA RunnersUpTodo ==
  ASSUME BeginBaseFlags \/ BeginCrossFlags
  PROVE  \A c \in todo' : \E r \in runnersUp : SameRecipe(c, r)
<1>1. CASE BeginBaseFlags
  <2>1. todo' = {} \/ todo' = Under(runnersUp, {BaseFlags})
    BY <1>1 DEF BeginBaseFlags
  <2> QED
    BY <2>1, UnderFacts DEF SameRecipe
<1>2. CASE BeginCrossFlags
  <2>1. todo' = {} \/ \E R \in SUBSET runnersUp : todo' = Under(R, FlagProfiles)
    BY <1>2 DEF BeginCrossFlags
  <2> QED
    BY <2>1, UnderFacts DEF SameRecipe
<1> QED
  BY <1>1, <1>2

LEMMA LookaheadTodo ==
  ASSUME BeginLookahead
  PROVE  \A c \in todo' : \E r \in runnersUp : OneStepBeyond(c, r)
<1>1. CASE todo' = {}
  BY <1>1
<1>2. CASE todo' # {}
  <2>1. PICK found \in [runnersUp -> SUBSET Steps] :
          todo' = UNION {Extensions(r.ast, best.flags, r.steps, found[r]) :
                           r \in runnersUp}
    BY <1>2 DEF BeginLookahead
  <2>2. SUFFICES ASSUME NEW c \in todo'
                 PROVE  \E r \in runnersUp : OneStepBeyond(c, r)
    OBVIOUS
  <2>3. PICK r \in runnersUp :
          c \in Extensions(r.ast, best.flags, r.steps, found[r])
    BY <2>1
  <2>4. found[r] \subseteq Steps
    OBVIOUS
  <2>5. PICK x \in found[r] :
          c.ast = Then(r.ast, <<x>>) /\ c.steps = Then(r.steps, <<x>>)
    BY <2>3, ExtensionsFacts
  <2> QED
    BY <2>4, <2>5 DEF OneStepBeyond
<1> QED
  BY <1>1, <1>2

LEMMA RecipeInit == Init => RInv
  BY ThenEmpty DEF Init, RInv, RecipeTypes, RecipeInv, Mutating, Sweeping

(***************************************************************************)
(* Steps that evaluate a candidate.                                        *)
(***************************************************************************)
LEMMA RecipeTry ==
  ASSUME RInv, TryFlags \/ TryPreset \/ TryMutation \/ TryVariant
  PROVE  RInv'
<1> USE TakeFacts DEF RInv, RecipeTypes, RecipeInv, Mutating, Sweeping, Shaped
<1>1. CASE TryFlags
  BY <1>1 DEF TryFlags
<1>2. CASE TryPreset
  BY <1>2, ThenEmpty DEF TryPreset
<1>3. CASE TryMutation
  <2>1. PICK c \in todo, s \in Score \union {NoScore} :
          /\ todo' = todo \ {c}
          /\ \/ Take(c, s) /\ pending' = c.steps /\ inRound' = TRUE
             \/ UNCHANGED <<best, pending, inRound>>
          /\ runnersUp' \in RunnersUpWith(c, s) \union {runnersUp}
    BY <1>3 DEF TryMutation
  <2>2. \A r \in runnersUp' : r \in runnersUp \/
                              (r.ast = c.ast /\ r.steps = c.steps)
    BY <2>1, RunnersUpFacts
  <2> QED
    BY <1>3, <2>1, <2>2 DEF TryMutation
<1>4. CASE TryVariant
  BY <1>4 DEF TryVariant
<1> QED
  BY <1>1, <1>2, <1>3, <1>4

(***************************************************************************)
(* Steps that begin or end a loop.                                         *)
(***************************************************************************)
LEMMA RecipeLoops ==
  ASSUME RInv,
         \/ ScoreBaseline \/ BeginPresets \/ BeginRound \/ BeginBaseFlags
         \/ BeginLookahead \/ EndRound \/ BeginPolish \/ PolishRound
         \/ BeginCrossFlags \/ EndPolishRound \/ BeginResweep \/ Record
  PROVE  RInv'
<1> USE CandidateFacts DEF RInv, RecipeTypes, RecipeInv, Mutating, Sweeping,
                           Shaped
<1>1. CASE ScoreBaseline
  <2>1. PICK s : best' = [ast |-> <<>>, flags |-> BaseFlags, score |-> s]
    BY <1>1 DEF ScoreBaseline
  <2>2. best.ast' = <<>>
    BY <2>1
  <2>3. \A c \in todo' : c.ast = <<>> /\ c.steps = <<>>
    BY <1>1 DEF ScoreBaseline
  <2> QED
    BY <1>1, <2>2, <2>3, ThenEmpty DEF ScoreBaseline
<1>2. CASE BeginPresets
  <2>1. \A c \in todo' : c.ast \in Recipes /\ c.steps = <<>>
    BY <1>2, SearchConstants DEF BeginPresets, Recipes
  <2> QED
    BY <1>2, <2>1, ThenEmpty DEF BeginPresets
<1>3. CASE BeginRound
  <2>1. pending = <<>> /\ best.ast = applied /\ runnersUp' = {}
    BY <1>3, ThenEmpty DEF BeginRound, Leave
  <2>2. UNCHANGED <<best, applied, pending>> /\ ~inRound'
    BY <1>3 DEF BeginRound, Leave
  <2>3. stage' \in {"mutated", "round"}
    BY <1>3 DEF BeginRound, Leave
  <2>4. \A c \in todo' : Shaped(c) /\ c.ast = Then(applied, c.steps)
    <3> SUFFICES ASSUME NEW c \in todo'
                 PROVE  Shaped(c) /\ c.ast = Then(applied, c.steps)
      OBVIOUS
    <3>1. PICK x \in Steps :
            c.ast = Then(best.ast, <<x>>) /\ c.steps = Then(<<>>, <<x>>)
      BY <1>3, RoundTodo
    <3>2. c.steps = <<x>> /\ <<x>> \in Recipes
      BY <3>1, ThenType, ThenEmpty
    <3> QED
      BY <2>1, <3>1, <3>2, ThenType
  <2> QED
    BY <2>1, <2>2, <2>3, <2>4
<1>4. CASE BeginBaseFlags
  <2>1. /\ UNCHANGED <<best, applied, pending, inRound, runnersUp>>
        /\ stage = "round" /\ stage' = "base flags"
    BY <1>4 DEF BeginBaseFlags
  <2>2. \A c \in todo' : Shaped(c) /\ c.ast = Then(applied, c.steps)
    <3> SUFFICES ASSUME NEW c \in todo'
                 PROVE  Shaped(c) /\ c.ast = Then(applied, c.steps)
      OBVIOUS
    <3>1. PICK r \in runnersUp : SameRecipe(c, r)
      BY <1>4, RunnersUpTodo
    <3> QED
      BY <2>1, <3>1 DEF SameRecipe
  <2> QED
    BY <2>1, <2>2
<1>5. CASE BeginLookahead
  <2>1. /\ UNCHANGED <<best, applied, pending, inRound, runnersUp>>
        /\ stage = "base flags" /\ stage' = "lookahead"
    BY <1>5 DEF BeginLookahead
  <2>2. \A c \in todo' : Shaped(c) /\ c.ast = Then(applied, c.steps)
    <3> SUFFICES ASSUME NEW c \in todo'
                 PROVE  Shaped(c) /\ c.ast = Then(applied, c.steps)
      OBVIOUS
    <3>1. PICK r \in runnersUp : OneStepBeyond(c, r)
      BY <1>5, LookaheadTodo
    <3>2. PICK x \in Steps : /\ c.ast = Then(r.ast, <<x>>)
                            /\ c.steps = Then(r.steps, <<x>>)
      BY <3>1 DEF OneStepBeyond
    <3>3. /\ r.ast \in Recipes /\ r.steps \in Recipes
          /\ r.ast = Then(applied, r.steps)
      BY <2>1
    <3>4. <<x>> \in Recipes /\ c.ast \in Recipes /\ c.steps \in Recipes
      BY <3>2, <3>3, ThenType
    <3>5. Then(Then(applied, r.steps), <<x>>)
            = Then(applied, Then(r.steps, <<x>>))
      BY <3>3, ThenOneMore
    <3> QED
      BY <3>2, <3>3, <3>4, <3>5
  <2> QED
    BY <2>1, <2>2
<1>6. CASE EndRound
  <2>1. CASE inRound
    BY <1>6, <2>1, ThenEmpty, ThenType DEF EndRound, Push
  <2>2. CASE ~inRound
    BY <1>6, <2>2 DEF EndRound, Leave
  <2> QED
    BY <2>1, <2>2
<1>7. CASE BeginPolish
  BY <1>7 DEF BeginPolish
<1>8. CASE PolishRound
  <2>1. pending = <<>> /\ best.ast = applied
    BY <1>8, ThenEmpty DEF PolishRound
  <2>2. UNCHANGED <<best, applied, pending>> /\ ~inRound'
    BY <1>8 DEF PolishRound, Leave
  <2>3. stage' \in {"polished", "polish"}
    BY <1>8 DEF PolishRound, Leave
  <2>4. \A c \in todo' : Shaped(c) /\ c.ast = Then(applied, c.steps)
    <3> SUFFICES ASSUME NEW c \in todo'
                 PROVE  Shaped(c) /\ c.ast = Then(applied, c.steps)
      OBVIOUS
    <3>1. PICK x \in Steps :
            c.ast = Then(best.ast, <<x>>) /\ c.steps = Then(<<>>, <<x>>)
      BY <1>8, RoundTodo
    <3>2. c.steps = <<x>> /\ <<x>> \in Recipes
      BY <3>1, ThenType, ThenEmpty
    <3> QED
      BY <2>1, <3>1, <3>2, ThenType
  <2>5. runnersUp' = todo' \/ runnersUp' = {}
    BY <1>8 DEF PolishRound, Leave
  <2> QED
    BY <2>1, <2>2, <2>3, <2>4, <2>5
<1>9. CASE BeginCrossFlags
  <2>1. /\ UNCHANGED <<best, applied, pending, inRound, runnersUp>>
        /\ stage = "polish" /\ stage' = "cross flags"
    BY <1>9 DEF BeginCrossFlags
  <2>2. \A c \in todo' : Shaped(c) /\ c.ast = Then(applied, c.steps)
    <3> SUFFICES ASSUME NEW c \in todo'
                 PROVE  Shaped(c) /\ c.ast = Then(applied, c.steps)
      OBVIOUS
    <3>1. PICK r \in runnersUp : SameRecipe(c, r)
      BY <1>9, RunnersUpTodo
    <3> QED
      BY <2>1, <3>1 DEF SameRecipe
  <2> QED
    BY <2>1, <2>2
<1>10. CASE EndPolishRound
  <2>1. CASE inRound
    BY <1>10, <2>1, ThenEmpty, ThenType DEF EndPolishRound, Push
  <2>2. CASE ~inRound
    BY <1>10, <2>2 DEF EndPolishRound, Leave
  <2> QED
    BY <2>1, <2>2
<1>11. CASE BeginResweep
  BY <1>11, ThenEmpty DEF BeginResweep
<1>12. CASE Record
  BY <1>12 DEF Record
<1> QED
  BY <1>1, <1>2, <1>3, <1>4, <1>5, <1>6, <1>7, <1>8, <1>9, <1>10, <1>11, <1>12

LEMMA RecipeNext == RInv /\ [Next]_vars => RInv'
<1> SUFFICES ASSUME RInv, [Next]_vars PROVE RInv'
  OBVIOUS
<1>1. CASE UNCHANGED vars
  BY <1>1 DEF vars, RInv, RecipeTypes, RecipeInv, Mutating, Sweeping, Shaped
<1> QED
  BY <1>1, RecipeTry, RecipeLoops DEF Next

(***************************************************************************)
(* Replaying the recipe on the baseline makes the AST that won.            *)
(***************************************************************************)
THEOREM Recipe == Spec => []RecipeReproduces
<1>1. RInv => RecipeReproduces
  BY DEF RInv, RecipeInv, RecipeReproduces, Mutating
<1> QED
  BY <1>1, RecipeInit, RecipeNext, PTL DEF Spec

-----------------------------------------------------------------------------
(***************************************************************************)
(* The scores seen are no better than the best, and the best is better     *)
(* than the baseline exactly if a candidate was taken.                     *)
(***************************************************************************)
ScoreInv ==
  /\ best.score \in Int /\ baseline \in Int
  /\ \A k \in DOMAIN scored : scored[k] \in Int /\ scored[k] <= best.score
  /\ best.score >= baseline
  /\ improved <=> best.score > baseline
  /\ improved \in BOOLEAN
  /\ stage = "baseline" => DOMAIN scored = {} /\ ~improved

LEMMA ScoreInit == Init => ScoreInv
<1> SUFFICES ASSUME Init PROVE ScoreInv
  OBVIOUS
<1>1. best.score = -1 /\ baseline = -1 /\ improved = FALSE
  BY DEF Init, NoScore
<1>2. DOMAIN scored = {}
  BY DEF Init
<1>3. ~(best.score > baseline) /\ best.score >= baseline
  BY <1>1
<1>4. improved \in BOOLEAN /\ (improved <=> best.score > baseline)
  BY <1>1, <1>3, Zenon
<1>5. best.score \in Int /\ baseline \in Int
  BY <1>1
<1>6. ~improved
  BY <1>1
<1> QED
  BY <1>2, <1>3, <1>4, <1>5, <1>6, Zenon DEF ScoreInv

LEMMA ExtendFacts ==
  ASSUME NEW f, NEW k, NEW s
  PROVE  \A x \in DOMAIN Extend(f, k, s) :
           \/ Extend(f, k, s)[x] = s
           \/ x \in DOMAIN f /\ Extend(f, k, s)[x] = f[x]
  BY DEF Extend

LEMMA AnswerFacts ==
  ASSUME NEW c, NEW s, Answer(c, s)
  PROVE  /\ s \in Int
         /\ \A k \in DOMAIN scored' :
              scored'[k] = s \/ (k \in DOMAIN scored /\ scored'[k] = scored[k])
<1>1. CASE Key(c.ast, c.flags) \in DOMAIN scored
  BY <1>1 DEF Answer, NoScore
<1>2. CASE Key(c.ast, c.flags) \notin DOMAIN scored
  <2>1. s \in Int
    BY <1>2, SearchConstants DEF Answer, NoScore, Score
  <2>2. scored' = Extend(scored, Key(c.ast, c.flags), s)
    BY <1>2 DEF Answer
  <2> DEFINE new == Extend(scored, Key(c.ast, c.flags), s)
  <2>3. \A k \in DOMAIN new : new[k] = s \/
                              (k \in DOMAIN scored /\ new[k] = scored[k])
    BY ExtendFacts
  <2> QED
    BY <2>1, <2>2, <2>3
<1> QED
  BY <1>1, <1>2

LEMMA ScoreTry ==
  ASSUME ScoreInv, TryFlags \/ TryPreset \/ TryMutation \/ TryVariant
  PROVE  ScoreInv'
<1>1. PICK c \in todo, s \in Score \union {NoScore} :
        /\ Answer(c, s)
        /\ \/ s > best.score /\ Take(c, s)
           \/ ~(s > best.score) /\ UNCHANGED <<best, improved>>
  BY DEF TryFlags, TryPreset, TryMutation, TryVariant
<1>2. UNCHANGED <<baseline>> /\ stage # "baseline" /\ stage' # "baseline"
  BY DEF TryFlags, TryPreset, TryMutation, TryVariant
<1>3. s \in Int
  BY <1>1, AnswerFacts
<1>4. \A k \in DOMAIN scored' : scored'[k] = s \/
                                (k \in DOMAIN scored /\ scored'[k] = scored[k])
  BY <1>1, AnswerFacts
<1>5. CASE s > best.score /\ Take(c, s)
  <2>1. best.score' = s /\ improved' = TRUE
    BY <1>5, TakeFacts DEF Take
  <2> QED
    BY <1>2, <1>3, <1>4, <1>5, <2>1 DEF ScoreInv
<1>6. CASE ~(s > best.score) /\ UNCHANGED <<best, improved>>
  BY <1>2, <1>3, <1>4, <1>6 DEF ScoreInv
<1> QED
  BY <1>1, <1>5, <1>6

LEMMA ScoreNext == ScoreInv /\ [Next]_vars => ScoreInv'
<1> SUFFICES ASSUME ScoreInv, [Next]_vars PROVE ScoreInv'
  OBVIOUS
<1>1. CASE ScoreBaseline
  <2>1. PICK s \in Score \union {NoScore} :
          /\ scored' = Extend(scored, Key(<<>>, BaseFlags), s)
          /\ baseline' = s
          /\ best' = [ast |-> <<>>, flags |-> BaseFlags, score |-> s]
          /\ stage' = IF s = NoScore THEN "failed" ELSE "flags"
    BY <1>1 DEF ScoreBaseline
  <2>2. stage = "baseline" /\ UNCHANGED improved
    BY <1>1 DEF ScoreBaseline
  <2>3. best.score' = s
    BY <2>1
  <2>4. s \in Int
    BY SearchConstants DEF NoScore, Score
  <2>5. \A k \in DOMAIN scored' : scored'[k] = s
    <3> DEFINE new == Extend(scored, Key(<<>>, BaseFlags), s)
    <3>1. \A k \in DOMAIN new : new[k] = s \/ k \in DOMAIN scored
      BY ExtendFacts
    <3> QED
      BY <2>1, <2>2, <3>1 DEF ScoreInv
  <2>6. stage' # "baseline"
    BY <2>1
  <2> QED
    BY <2>1, <2>2, <2>3, <2>4, <2>5, <2>6 DEF ScoreInv
<1>2. CASE \/ BeginPresets \/ BeginRound \/ BeginBaseFlags \/ BeginLookahead
           \/ EndRound \/ BeginPolish \/ PolishRound \/ BeginCrossFlags
           \/ EndPolishRound \/ BeginResweep \/ Record
  <2> DEFINE Kept == /\ UNCHANGED <<best, scored, improved, baseline>>
                     /\ stage' # "baseline"
  <2>1. BeginPresets => Kept
    BY DEF BeginPresets
  <2>2. BeginRound => Kept
    BY DEF BeginRound, Leave
  <2>3. BeginBaseFlags => Kept
    BY DEF BeginBaseFlags
  <2>4. BeginLookahead => Kept
    BY DEF BeginLookahead
  <2>5. EndRound => Kept
    BY DEF EndRound, Leave
  <2>6. BeginPolish => Kept
    BY DEF BeginPolish
  <2>7. PolishRound => Kept
    BY DEF PolishRound, Leave
  <2>8. BeginCrossFlags => Kept
    BY DEF BeginCrossFlags
  <2>9. EndPolishRound => Kept
    BY DEF EndPolishRound, Leave
  <2>10. BeginResweep => Kept
    BY DEF BeginResweep
  <2>11. Record => Kept
    BY DEF Record
  <2>12. Kept
    BY <1>2, <2>1, <2>2, <2>3, <2>4, <2>5, <2>6, <2>7, <2>8, <2>9, <2>10, <2>11
  <2> QED
    BY <2>12 DEF ScoreInv
<1>3. CASE UNCHANGED vars
  BY <1>3 DEF vars, ScoreInv
<1> QED
  BY <1>1, <1>2, <1>3, ScoreTry DEF Next

(***************************************************************************)
(* Nothing compiled on the way was better than the winner, and the fuzzer  *)
(* is asked exactly when the winner beats the baseline.                    *)
(***************************************************************************)
THEOREM Winner == Spec => []WinnerIsBest
<1>1. ScoreInv => WinnerIsBest
  BY DEF ScoreInv, WinnerIsBest
<1> QED
  BY <1>1, ScoreInit, ScoreNext, PTL DEF Spec
-----------------------------------------------------------------------------
(***************************************************************************)
(* What is measured stays measured: a key is scored once, and the scores   *)
(* of the best candidate and of the baseline are among those seen.         *)
(***************************************************************************)
Measured(ast, flags, score) ==
  Key(ast, flags) \in DOMAIN scored /\ scored[Key(ast, flags)] = score

MeasuredInv ==
  /\ best.score >= NoScore
  /\ stage # "baseline" => /\ Measured(best.ast, best.flags, best.score)
                           /\ Measured(<<>>, BaseFlags, baseline)
  /\ stage # "done" => entry = {}
  /\ EntryWasMeasured

LEMMA OnceMeasured ==
  ASSUME NEW c, NEW s, Answer(c, s), NEW ast, NEW flags, NEW score, Measured(ast, flags, score)
  PROVE  Measured(ast, flags, score)'
  BY DEF Measured, Answer, Extend

LEMMA NowMeasured ==
  ASSUME NEW c, NEW s, Answer(c, s), s # NoScore
  PROVE  Measured(c.ast, c.flags, s)'
  BY DEF Measured, Answer, Extend

LEMMA MeasuredInit == Init => MeasuredInv
  BY DEF Init, MeasuredInv, EntryWasMeasured, NoScore

LEMMA MeasuredTry ==
  ASSUME MeasuredInv, ScoreInv, TryFlags \/ TryPreset \/ TryMutation \/ TryVariant
  PROVE  MeasuredInv'
<1>1. PICK c \in todo, s \in Score \union {NoScore} :
        /\ Answer(c, s)
        /\ \/ s > best.score /\ Take(c, s)
           \/ best' = best
  BY DEF TryFlags, TryPreset, TryMutation, TryVariant
<1>2. UNCHANGED <<baseline, entry>> /\ stage \notin {"baseline", "done"} /\ stage' = stage
  BY DEF TryFlags, TryPreset, TryMutation, TryVariant
<1>3. entry' = {} /\ EntryWasMeasured'
  BY <1>2 DEF MeasuredInv, EntryWasMeasured
<1>4. Measured(<<>>, BaseFlags, baseline)'
  BY <1>1, <1>2, OnceMeasured DEF MeasuredInv, Measured
<1>5. best'.score >= NoScore /\ Measured(best.ast, best.flags, best.score)'
  <2>1. CASE s > best.score /\ Take(c, s)
    <3>1. s \in Int /\ NoScore \in Int /\ best.score \in Int
      BY <1>1, AnswerFacts DEF NoScore, ScoreInv
    <3>2. s # NoScore /\ s >= NoScore
      BY <2>1, <3>1 DEF MeasuredInv
    <3>3. Measured(c.ast, c.flags, s)'
      BY <1>1, <3>2, NowMeasured
    <3> QED
      BY <2>1, <3>2, <3>3, TakeFacts DEF Measured
  <2>2. CASE best' = best
    BY <1>1, <1>2, <2>2, OnceMeasured DEF MeasuredInv, Measured
  <2> QED
    BY <1>1, <2>1, <2>2
<1> QED
  BY <1>2, <1>3, <1>4, <1>5 DEF MeasuredInv

LEMMA MeasuredNext == MeasuredInv /\ ScoreInv /\ RInv /\ [Next]_vars => MeasuredInv'
<1> SUFFICES ASSUME MeasuredInv, ScoreInv, RInv, [Next]_vars PROVE MeasuredInv'
  OBVIOUS
<1>1. CASE ScoreBaseline
  <2>1. PICK s \in Score \union {NoScore} :
          /\ scored' = Extend(scored, Key(<<>>, BaseFlags), s)
          /\ baseline' = s
          /\ best' = [ast |-> <<>>, flags |-> BaseFlags, score |-> s]
    BY <1>1 DEF ScoreBaseline
  <2>2. best'.ast = <<>> /\ best'.flags = BaseFlags /\ best'.score = s
    BY <2>1
  <2>3. Measured(<<>>, BaseFlags, s)'
    BY <2>1 DEF Measured, Extend
  <2>4. s >= NoScore
    BY SearchConstants DEF Score, NoScore
  <2>5. entry = {} /\ entry' = entry
    BY <1>1 DEF ScoreBaseline, MeasuredInv
  <2> QED
    BY <2>1, <2>2, <2>3, <2>4, <2>5 DEF MeasuredInv, EntryWasMeasured, Measured
<1>2. CASE \/ BeginPresets \/ BeginRound \/ BeginBaseFlags \/ BeginLookahead
           \/ EndRound \/ BeginPolish \/ PolishRound \/ BeginCrossFlags
           \/ EndPolishRound \/ BeginResweep
  <2> DEFINE Kept == /\ UNCHANGED <<best, scored, baseline, entry>>
                     /\ stage \notin {"baseline", "done"} /\ stage' # "baseline"
  <2>1. BeginPresets => Kept
    BY DEF BeginPresets
  <2>2. BeginRound => Kept
    BY DEF BeginRound, Leave
  <2>3. BeginBaseFlags => Kept
    BY DEF BeginBaseFlags
  <2>4. BeginLookahead => Kept
    BY DEF BeginLookahead
  <2>5. EndRound => Kept
    BY DEF EndRound, Leave
  <2>6. BeginPolish => Kept
    BY DEF BeginPolish
  <2>7. PolishRound => Kept
    BY DEF PolishRound, Leave
  <2>8. BeginCrossFlags => Kept
    BY DEF BeginCrossFlags
  <2>9. EndPolishRound => Kept
    BY DEF EndPolishRound, Leave
  <2>10. BeginResweep => Kept
    BY DEF BeginResweep
  <2>11. Kept
    BY <1>2, <2>1, <2>2, <2>3, <2>4, <2>5, <2>6, <2>7, <2>8, <2>9, <2>10
  <2> QED
    BY <2>11 DEF MeasuredInv, Measured, EntryWasMeasured
<1>3. CASE Record
  <2>1. UNCHANGED <<best, scored, baseline>> /\ stage = "resweep" /\ stage' = "done"
    BY <1>3 DEF Record
  <2>2. \A e \in entry' :
          \/ e = Entry(best.ast, applied, best.flags, best.score)
          \/ e = Entry(<<>>, <<>>, BaseFlags, baseline)
    BY <1>3 DEF Record
  <2>3. best.ast = applied
    BY <2>1, ThenEmpty DEF RInv, RecipeInv, RecipeTypes, Mutating
  <2>4. ASSUME NEW ast, NEW flags, NEW score, Measured(ast, flags, score),
               NEW e, e = Entry(ast, ast, flags, score)
        PROVE  /\ e.ast = e.ast_mutations
               /\ Key(e.ast, e.c_flags) \in DOMAIN scored
               /\ scored[Key(e.ast, e.c_flags)] = e.score
    BY <2>4 DEF Entry, Measured
  <2>5. Measured(best.ast, best.flags, best.score) /\ Measured(<<>>, BaseFlags, baseline)
    BY <2>1 DEF MeasuredInv
  <2>6. \A e \in entry' : /\ e.ast = e.ast_mutations
                          /\ Key(e.ast, e.c_flags) \in DOMAIN scored
                          /\ scored[Key(e.ast, e.c_flags)] = e.score
    BY <2>2, <2>3, <2>4, <2>5
  <2>7. EntryWasMeasured'
    BY <2>1, <2>6 DEF EntryWasMeasured
  <2> QED
    BY <2>1, <2>5, <2>7 DEF MeasuredInv, Measured
<1>4. CASE UNCHANGED vars
  BY <1>4 DEF vars, MeasuredInv, Measured, EntryWasMeasured
<1> QED
  BY <1>1, <1>2, <1>3, <1>4, MeasuredTry DEF Next

(***************************************************************************)
(* The entry written to the cache holds the score its recipe was given     *)
(* under its flags, whether the winner or the baseline is recorded.        *)
(***************************************************************************)
THEOREM CacheEntry == Spec => []EntryWasMeasured
<1> DEFINE Inv == MeasuredInv /\ ScoreInv /\ RInv
<1>1. Init => Inv
  BY MeasuredInit, ScoreInit, RecipeInit
<1>2. Inv /\ [Next]_vars => Inv'
  BY MeasuredNext, ScoreNext, RecipeNext
<1>3. Inv => EntryWasMeasured
  BY DEF MeasuredInv
<1> QED
  BY <1>1, <1>2, <1>3, PTL DEF Spec
=============================================================================
