-------------------------- MODULE TunerModule_proofs --------------------------
(***************************************************************************)
(* For any number of functions and threads, any caches and whatever the    *)
(* searches find: the cache a run leaves is the one that a single thread,  *)
(* never interrupted, makes of the cache the run began with; and a recipe  *)
(* that is bit-exact for its function is never replaced.                   *)
(***************************************************************************)
EXTENDS TunerModule, FiniteSetTheorems, WellFoundedInduction, TLAPS

Entries == CacheEntry \union {NoEntry}
Result == [hit : BOOLEAN, flags : Flags \union {NoFlags}, exact : BOOLEAN]

-----------------------------------------------------------------------------
(***************************************************************************)
(* The invariant                                                           *)
(***************************************************************************)
Labels == {"fetch", "lookup", "search", "upsert", "slot", "save", "write", "exit"}

TypeInv ==
  /\ options \in [search_on_miss : BOOLEAN, only_non_bit_exact : BOOLEAN]
  /\ table \in [Fns \X Flags \X Seeds -> Finding \union {Failed}]
  /\ stage \in {"tuning", "voting", "saving", "done", "down"}
  /\ store \in CacheStore /\ file \in CacheStore /\ origin \in CacheStore
  /\ writing \subseteq CacheStore
  /\ lock \in 0 .. Main /\ (lock = Free <=> writing = {})
  /\ targets \subseteq Fns /\ targets \subseteq Extractable /\ next \in 1 .. N + 1 /\ completed \in Nat
  /\ pc \in [Workers -> Labels] /\ DOMAIN held = Workers
  /\ DOMAIN slots \subseteq targets /\ \A f \in DOMAIN slots : slots[f] \in Result
  /\ crashes \in Nat /\ lost \in BOOLEAN /\ saved \in {"whole", "older", "cut"}
  /\ stage = "down" => crashes > 0 /\ writing = {}

\* A worker has taken a function that has no result yet.
Busy(w) == pc[w] \in {"lookup", "search", "upsert", "slot"}

HeldTypes(w) ==
  /\ Busy(w) => held[w].f \in targets \ DOMAIN slots /\ held[w].f < next
  /\ pc[w] = "search" => held[w].base \in Flags /\ held[w].seed \in Seeds
  /\ pc[w] = "upsert" => held[w].found \in Finding
  /\ pc[w] \in {"upsert", "slot"} => held[w].result \in Result
  /\ pc[w] = "exit" => next = N + 1

HeldInv ==
  /\ \A w \in Workers : HeldTypes(w)
  /\ \A v, w \in Workers : Busy(v) /\ Busy(w) /\ held[v].f = held[w].f => v = w

Taken(f) == f \in DOMAIN slots \/ \E w \in Workers : Busy(w) /\ held[w].f = f

TakenInv == /\ \A f \in targets : f < next => Taken(f)
            /\ \A f \in DOMAIN slots : f < next
            /\ stage \in {"voting", "saving", "done"} => DOMAIN slots = targets

ModuleInv == TypeInv /\ HeldInv /\ TakenInv

-----------------------------------------------------------------------------
(***************************************************************************)
(* An entry that a search is under way for is not a bit-exact one.         *)
(***************************************************************************)
Exact(s, f) == Fresh(s, f) /\ s.entries[f].exact

ExactOf(w) == pc[w] \in {"search", "upsert"} => ~Exact(store, held[w].f)

ExactInv == \A w \in Workers : ExactOf(w)

-----------------------------------------------------------------------------
(***************************************************************************)
(* While functions are tuned each entry is the one the run began with, the *)
(* same brought up to date, or the one it will end with; and likewise in   *)
(* the file.  Those of a function without a target stay.                   *)
(***************************************************************************)
Untouched == ~lost /\ (OnlyNonBitExact => crashes = 0)

TunedEntry(f) == IF Searched(origin, f) /\ Outcome(origin, f) # Failed
                 THEN FoundEntry(Outcome(origin, f))
                 ELSE Synced(origin, f).entries[f]

Midway(s) ==
  /\ s.flags = origin.flags
  /\ \A f \in Fns : s.entries[f] \in {origin.entries[f], Synced(origin, f).entries[f],
                                      TunedEntry(f)}
  /\ \A f \in Fns \ Targets(origin) : s.entries[f] = origin.entries[f]

\* A result counts as the one of an uninterrupted run does.
Counts(r) == r.hit \/ SearchOnMiss

Agrees(r, f) == /\ r.flags = TunedResult(origin, f).flags
                /\ r.exact = TunedResult(origin, f).exact
                /\ Counts(r) <=> Counts(TunedResult(origin, f))

Looked(f) == f < next /\ ~ \E w \in Workers : pc[w] = "lookup" /\ held[w].f = f

\* What a worker is about to do, and what is done, is what an uninterrupted run does.
WorkInv(w) ==
  /\ pc[w] = "search" => /\ Searched(origin, held[w].f)
                         /\ held[w].base = BaseFlags(origin)
                         /\ held[w].seed = Seed(origin, held[w].f)
                         /\ store.entries[held[w].f]
                              = Synced(origin, held[w].f).entries[held[w].f]
  /\ pc[w] = "upsert" => /\ Searched(origin, held[w].f)
                         /\ held[w].found = Outcome(origin, held[w].f)
                         /\ held[w].found # Failed
                         /\ held[w].result = FoundResult(held[w].found)
  /\ pc[w] = "slot" => /\ Agrees(held[w].result, held[w].f)
                       /\ store.entries[held[w].f] = TunedEntry(held[w].f)

DoneInv(f) == Agrees(slots[f], f) /\ store.entries[f] = TunedEntry(f)

TuningInv ==
  /\ Midway(store) /\ \A s \in writing : Midway(s)
  /\ targets = Targets(origin)
  /\ OnlyNonBitExact => \A f \in Fns : Looked(f) \/ store.entries[f] = origin.entries[f]
  /\ \A w \in Workers : WorkInv(w)
  /\ \A f \in DOMAIN slots : DoneInv(f)

\* What is in the file is what a save wrote, or what was there before it.
Sound == writing = {} /\ saved # "cut"

OutcomeInv ==
  Untouched => /\ stage = "tuning" => TuningInv
               /\ stage \in {"tuning", "voting", "down"} /\ Sound => Midway(file)
               /\ stage = "done" /\ saved = "older" => Midway(file)
               /\ stage \in {"voting", "saving", "done"} => store = Tuned(origin)

FileInv == /\ stage = "saving" => writing = {store}
           /\ stage = "done" /\ saved = "whole" => file = store
-----------------------------------------------------------------------------
(***************************************************************************)
(* The vote                                                                *)
(***************************************************************************)
Less == {p \in Nat \X Nat : p[1] < p[2]}

LEMMA LeastNumber ==
  ASSUME NEW T, T \subseteq Nat, T # {}
  PROVE  \E x \in T : \A y \in T : x <= y
<1>1. IsWellFoundedOn(Less, Nat)
  BY NatLessThanWellFounded DEF OpToRel, Less
<1>2. \E x \in T : \A y \in T : <<y, x>> \notin Less
  BY <1>1, WFMin
<1>3. \A x, y \in Nat : <<y, x>> \notin Less => x <= y
  BY DEF Less
<1> QED
  BY <1>2, <1>3

\* Among bounded numbers there is a largest, and a first that is as large.
LEMMA FirstOfLargest ==
  ASSUME NEW V, V \subseteq Nat, V # {}, NEW B \in Nat, NEW v \in [V -> 0 .. B]
  PROVE  \E f \in V : \A g \in V : v[g] < v[f] \/ (v[g] = v[f] /\ f <= g)
<1> DEFINE T == {B - v[f] : f \in V}
<1>1. T \subseteq Nat /\ T # {}
  <2>1. \A b \in 0 .. B : B - b \in Nat
    OBVIOUS
  <2>2. \A f \in V : v[f] \in 0 .. B
    OBVIOUS
  <2> QED
    BY <2>1, <2>2
<1>2. PICK x \in T : \A y \in T : x <= y
  <2> HIDE DEF T
  <2> QED
    BY <1>1, LeastNumber
<1>3. PICK h \in V : x = B - v[h]
  BY <1>2
<1>4. \A g \in V : v[g] <= v[h]
  BY <1>2, <1>3
<1> DEFINE U == {f \in V : v[f] = v[h]}
<1>5. PICK f \in U : \A g \in U : f <= g
  <2>1. U \subseteq Nat /\ U # {}
    OBVIOUS
  <2> HIDE DEF U
  <2> QED
    BY <2>1, LeastNumber
<1> QED
  BY <1>4, <1>5

Bloc(r, flags, exactOnly) == {f \in Voters(r) : /\ r[f].flags = flags
                                                /\ exactOnly => r[f].exact}

\* Votes are counted.
LEMMA VotesCount ==
  ASSUME NEW r, DOMAIN r \subseteq Fns, NEW flags, NEW exactOnly
  PROVE  /\ Votes(r, flags, exactOnly) = Cardinality(Bloc(r, flags, exactOnly))
         /\ IsFiniteSet(Bloc(r, flags, exactOnly)) /\ Bloc(r, flags, exactOnly) \subseteq Fns
         /\ Votes(r, flags, exactOnly) \in 0 .. N
<1>1. N \in Nat
  BY ModuleConstants
<1>2. IsFiniteSet(Fns) /\ Cardinality(Fns) = N
  <2>1. IsFiniteSet(1 .. N) /\ Cardinality(1 .. N) = IF 1 > N THEN 0 ELSE N - 1 + 1
    BY <1>1, FS_Interval
  <2> QED
    BY <1>1, <2>1 DEF Fns
<1>3. Votes(r, flags, exactOnly) = Cardinality(Bloc(r, flags, exactOnly))
  BY DEF Votes, Bloc
<1>4. Bloc(r, flags, exactOnly) \in SUBSET Fns
  BY DEF Bloc, Voters
<1>5. /\ IsFiniteSet(Bloc(r, flags, exactOnly))
      /\ Cardinality(Bloc(r, flags, exactOnly)) <= Cardinality(Fns)
  BY <1>2, <1>4, FS_Subset
<1>6. Cardinality(Bloc(r, flags, exactOnly)) \in Nat
  BY <1>5, FS_CardinalityType
<1> QED
  BY <1>1, <1>2, <1>3, <1>4, <1>5, <1>6

AnyExact(r) == \E f \in Voters(r) : r[f].exact

VotesOf(r, f) == Votes(r, r[f].flags, AnyExact(r))

Wins(r, f) == /\ f \in Voters(r)
              /\ \A g \in Voters(r) : \/ VotesOf(r, g) < VotesOf(r, f)
                                      \/ VotesOf(r, g) = VotesOf(r, f) /\ f <= g

LEMMA WinnerExists ==
  ASSUME NEW r, DOMAIN r \subseteq Fns, Voters(r) # {}
  PROVE  \E f : Wins(r, f)
<1> DEFINE v == [f \in Voters(r) |-> VotesOf(r, f)]
<1>1. Voters(r) \subseteq Nat
  BY ModuleConstants DEF Voters, Fns
<1>2. \A f \in Voters(r) : VotesOf(r, f) \in 0 .. N
  BY VotesCount DEF VotesOf
<1>3. v \in [Voters(r) -> 0 .. N] /\ N \in Nat
  BY <1>2, ModuleConstants
<1>4. \E f \in Voters(r) : \A g \in Voters(r) : v[g] < v[f] \/ (v[g] = v[f] /\ f <= g)
  <2> HIDE DEF v
  <2> QED
    BY <1>1, <1>3, FirstOfLargest
<1> QED
  BY <1>4 DEF Wins

LEMMA OneWinner ==
  ASSUME NEW r, DOMAIN r \subseteq Fns, NEW f, Wins(r, f), NEW g, Wins(r, g)
  PROVE  f = g
<1>1. f \in Nat /\ g \in Nat
  BY ModuleConstants DEF Wins, Voters, Fns
<1>2. VotesOf(r, f) \in Nat /\ VotesOf(r, g) \in Nat
  BY VotesCount DEF VotesOf
<1>3. VotesOf(r, g) < VotesOf(r, f) \/ (VotesOf(r, g) = VotesOf(r, f) /\ f <= g)
  BY DEF Wins
<1>4. VotesOf(r, f) < VotesOf(r, g) \/ (VotesOf(r, f) = VotesOf(r, g) /\ g <= f)
  BY DEF Wins
<1> QED
  BY <1>1, <1>2, <1>3, <1>4

\* The vote elects the flags of the winner; without voters the flags stay.
LEMMA VotedIs ==
  ASSUME NEW r, DOMAIN r \subseteq Fns, NEW flags
  PROVE  /\ Voters(r) = {} => Voted(flags, r) = flags
         /\ \A f : Wins(r, f) => Voted(flags, r) = r[f].flags
<1>1. Voters(r) = {} => Voted(flags, r) = flags
  BY DEF Voted
<1>2. ASSUME NEW f, Wins(r, f) PROVE Voted(flags, r) = r[f].flags
  <2> DEFINE P(h) == \A g \in Voters(r) : \/ VotesOf(r, g) < VotesOf(r, h)
                                          \/ VotesOf(r, g) = VotesOf(r, h) /\ h <= g
             w == CHOOSE h \in Voters(r) : P(h)
  <2>1. f \in Voters(r) /\ P(f)
    BY <1>2 DEF Wins
  <2>2. w \in Voters(r) /\ P(w)
    <3> HIDE DEF P
    <3> QED
      BY <2>1
  <2>3. w = f
    <3>1. Wins(r, w)
      BY <2>2 DEF Wins
    <3> HIDE DEF w, P
    <3> QED
      BY <1>2, <3>1, OneWinner
  <2>4. Voted(flags, r) = r[w].flags
    BY <2>1 DEF Voted, VotesOf, AnyExact
  <2> QED
    BY <2>3, <2>4
<1> QED
  BY <1>1, <1>2

LEMMA VotedType ==
  ASSUME NEW r, DOMAIN r \subseteq Fns, \A f \in DOMAIN r : r[f] \in Result,
         NEW flags \in Flags \union {NoFlags}
  PROVE  Voted(flags, r) \in Flags \union {NoFlags}
<1>1. CASE Voters(r) = {}
  BY <1>1, VotedIs
<1>2. CASE Voters(r) # {}
  <2>1. PICK f : Wins(r, f)
    BY <1>2, WinnerExists
  <2>2. f \in DOMAIN r /\ Voted(flags, r) = r[f].flags
    BY <2>1, VotedIs DEF Wins, Voters
  <2> QED
    BY <2>2 DEF Result
<1> QED
  BY <1>1, <1>2

(***************************************************************************)
(* Only the flags, the exactness and the right to vote count.              *)
(***************************************************************************)
AlikeResults(r, q) ==
  /\ DOMAIN r \subseteq Fns /\ DOMAIN q = DOMAIN r
  /\ \A f \in DOMAIN r : /\ r[f].flags = q[f].flags /\ r[f].exact = q[f].exact
                         /\ Counts(r[f]) <=> Counts(q[f])

LEMMA SameVote ==
  ASSUME NEW r, NEW q, NEW flags, AlikeResults(r, q)
  PROVE  Voted(flags, r) = Voted(flags, q)
<1>0. /\ DOMAIN r \subseteq Fns /\ DOMAIN q = DOMAIN r
      /\ \A f \in DOMAIN r : /\ r[f].flags = q[f].flags /\ r[f].exact = q[f].exact
                             /\ Counts(r[f]) <=> Counts(q[f])
  BY DEF AlikeResults
<1>1. Voters(q) = Voters(r)
  BY <1>0 DEF Voters, Counts
<1>2. Voters(r) \subseteq DOMAIN r
  BY <1>0 DEF Voters
<1>3. \A x, e : Bloc(q, x, e) = Bloc(r, x, e)
  BY <1>0, <1>1, <1>2 DEF Bloc
<1>4. \A x, e : Votes(q, x, e) = Votes(r, x, e)
  BY <1>0, <1>3, VotesCount
<1>5. AnyExact(q) = AnyExact(r)
  BY <1>0, <1>1, <1>2, Zenon DEF AnyExact
<1>6. \A f \in Voters(r) : VotesOf(q, f) = VotesOf(r, f)
  BY <1>0, <1>2, <1>4, <1>5 DEF VotesOf
<1>7. CASE Voters(r) = {}
  BY <1>0, <1>1, <1>7, VotedIs
<1>8. CASE Voters(r) # {}
  <2>1. PICK f : Wins(r, f)
    BY <1>0, <1>8, WinnerExists
  <2>2. Wins(q, f)
    BY <1>0, <1>1, <1>6, <2>1 DEF Wins
  <2>3. Voted(flags, r) = r[f].flags /\ Voted(flags, q) = q[f].flags /\ f \in DOMAIN r
    BY <1>0, <1>2, <2>1, <2>2, VotedIs DEF Wins
  <2> QED
    BY <1>0, <2>3
<1> QED
  BY <1>7, <1>8

-----------------------------------------------------------------------------
(***************************************************************************)
(* Entries and stores                                                      *)
(***************************************************************************)
SyncedEntry(e) == IF e # NoEntry /\ e.fresh THEN [e EXCEPT !.here = TRUE] ELSE e

\* All that a lookup asks of an entry, but where it is filed.
Alike(e, d) ==
  /\ e = NoEntry <=> d = NoEntry
  /\ e # NoEntry => /\ e.flags = d.flags /\ e.exact = d.exact /\ e.recipe = d.recipe
                    /\ e.fresh = d.fresh

LEMMA SyncedEntryIs ==
  ASSUME NEW e \in Entries
  PROVE  /\ SyncedEntry(e) \in Entries /\ Alike(SyncedEntry(e), e)
         /\ SyncedEntry(SyncedEntry(e)) = SyncedEntry(e)
<1>1. NoEntry \notin CacheEntry
  BY ModuleConstants
<1>2. CASE e # NoEntry /\ e.fresh
  <2>1. e \in CacheEntry
    BY <1>2 DEF Entries
  <2> DEFINE d == [e EXCEPT !.here = TRUE]
  <2>2. d \in CacheEntry
    BY <2>1 DEF CacheEntry
  <2>3. d.flags = e.flags /\ d.exact = e.exact /\ d.recipe = e.recipe /\ d.fresh = e.fresh
    BY <2>1 DEF CacheEntry
  <2>4. [d EXCEPT !.here = TRUE] = d
    BY <2>1 DEF CacheEntry
  <2>5. SyncedEntry(e) = d
    BY <1>2 DEF SyncedEntry
  <2> HIDE DEF d
  <2>6. SyncedEntry(d) = d
    BY <1>2, <2>3, <2>4 DEF SyncedEntry
  <2> QED
    BY <1>1, <1>2, <2>2, <2>3, <2>5, <2>6 DEF Entries, Alike
<1>3. CASE ~(e # NoEntry /\ e.fresh)
  BY <1>3 DEF SyncedEntry, Alike
<1> QED
  BY <1>2, <1>3

LEMMA FoundIs ==
  ASSUME NEW o \in Finding
  PROVE  /\ FoundEntry(o) \in CacheEntry /\ FoundEntry(o) \in Entries /\ FoundEntry(o) # NoEntry
         /\ FoundEntry(o).flags = o.flags /\ FoundEntry(o).exact = o.exact
         /\ FoundEntry(o).fresh = TRUE /\ FoundEntry(o).here = TRUE
         /\ SyncedEntry(FoundEntry(o)) = FoundEntry(o)
<1>1. o.flags \in Flags /\ o.exact \in BOOLEAN /\ o.recipe \in Recipes
  BY DEF Finding
<1>2. FoundEntry(o) \in CacheEntry
  BY <1>1 DEF FoundEntry, CacheEntry
<1>3. FoundEntry(o) # NoEntry
  BY <1>2, ModuleConstants
<1>4. [FoundEntry(o) EXCEPT !.here = TRUE] = FoundEntry(o)
  <2>1. \A e \in CacheEntry : e.here = TRUE => [e EXCEPT !.here = TRUE] = e
    BY DEF CacheEntry
  <2>2. FoundEntry(o).here = TRUE
    BY DEF FoundEntry
  <2> QED
    BY <1>2, <2>1, <2>2
<1>5. SyncedEntry(FoundEntry(o)) = FoundEntry(o)
  BY <1>4 DEF SyncedEntry
<1> QED
  BY <1>2, <1>3, <1>5 DEF FoundEntry, Entries

LEMMA StoreType ==
  ASSUME NEW s \in CacheStore
  PROVE  /\ s.entries \in [Fns -> Entries] /\ s.flags \in Flags \union {NoFlags}
         /\ BaseFlags(s) \in Flags
         /\ \A f \in Fns : s.entries[f] \in Entries /\ Seed(s, f) \in Seeds
<1>1. s.entries \in [Fns -> Entries] /\ s.flags \in Flags \union {NoFlags}
  BY DEF CacheStore, Entries
<1>2. BaseFlags(s) \in Flags
  BY <1>1, ModuleConstants DEF BaseFlags
<1>3. ASSUME NEW f \in Fns PROVE s.entries[f] \in Entries /\ Seed(s, f) \in Seeds
  <2>1. s.entries[f] \in Entries
    BY <1>1
  <2>2. s.entries[f] # NoEntry => /\ s.entries[f].recipe \in Recipes
                                  /\ s.entries[f].flags \in Flags \union {NoFlags}
    BY <2>1 DEF Entries, CacheEntry
  <2> QED
    BY <2>1, <2>2, ModuleConstants DEF Seed, Seeds
<1> QED
  BY <1>1, <1>2, <1>3

\* An entry is put in place.
LEMMA PutEntry ==
  ASSUME NEW s \in CacheStore, NEW f \in Fns, NEW e \in Entries
  PROVE  LET t == [s EXCEPT !.entries[f] = e]
         IN  /\ t \in CacheStore /\ t.flags = s.flags
             /\ \A g \in Fns : t.entries[g] = IF g = f THEN e ELSE s.entries[g]
<1>1. s.entries \in [Fns -> Entries]
  BY StoreType
<1>2. [s.entries EXCEPT ![f] = e] \in [Fns -> Entries]
  BY <1>1
<1> DEFINE t == [s EXCEPT !.entries[f] = e]
<1>3. t.entries = [s.entries EXCEPT ![f] = e] /\ t.flags = s.flags
  BY DEF CacheStore
<1>4. t \in CacheStore
  BY <1>2 DEF CacheStore, Entries
<1>5. \A g \in Fns : t.entries[g] = IF g = f THEN e ELSE s.entries[g]
  BY <1>1, <1>3
<1> QED
  BY <1>3, <1>4, <1>5

LEMMA SyncedIs ==
  ASSUME NEW s \in CacheStore, NEW f \in Fns
  PROVE  /\ Synced(s, f) \in CacheStore /\ Synced(s, f).flags = s.flags
         /\ \A g \in Fns : Synced(s, f).entries[g] = IF g = f THEN SyncedEntry(s.entries[f])
                                                     ELSE s.entries[g]
<1>1. s.entries[f] \in Entries /\ SyncedEntry(s.entries[f]) \in Entries
  BY StoreType, SyncedEntryIs
<1>2. CASE Fresh(s, f)
  <2> DEFINE t == [s EXCEPT !.entries[f] = SyncedEntry(s.entries[f])]
  <2>1. SyncedEntry(s.entries[f]) = [s.entries[f] EXCEPT !.here = TRUE]
    BY <1>2 DEF Fresh, SyncedEntry
  <2>2. Synced(s, f) = t
    BY <1>2, <2>1 DEF Synced
  <2>3. /\ t \in CacheStore /\ t.flags = s.flags
        /\ \A g \in Fns : t.entries[g] = IF g = f THEN SyncedEntry(s.entries[f]) ELSE s.entries[g]
    BY <1>1, PutEntry
  <2> QED
    BY <2>2, <2>3
<1>3. CASE ~Fresh(s, f)
  <2>1. Synced(s, f) = s /\ SyncedEntry(s.entries[f]) = s.entries[f]
    BY <1>3 DEF Synced, Fresh, SyncedEntry
  <2> QED
    BY <2>1
<1> QED
  BY <1>2, <1>3

LEMMA HitResultType ==
  ASSUME NEW s \in CacheStore, NEW f \in Fns, Hit(s, f)
  PROVE  HitResult(s, f) \in Result
<1>1. s.entries[f] \in CacheEntry /\ BaseFlags(s) \in Flags
  BY StoreType DEF Hit, Fresh, Entries
<1>2. s.entries[f].flags \in Flags \union {NoFlags} /\ s.entries[f].exact \in BOOLEAN
  BY <1>1 DEF CacheEntry
<1> QED
  BY <1>1, <1>2 DEF HitResult, Result

LEMMA ResultTypes ==
  /\ MissResult \in Result
  /\ \A flags \in Flags : FailedResult(flags) \in Result
  /\ \A o \in Finding : FoundResult(o) \in Result
<1>1. MissResult \in Result
  BY DEF MissResult, Result
<1>2. ASSUME NEW flags \in Flags PROVE FailedResult(flags) \in Result
  BY DEF FailedResult, Result
<1>3. ASSUME NEW o \in Finding PROVE FoundResult(o) \in Result
  <2>1. o.flags \in Flags /\ o.exact \in BOOLEAN
    BY DEF Finding
  <2> QED
    BY <2>1 DEF FoundResult, Result
<1> QED
  BY <1>1, <1>2, <1>3

-----------------------------------------------------------------------------
(***************************************************************************)
(* What a worker finds in a store that is midway                           *)
(***************************************************************************)
Setting == /\ options \in [search_on_miss : BOOLEAN, only_non_bit_exact : BOOLEAN]
           /\ table \in [Fns \X Flags \X Seeds -> Finding \union {Failed}]
           /\ origin \in CacheStore

LEMMA OutcomeIs ==
  ASSUME Setting, NEW f \in Fns, Outcome(origin, f) # Failed
  PROVE  Outcome(origin, f) \in Finding
<1>1. BaseFlags(origin) \in Flags /\ Seed(origin, f) \in Seeds
  BY StoreType DEF Setting
<1>2. Outcome(origin, f) \in Finding \union {Failed}
  BY <1>1 DEF Outcome, Setting
<1> QED
  BY <1>2

\* An entry that is not yet the last is like the first.
LEMMA MidwayEntry ==
  ASSUME Setting, NEW s \in CacheStore, Midway(s), NEW f \in Fns
  PROVE  /\ BaseFlags(s) = BaseFlags(origin)
         /\ \/ /\ Alike(s.entries[f], origin.entries[f])
               /\ SyncedEntry(s.entries[f]) = SyncedEntry(origin.entries[f])
            \/ /\ Searched(origin, f) /\ Outcome(origin, f) \in Finding
               /\ s.entries[f] = FoundEntry(Outcome(origin, f))
               /\ s.entries[f] = TunedEntry(f)
<1>1. BaseFlags(s) = BaseFlags(origin)
  BY DEF Midway, BaseFlags
<1>2. origin.entries[f] \in Entries /\ Synced(origin, f).entries[f] = SyncedEntry(origin.entries[f])
  BY StoreType, SyncedIs DEF Setting
<1>3. s.entries[f] \in {origin.entries[f], SyncedEntry(origin.entries[f]), TunedEntry(f)}
  BY <1>2 DEF Midway
<1>4. CASE s.entries[f] \in {origin.entries[f], SyncedEntry(origin.entries[f])}
  BY <1>1, <1>2, <1>4, SyncedEntryIs DEF Alike
<1>5. CASE s.entries[f] = TunedEntry(f)
  <2>1. CASE Searched(origin, f) /\ Outcome(origin, f) # Failed
    BY <1>1, <1>5, <2>1, OutcomeIs DEF TunedEntry
  <2>2. CASE ~(Searched(origin, f) /\ Outcome(origin, f) # Failed)
    <3>1. s.entries[f] = SyncedEntry(origin.entries[f])
      BY <1>2, <1>5, <2>2 DEF TunedEntry
    <3> QED
      BY <1>1, <1>2, <3>1, SyncedEntryIs
  <2> QED
    BY <2>1, <2>2
<1> QED
  BY <1>3, <1>4, <1>5

LEMMA MidwayTargets ==
  ASSUME Setting, NEW s \in CacheStore, Midway(s)
  PROVE  Targets(s) = Targets(origin)
<1>1. ASSUME NEW f \in Fns
      PROVE  SearchOnMiss \/ (s.entries[f] # NoEntry <=> origin.entries[f] # NoEntry)
  BY MidwayEntry DEF Alike, Searched
<1> QED
  BY <1>1, ModuleConstants DEF Targets

LEMMA LookupFinds ==
  ASSUME Setting, NEW s \in CacheStore, Midway(s), NEW f \in Fns,
         OnlyNonBitExact => s.entries[f] = origin.entries[f]
  PROVE  /\ Hit(s, f) => /\ Agrees(HitResult(s, f), f)
                         /\ SyncedEntry(s.entries[f]) = TunedEntry(f)
         /\ ~Hit(s, f) /\ ~SearchOnMiss => /\ Agrees(MissResult, f)
                                           /\ SyncedEntry(s.entries[f]) = TunedEntry(f)
         /\ ~Hit(s, f) /\ SearchOnMiss => /\ Searched(origin, f)
                                          /\ BaseFlags(s) = BaseFlags(origin)
                                          /\ Seed(s, f) = Seed(origin, f)
                                          /\ SyncedEntry(s.entries[f])
                                               = SyncedEntry(origin.entries[f])
<1> DEFINE e == s.entries[f]
           d == origin.entries[f]
<1>1. BaseFlags(s) = BaseFlags(origin) /\ Synced(origin, f).entries[f] = SyncedEntry(d)
  BY MidwayEntry, SyncedIs DEF Setting
<1>2. CASE Alike(e, d) /\ SyncedEntry(e) = SyncedEntry(d)
  <2>1. (Fresh(s, f) <=> Fresh(origin, f)) /\ (Hit(s, f) <=> Hit(origin, f))
    BY <1>2 DEF Alike, Fresh, Hit
  <2>2. Seed(s, f) = Seed(origin, f)
    BY <1>2 DEF Alike, Seed
  <2>3. CASE Hit(s, f)
    <3>1. TunedEntry(f) = SyncedEntry(d)
      BY <1>1, <2>1, <2>3 DEF TunedEntry, Searched
    <3>2. HitResult(s, f) = HitResult(origin, f)
      BY <1>1, <1>2, <2>3 DEF HitResult, Alike, Hit, Fresh
    <3>3. TunedResult(origin, f) = HitResult(origin, f)
      BY <2>1, <2>3 DEF TunedResult, Searched
    <3> QED
      BY <1>2, <2>3, <3>1, <3>2, <3>3 DEF Agrees
  <2>4. CASE ~Hit(s, f) /\ ~SearchOnMiss
    <3>1. TunedEntry(f) = SyncedEntry(d)
      BY <1>1, <2>4 DEF TunedEntry, Searched
    <3>2. TunedResult(origin, f) = MissResult
      BY <2>1, <2>4 DEF TunedResult, Searched
    <3> QED
      BY <1>2, <2>4, <3>1, <3>2 DEF Agrees
  <2>5. CASE ~Hit(s, f) /\ SearchOnMiss
    BY <1>1, <1>2, <2>1, <2>2, <2>5 DEF Searched
  <2> QED
    BY <2>3, <2>4, <2>5
<1>3. CASE ~(Alike(e, d) /\ SyncedEntry(e) = SyncedEntry(d))
  <2> DEFINE o == Outcome(origin, f)
  <2>1. Searched(origin, f) /\ o \in Finding /\ e = FoundEntry(o) /\ e = TunedEntry(f)
    BY <1>3, MidwayEntry
  <2>2. ~OnlyNonBitExact
    BY <1>3 DEF Alike
  <2>3. /\ e # NoEntry /\ e.fresh = TRUE /\ e.flags = o.flags /\ e.exact = o.exact
        /\ SyncedEntry(e) = e
    BY <2>1, FoundIs
  <2>4. Hit(s, f)
    BY <2>2, <2>3 DEF Hit, Fresh
  <2>5. o.flags # NoFlags /\ o # Failed
    BY <2>1, ModuleConstants DEF Finding
  <2> HIDE DEF o
  <2>6. HitResult(s, f).hit = TRUE /\ HitResult(s, f).flags = o.flags /\ HitResult(s, f).exact = o.exact
    BY <2>3, <2>5 DEF HitResult
  <2>7. TunedResult(origin, f) = FoundResult(o)
    BY <2>1, <2>5 DEF TunedResult, Searched, o
  <2>8. Agrees(HitResult(s, f), f)
    BY <2>1, <2>6, <2>7 DEF Agrees, FoundResult, Counts, Searched
  <2>9. SyncedEntry(e) = TunedEntry(f)
    BY <2>1, <2>3
  <2> HIDE DEF e
  <2> QED
    BY <2>4, <2>8, <2>9 DEF e
<1> QED
  BY <1>2, <1>3

\* What a search finds is what an uninterrupted one does.
LEMMA SearchFinds ==
  ASSUME Setting, NEW f \in Fns, Searched(origin, f)
  PROVE  /\ Outcome(origin, f) = Failed =>
              /\ Agrees(FailedResult(BaseFlags(origin)), f)
              /\ TunedEntry(f) = SyncedEntry(origin.entries[f])
         /\ Outcome(origin, f) # Failed =>
              /\ Agrees(FoundResult(Outcome(origin, f)), f)
              /\ TunedEntry(f) = FoundEntry(Outcome(origin, f))
<1>1. Synced(origin, f).entries[f] = SyncedEntry(origin.entries[f])
  BY SyncedIs DEF Setting
<1>2. ~Hit(origin, f) /\ SearchOnMiss
  BY DEF Searched
<1>3. CASE Outcome(origin, f) = Failed
  <2>1. TunedResult(origin, f) = FailedResult(BaseFlags(origin))
    BY <1>2, <1>3 DEF TunedResult
  <2> QED
    BY <1>1, <1>3, <2>1 DEF Agrees, TunedEntry
<1>4. CASE Outcome(origin, f) # Failed
  <2>1. TunedResult(origin, f) = FoundResult(Outcome(origin, f))
    BY <1>2, <1>4 DEF TunedResult
  <2> QED
    BY <1>4, <2>1 DEF Agrees, TunedEntry
<1> QED
  BY <1>3, <1>4
-----------------------------------------------------------------------------
(***************************************************************************)
(* Steps of a worker                                                       *)
(***************************************************************************)
AllInv == ModuleInv /\ ExactInv /\ OutcomeInv /\ FileInv

\* The vote, of what it depends on.
VotedAs(search, flags, r) ==
  LET voters == {f \in DOMAIN r : r[f].flags # NoFlags /\ (r[f].hit \/ search)}
      exactOnly == \E f \in voters : r[f].exact
      votes(f) == Cardinality({g \in voters : /\ r[g].flags = r[f].flags
                                              /\ exactOnly => r[g].exact})
      winner == CHOOSE f \in voters :
                  \A g \in voters : votes(g) < votes(f) \/ (votes(g) = votes(f) /\ f <= g)
  IN  IF voters = {} THEN flags ELSE r[winner].flags

\* The options, the searches and where the run began do not change.
LEMMA RunConstants ==
  ASSUME UNCHANGED <<options, table, origin>>
  PROVE  /\ (SearchOnMiss' <=> SearchOnMiss) /\ (OnlyNonBitExact' <=> OnlyNonBitExact)
         /\ \A f : TunedEntry(f)' = TunedEntry(f)
         /\ \A f : Searched(origin, f)' <=> Searched(origin, f)
         /\ \A f : Outcome(origin, f)' = Outcome(origin, f)
         /\ \A r, f : Agrees(r, f)' <=> Agrees(r, f)
         /\ \A s : Midway(s)' <=> Midway(s)
         /\ Tuned(origin)' = Tuned(origin)
         /\ Targets(origin)' = Targets(origin)
<1>1. SearchOnMiss' = SearchOnMiss /\ OnlyNonBitExact' = OnlyNonBitExact
  BY DEF SearchOnMiss, OnlyNonBitExact
<1>2. \A f : (Hit(origin, f)' <=> Hit(origin, f)) /\ Outcome(origin, f)' = Outcome(origin, f)
  BY <1>1 DEF Hit, Outcome
<1>3. \A f : Searched(origin, f)' <=> Searched(origin, f)
  BY <1>1, <1>2 DEF Searched
<1>4. \A f : TunedEntry(f)' = TunedEntry(f)
  BY <1>2, <1>3 DEF TunedEntry
<1>5. \A f : TunedResult(origin, f)' = TunedResult(origin, f)
  BY <1>1, <1>2, <1>3 DEF TunedResult, Searched
<1>6. \A r, f : Agrees(r, f)' <=> Agrees(r, f)
  BY <1>1, <1>5 DEF Agrees, Counts
<1>7. Targets(origin)' = Targets(origin)
  BY <1>1 DEF Targets
<1>8. \A s : Midway(s)' <=> Midway(s)
  BY <1>4, <1>7 DEF Midway
<1>9. Tuned(origin)' = Tuned(origin)
  <2>1. \A flags, r : /\ Voted(flags, r) = VotedAs(SearchOnMiss, flags, r)
                      /\ Voted(flags, r)' = VotedAs(SearchOnMiss', flags, r)
    BY DEF Voted, Votes, Voters, VotedAs
  <2>2. \A flags, r : Voted(flags, r)' = Voted(flags, r)
    BY <1>1, <2>1
  <2>3. \A f : TunedStoreEntry(origin, f)' = TunedStoreEntry(origin, f)
    BY <1>2, <1>3, <1>7 DEF TunedStoreEntry
  <2> QED
    BY <1>5, <1>7, <2>2, <2>3 DEF Tuned
<1> QED
  BY <1>1, <1>2, <1>3, <1>4, <1>6, <1>7, <1>8, <1>9

LEMMA TunedStoreIs ==
  ASSUME NEW f
  PROVE  TunedStoreEntry(origin, f) = IF f \in Targets(origin) THEN TunedEntry(f)
                                      ELSE origin.entries[f]
  BY DEF TunedStoreEntry, TunedEntry

LEMMA SettingHolds == TypeInv => Setting
  BY DEF TypeInv, Setting

\* What a step of one worker leaves of what is known of the others.
LEMMA OthersKeep ==
  ASSUME ModuleInv, ExactInv, NEW w \in Workers,
         UNCHANGED <<options, table, origin, targets>>,
         \A v \in Workers : v # w => pc'[v] = pc[v] /\ held'[v] = held[v],
         next' = next \/ (next <= N /\ next' = next + 1),
         \/ UNCHANGED <<store, slots>>
         \/ /\ Busy(w)
            /\ DOMAIN slots' \subseteq DOMAIN slots \union {held[w].f}
            /\ \A g \in Fns : g # held[w].f => store'.entries[g] = store.entries[g]
  PROVE  \A v \in Workers : v # w => /\ HeldTypes(v)' /\ ExactOf(v)'
                                     /\ WorkInv(v) => WorkInv(v)'
<1> SUFFICES ASSUME NEW v \in Workers, v # w
             PROVE  HeldTypes(v)' /\ ExactOf(v)' /\ (WorkInv(v) => WorkInv(v)')
  OBVIOUS
<1>1. /\ HeldTypes(v) /\ ExactOf(v) /\ pc'[v] = pc[v] /\ held'[v] = held[v]
      /\ next \in 1 .. N + 1 /\ N \in Nat /\ targets \subseteq Fns /\ Fns \subseteq Nat
  BY ModuleConstants DEF ModuleInv, HeldInv, ExactInv, TypeInv, Fns
<1>2. Busy(v)' <=> Busy(v)
  BY <1>1 DEF Busy
<1>3. CASE ~Busy(v)
  <2>1. pc[v] \notin {"lookup", "search", "upsert", "slot"}
    BY <1>3 DEF Busy
  <2>2. pc[v] = "exit" => next' = N + 1
    BY <1>1 DEF HeldTypes
  <2> QED
    BY <1>1, <1>2, <1>3, <2>1, <2>2 DEF HeldTypes, ExactOf, WorkInv
<1>4. CASE Busy(v)
  <2>1. held[v].f \in Fns /\ held[v].f \in targets \ DOMAIN slots /\ held[v].f < next
    BY <1>1, <1>4 DEF HeldTypes
  <2>2. held[v].f < next'
    <3>1. held[v].f \in Nat /\ next \in Nat /\ held[v].f < next
      <4>1. next \in 1 .. N + 1 /\ N \in Nat
        BY <1>1
      <4>2. next \in Nat
        BY <4>1
      <4> QED
        BY <1>1, <2>1, <4>2
    <3>2. next' = next \/ next' = next + 1
      OBVIOUS
    <3> QED
      BY <3>1, <3>2
  <2>3. held[v].f \notin DOMAIN slots' /\ store'.entries[held[v].f] = store.entries[held[v].f]
    <3>1. CASE UNCHANGED <<store, slots>>
      BY <2>1, <3>1
    <3>2. CASE ~UNCHANGED <<store, slots>>
      <4>1. Busy(w)
        BY <3>2
      <4>2. held[v].f # held[w].f
        BY <1>4, <4>1 DEF ModuleInv, HeldInv
      <4> QED
        BY <2>1, <3>2, <4>2
    <3> QED
      BY <3>1, <3>2
  <2>4. HeldTypes(v)'
    BY <1>1, <1>2, <1>4, <2>1, <2>2, <2>3 DEF HeldTypes, Busy
  <2>5. ExactOf(v)'
    BY <1>1, <2>3 DEF ExactOf, Exact, Fresh
  <2>6. WorkInv(v) => WorkInv(v)'
    BY <1>1, <2>3, RunConstants DEF WorkInv
  <2> QED
    BY <2>4, <2>5, <2>6
<1> QED
  BY <1>3, <1>4

\* A worker goes on with its function.
LEMMA WorkKeeps ==
  ASSUME AllInv, NEW w \in Workers, stage = "tuning", Busy(w), Busy(w)', pc'[w] # "lookup",
         held'[w].f = held[w].f,
         UNCHANGED <<options, table, stage, file, writing, lock, targets, next, completed,
                     slots, crashes, origin, saved, lost>>,
         \A v \in Workers : v # w => pc'[v] = pc[v] /\ held'[v] = held[v],
         pc' \in [Workers -> Labels], DOMAIN held' = Workers,
         store' \in CacheStore, store'.flags = store.flags,
         \A g \in Fns : g # held[w].f => store'.entries[g] = store.entries[g],
         HeldTypes(w)', ExactOf(w)',
         Untouched => /\ WorkInv(w)'
                      /\ store'.entries[held[w].f] \in {store.entries[held[w].f],
                            Synced(origin, held[w].f).entries[held[w].f], TunedEntry(held[w].f)}
  PROVE  AllInv'
<1>0. ModuleInv /\ TypeInv /\ HeldInv /\ TakenInv /\ ExactInv /\ OutcomeInv
  BY DEF AllInv, ModuleInv
<1>1. \A v \in Workers : v # w => HeldTypes(v)' /\ ExactOf(v)' /\ (WorkInv(v) => WorkInv(v)')
  BY <1>0, OthersKeep
<1>2. \A v \in Workers : (Busy(v)' <=> Busy(v)) /\ held'[v].f = held[v].f
  BY DEF Busy
<1>3. TypeInv'
  BY <1>0 DEF TypeInv
<1>4. HeldInv'
  BY <1>0, <1>1, <1>2 DEF HeldInv
<1>5. TakenInv'
  BY <1>0, <1>2 DEF TakenInv, Taken
<1>6. ExactInv'
  BY <1>1 DEF ExactInv
<1>7. FileInv'
  BY DEF FileInv
<1>8. OutcomeInv'
  <2> SUFFICES ASSUME Untouched' PROVE TuningInv' /\ (Sound' => Midway(file)')
    BY DEF OutcomeInv
  <2>1. Untouched /\ TuningInv
    BY <1>0, RunConstants DEF Untouched, OutcomeInv
  <2> DEFINE f == held[w].f
  <2>2. f \in targets \ DOMAIN slots /\ f \in Fns /\ f < next
    BY <1>0 DEF HeldInv, HeldTypes, TypeInv
  <2>3. Midway(store)'
    <3>1. Midway(store) /\ f \in Targets(origin)
      BY <2>1, <2>2 DEF TuningInv
    <3>2. Midway(store')
      BY <2>1, <2>2, <3>1 DEF Midway
    <3> QED
      BY <3>2, RunConstants DEF Midway
  <2>4. (\A s \in writing : Midway(s))'
    BY <2>1, RunConstants DEF TuningInv
  <2>5. targets' = Targets(origin)'
    BY <2>1, RunConstants DEF TuningInv
  <2>6. ASSUME OnlyNonBitExact', NEW g \in Fns PROVE Looked(g)' \/ store'.entries[g] = origin'.entries[g]
    <3>1. CASE g = f
      BY <1>0, <1>2, <2>2, <3>1 DEF Looked, HeldInv, Busy
    <3>2. CASE g # f
      <4>1. Looked(g) \/ store.entries[g] = origin.entries[g]
        BY <2>1, <2>6, RunConstants DEF TuningInv
      <4>2. Looked(g) => Looked(g)'
        BY <3>2 DEF Looked
      <4> QED
        BY <3>2, <4>1, <4>2
    <3> QED
      BY <3>1, <3>2
  <2>7. \A v \in Workers : WorkInv(v)'
    BY <1>1, <2>1 DEF TuningInv
  <2>8. \A g \in DOMAIN slots : DoneInv(g)'
    <3>1. \A g \in DOMAIN slots : g \in Fns /\ g # f
      BY <1>0, <2>2 DEF TypeInv
    <3> QED
      BY <2>1, <3>1, RunConstants DEF TuningInv, DoneInv
  <2>9. Sound' => Midway(file)'
    BY <1>0, <2>1, RunConstants DEF OutcomeInv, Sound
  <2> QED
    BY <2>3, <2>4, <2>5, <2>6, <2>7, <2>8, <2>9 DEF TuningInv
<1> QED
  BY <1>3, <1>4, <1>5, <1>6, <1>7, <1>8 DEF AllInv, ModuleInv

LEMMA GotoIs ==
  ASSUME TypeInv, NEW w \in Workers, NEW l \in Labels, Goto(w, l)
  PROVE  /\ pc' \in [Workers -> Labels] /\ pc'[w] = l
         /\ \A v \in Workers : v # w => pc'[v] = pc[v]
  BY DEF TypeInv, Goto

LEMMA HoldIs ==
  ASSUME TypeInv, NEW w \in Workers, NEW x, Hold(w, x)
  PROVE  /\ DOMAIN held' = Workers /\ held'[w] = x
         /\ \A v \in Workers : v # w => held'[v] = held[v]
  BY DEF TypeInv, Hold

\* A worker without a function passes one over, or saves.
LEMMA IdleKeeps ==
  ASSUME AllInv, NEW w \in Workers, stage = "tuning", ~Busy(w), ~Busy(w)',
         UNCHANGED <<options, table, stage, store, targets, completed, slots, crashes, origin,
                     lost>>, saved' \in {"whole", "older", "cut"},
         next' = next \/ (next <= N /\ next \notin targets /\ next' = next + 1),
         pc'[w] = "exit" => next' = N + 1,
         \A v \in Workers : v # w => pc'[v] = pc[v] /\ held'[v] = held[v],
         pc' \in [Workers -> Labels], DOMAIN held' = Workers,
         file' \in CacheStore, writing' \subseteq CacheStore,
         lock' \in 0 .. Main, lock' = Free <=> writing' = {},
         Untouched => /\ \A s \in writing' : Midway(s)
                      /\ Sound' => Midway(file')
  PROVE  AllInv'
<1>0. ModuleInv /\ TypeInv /\ HeldInv /\ TakenInv /\ ExactInv /\ OutcomeInv
  BY DEF AllInv, ModuleInv
<1>1. next \in Nat /\ next <= N + 1 /\ next >= 1 /\ next' \in Nat /\ next' <= N + 1 /\ next' >= 1 /\ N \in Nat
  <2>1. N \in Nat /\ next \in 1 .. N + 1
    BY <1>0, ModuleConstants DEF TypeInv
  <2>2. next \in Nat /\ next <= N + 1 /\ next >= 1
    BY <2>1
  <2> QED
    BY <2>1, <2>2
<1>2. next' = next \/ (next <= N /\ next' = next + 1)
  OBVIOUS
<1>3. \A v \in Workers : v # w => HeldTypes(v)' /\ ExactOf(v)' /\ (WorkInv(v) => WorkInv(v)')
  BY <1>0, <1>2, OthersKeep
<1>4. pc'[w] \notin {"lookup", "search", "upsert", "slot"}
  BY DEF Busy
<1>5. HeldTypes(w)' /\ ExactOf(w)' /\ WorkInv(w)'
  BY <1>4 DEF HeldTypes, ExactOf, WorkInv, Busy
<1>6. \A v \in Workers : Busy(v)' => Busy(v) /\ v # w /\ held'[v] = held[v]
  BY DEF Busy
<1>7. \A v \in Workers : Busy(v) => Busy(v)' /\ held'[v] = held[v]
  BY DEF Busy
<1>8. TypeInv'
  <2>1. next' \in 1 .. N + 1
    BY <1>1
  <2> QED
    BY <1>0, <2>1 DEF TypeInv
<1>9. HeldInv'
  BY <1>0, <1>3, <1>5, <1>6 DEF HeldInv
<1>10. TakenInv'
  <2>1. ASSUME NEW f \in targets, f < next' PROVE Taken(f)'
    <3>1. f \in Nat
      BY <1>0, ModuleConstants DEF TypeInv, Fns
    <3>2. f < next
      BY <1>1, <2>1, <3>1
    <3> QED
      BY <1>0, <1>7, <3>2 DEF TakenInv, Taken
  <2>2. \A f \in DOMAIN slots : f < next'
    <3> SUFFICES ASSUME NEW f \in DOMAIN slots PROVE f < next'
      OBVIOUS
    <3>1. f \in Nat /\ f < next
      <4>1. f \in Fns /\ f < next
        BY <1>0 DEF TypeInv, TakenInv
      <4> QED
        BY <4>1, ModuleConstants DEF Fns
    <3> QED
      BY <1>1, <3>1
  <2> QED
    BY <2>1, <2>2 DEF TakenInv
<1>11. ExactInv' /\ FileInv'
  BY <1>3, <1>5 DEF ExactInv, FileInv
<1>12. OutcomeInv'
  <2> SUFFICES ASSUME Untouched' PROVE TuningInv' /\ (Sound' => Midway(file)')
    BY DEF OutcomeInv
  <2>1. Untouched /\ TuningInv
    BY <1>0, RunConstants DEF Untouched, OutcomeInv
  <2>2. Midway(store)' /\ (\A s \in writing : Midway(s))' /\ targets' = Targets(origin)'
    BY <2>1, RunConstants DEF TuningInv
  <2>3. ASSUME OnlyNonBitExact', NEW g \in Fns PROVE Looked(g)' \/ store'.entries[g] = origin'.entries[g]
    <3>1. Looked(g) \/ store.entries[g] = origin.entries[g]
      BY <2>1, <2>3, RunConstants DEF TuningInv
    <3>2. Looked(g) => Looked(g)'
      <4>1. g < next => g < next'
        <5>1. g \in Nat
          BY ModuleConstants DEF Fns
        <5> QED
          BY <1>1, <5>1
      <4> QED
        BY <1>4, <4>1 DEF Looked
    <3> QED
      BY <3>1, <3>2
  <2>4. \A v \in Workers : WorkInv(v)'
    BY <1>3, <1>5, <2>1 DEF TuningInv
  <2>5. \A g \in DOMAIN slots : DoneInv(g)'
    BY <2>1, RunConstants DEF TuningInv, DoneInv
  <2>6. Sound' => Midway(file)'
    BY <2>1, RunConstants
  <2> QED
    BY <2>2, <2>3, <2>4, <2>5, <2>6 DEF TuningInv
<1> QED
  BY <1>8, <1>9, <1>10, <1>11, <1>12 DEF AllInv, ModuleInv

LEMMA FetchKeeps ==
  ASSUME AllInv, NEW w \in Workers, stage = "tuning", Fetch(w)
  PROVE  AllInv'
<1>0. /\ ModuleInv /\ TypeInv /\ HeldInv /\ TakenInv /\ ExactInv /\ OutcomeInv
      /\ pc[w] = "fetch" /\ ~Busy(w)
      /\ UNCHANGED <<options, table, stage, store, file, writing, lock, targets, completed,
                     slots, crashes, origin, saved, lost>>
  BY DEF AllInv, ModuleInv, Fetch, Busy
<1>1. N \in Nat /\ next \in 1 .. N + 1 /\ next \in Nat
  <2>1. N \in Nat /\ next \in 1 .. N + 1
    BY <1>0, ModuleConstants DEF TypeInv
  <2> QED
    BY <2>1
<1>2. /\ file' \in CacheStore /\ writing' \subseteq CacheStore
      /\ lock' \in 0 .. Main /\ (lock' = Free <=> writing' = {})
      /\ saved' \in {"whole", "older", "cut"} /\ (Sound' <=> Sound)
  BY <1>0 DEF TypeInv, Sound
<1>3. Untouched => (\A s \in writing' : Midway(s)) /\ (Sound' => Midway(file'))
  BY <1>0, <1>2 DEF OutcomeInv, TuningInv
<1>4. CASE next > N
  <2>1. Goto(w, "exit") /\ UNCHANGED <<next, held>> /\ "exit" \in Labels
    BY <1>4 DEF Fetch, Labels
  <2>2. /\ pc' \in [Workers -> Labels] /\ pc'[w] = "exit"
        /\ \A v \in Workers : v # w => pc'[v] = pc[v] /\ held'[v] = held[v]
    BY <1>0, <2>1, GotoIs
  <2>3. next' = N + 1 /\ DOMAIN held' = Workers /\ ~Busy(w)'
    BY <1>0, <1>1, <1>4, <2>1, <2>2 DEF TypeInv, Busy
  <2> QED
    BY <1>0, <1>2, <1>3, <2>1, <2>2, <2>3, IdleKeeps
<1>5. CASE ~(next > N) /\ next \notin targets
  <2>1. Goto(w, "fetch") /\ Hold(w, [f |-> next]) /\ next' = next + 1 /\ "fetch" \in Labels
    BY <1>5 DEF Fetch, Labels
  <2>2. /\ pc' \in [Workers -> Labels] /\ pc'[w] = "fetch" /\ DOMAIN held' = Workers
        /\ \A v \in Workers : v # w => pc'[v] = pc[v] /\ held'[v] = held[v]
    BY <1>0, <2>1, GotoIs, HoldIs
  <2>3. next <= N /\ ~Busy(w)'
    BY <1>1, <1>5, <2>2 DEF Busy
  <2> QED
    BY <1>0, <1>2, <1>3, <1>5, <2>1, <2>2, <2>3, IdleKeeps
<1>6. CASE ~(next > N) /\ next \in targets
  <2>1. Goto(w, "lookup") /\ Hold(w, [f |-> next]) /\ next' = next + 1 /\ "lookup" \in Labels
    BY <1>6 DEF Fetch, Labels
  <2>2. /\ pc' \in [Workers -> Labels] /\ pc'[w] = "lookup"
        /\ DOMAIN held' = Workers /\ held'[w].f = next
        /\ \A v \in Workers : v # w => pc'[v] = pc[v] /\ held'[v] = held[v]
    BY <1>0, <2>1, GotoIs, HoldIs
  <2>3. next <= N /\ next' \in 1 .. N + 1 /\ next < next'
    BY <1>1, <1>6, <2>1
  <2>4. \A f \in Fns : f \in Nat /\ (f < next' <=> f < next \/ f = next)
    <3> TAKE f \in Fns
    <3>1. f \in Nat
      BY ModuleConstants DEF Fns
    <3> QED
      BY <1>1, <2>1, <3>1
  <2>5. \A v \in Workers : v # w => HeldTypes(v)' /\ ExactOf(v)' /\ (WorkInv(v) => WorkInv(v)')
    BY <1>0, <2>1, <2>2, <2>3, OthersKeep
  <2>6. next \notin DOMAIN slots
    BY <1>0, <1>1 DEF TakenInv
  <2>7. HeldTypes(w)' /\ ExactOf(w)' /\ WorkInv(w)'
    BY <1>0, <1>6, <2>2, <2>3, <2>6 DEF HeldTypes, ExactOf, WorkInv, Busy
  <2>8. \A v \in Workers : v # w => (Busy(v)' <=> Busy(v)) /\ held'[v] = held[v]
    BY <2>2 DEF Busy
  <2>9. Busy(w)' /\ \A v \in Workers : Busy(v) => held[v].f < next
    BY <1>0, <2>2 DEF Busy, HeldInv, HeldTypes
  <2>10. TypeInv'
    BY <1>0, <2>2, <2>3 DEF TypeInv
  <2>11. HeldInv'
    <3>1. \A v \in Workers : Busy(v) => held[v].f # next
      BY <1>1, <2>9
    <3>2. \A v, u \in Workers : (Busy(v) /\ Busy(u) /\ held[v].f = held[u].f => v = u)'
      BY <1>0, <2>2, <2>8, <3>1 DEF HeldInv
    <3> QED
      BY <2>5, <2>7, <3>2 DEF HeldInv
  <2>12. TakenInv'
    <3>1. \A f : Taken(f) => Taken(f)'
      BY <1>0, <2>8 DEF Taken
    <3>2. \A f : f = next => Taken(f)'
      BY <2>2, <2>9 DEF Taken
    <3>3. \A f \in targets : f \in Fns
      BY <1>0 DEF TypeInv
    <3>4. \A f \in DOMAIN slots : f \in Fns /\ f < next
      BY <1>0 DEF TypeInv, TakenInv
    <3>5. \A f \in targets : f < next' => Taken(f)'
      <4> TAKE f \in targets
      <4> SUFFICES ASSUME f < next' PROVE Taken(f)'
        OBVIOUS
      <4>1. CASE f = next
        BY <3>2, <4>1
      <4>2. CASE f < next
        <5>1. Taken(f)
          BY <1>0, <4>2 DEF TakenInv
        <5> QED
          BY <3>1, <5>1
      <4> QED
        BY <2>4, <3>3, <4>1, <4>2
    <3>6. \A f \in DOMAIN slots : f < next'
      BY <2>4, <3>4
    <3> QED
      BY <1>0, <3>5, <3>6 DEF TakenInv
  <2>13. ExactInv' /\ FileInv'
    BY <1>0, <2>5, <2>7 DEF ExactInv, FileInv
  <2>14. OutcomeInv'
    <3> SUFFICES ASSUME Untouched' PROVE TuningInv' /\ (Sound' => Midway(file)')
      BY <1>0 DEF OutcomeInv
    <3>1. Untouched /\ TuningInv /\ (Sound => Midway(file))
      BY <1>0, RunConstants DEF Untouched, OutcomeInv
    <3>2. /\ Midway(store)' /\ (\A s \in writing : Midway(s))' /\ targets' = Targets(origin)'
          /\ Sound' => Midway(file)'
      BY <1>0, <3>1, RunConstants DEF TuningInv, Sound
    <3>3. ASSUME OnlyNonBitExact', NEW g \in Fns
          PROVE  Looked(g)' \/ store'.entries[g] = origin'.entries[g]
      <4>1. Looked(g) \/ store.entries[g] = origin.entries[g]
        BY <1>0, <3>1, <3>3, RunConstants DEF TuningInv
      <4>2. ASSUME Looked(g) PROVE Looked(g)'
        <5>1. g < next /\ g # next /\ g < next'
          BY <1>1, <2>4, <4>2 DEF Looked
        <5>2. \A v \in Workers : pc'[v] = "lookup" /\ held'[v].f = g => pc[v] = "lookup" /\ held[v].f = g
          BY <2>2, <5>1
        <5> QED
          BY <4>2, <5>1, <5>2 DEF Looked
      <4> QED
        BY <1>0, <4>1, <4>2
    <3>4. \A v \in Workers : WorkInv(v)'
      BY <2>5, <2>7, <3>1 DEF TuningInv
    <3>5. \A g \in DOMAIN slots : DoneInv(g)'
      BY <1>0, <3>1, RunConstants DEF TuningInv, DoneInv
    <3> QED
      BY <1>0, <3>2, <3>3, <3>4, <3>5 DEF TuningInv
  <2> QED
    BY <2>10, <2>11, <2>12, <2>13, <2>14 DEF AllInv, ModuleInv
<1> QED
  BY <1>4, <1>5, <1>6

\* The cache is asked: a hit, a search to come, or nothing.
LEMMA LookupKeeps ==
  ASSUME AllInv, NEW w \in Workers, stage = "tuning", Lookup(w)
  PROVE  AllInv'
<1> DEFINE f == held[w].f
<1>0. /\ ModuleInv /\ TypeInv /\ HeldInv /\ TakenInv /\ ExactInv /\ OutcomeInv
      /\ pc[w] = "lookup" /\ store' = Synced(store, f)
      /\ UNCHANGED <<options, table, stage, file, writing, lock, targets, next, completed,
                     slots, crashes, origin, saved, lost>>
  BY DEF AllInv, ModuleInv, Lookup, Ask
<1>1. HeldTypes(w) /\ Busy(w) /\ store \in CacheStore /\ Setting
  BY <1>0, SettingHolds DEF HeldInv, Busy, TypeInv
<1>2. f \in targets \ DOMAIN slots /\ f < next /\ f \in Fns
  BY <1>0, <1>1 DEF HeldTypes, TypeInv
<1> HIDE DEF f
<1>3. /\ store' \in CacheStore /\ store'.flags = store.flags
      /\ store'.entries[f] = SyncedEntry(store.entries[f])
      /\ \A g \in Fns : g # f => store'.entries[g] = store.entries[g]
  BY <1>0, <1>1, <1>2, SyncedIs
<1>4. /\ store.entries[f] \in Entries /\ BaseFlags(store) \in Flags /\ Seed(store, f) \in Seeds
      /\ Alike(SyncedEntry(store.entries[f]), store.entries[f])
  BY <1>1, <1>2, StoreType, SyncedEntryIs
<1>5. Synced(origin, f).entries[f] = SyncedEntry(origin.entries[f])
  BY <1>1, <1>2, SyncedIs DEF Setting
<1>6. ASSUME Untouched
      PROVE  /\ Midway(store)
             /\ OnlyNonBitExact => store.entries[f] = origin.entries[f]
             /\ store'.entries[f] \in {Synced(origin, f).entries[f], TunedEntry(f)}
  <2>1. TuningInv
    BY <1>0, <1>6 DEF OutcomeInv
  <2>2. ~Looked(f)
    BY <1>0 DEF Looked, f
  <2>3. Midway(store) /\ (OnlyNonBitExact => store.entries[f] = origin.entries[f])
    BY <1>2, <2>1, <2>2 DEF TuningInv
  <2>4. \/ SyncedEntry(store.entries[f]) = SyncedEntry(origin.entries[f])
        \/ /\ Outcome(origin, f) \in Finding /\ store.entries[f] = FoundEntry(Outcome(origin, f))
           /\ store.entries[f] = TunedEntry(f)
    BY <1>1, <1>2, <2>3, MidwayEntry
  <2>5. \/ store'.entries[f] = Synced(origin, f).entries[f]
        \/ store'.entries[f] = TunedEntry(f)
    BY <1>3, <1>5, <2>4, FoundIs
  <2> QED
    BY <2>3, <2>5
<1>7. ASSUME NEW l \in Labels, l # "lookup", NEW x, Goto(w, l), Hold(w, x), x.f = f, Busy(w)',
             HeldTypes(w)', ExactOf(w)', Untouched => WorkInv(w)'
      PROVE  AllInv'
  <2>1. /\ pc' \in [Workers -> Labels] /\ pc'[w] # "lookup" /\ DOMAIN held' = Workers
        /\ held'[w].f = held[w].f
        /\ \A v \in Workers : v # w => pc'[v] = pc[v] /\ held'[v] = held[v]
    BY <1>0, <1>7, GotoIs, HoldIs DEF f
  <2>2. Untouched => store'.entries[held[w].f] \in {store.entries[held[w].f],
                            Synced(origin, held[w].f).entries[held[w].f], TunedEntry(held[w].f)}
    BY <1>6 DEF f
  <2>3. \A g \in Fns : g # held[w].f => store'.entries[g] = store.entries[g]
    BY <1>3 DEF f
  <2> QED
    BY <1>0, <1>1, <1>3, <1>7, <2>1, <2>2, <2>3, WorkKeeps
<1>8. ASSUME NEW r \in Result, Goto(w, "slot"), Hold(w, [f |-> f, result |-> r]),
             Untouched => Agrees(r, f) /\ SyncedEntry(store.entries[f]) = TunedEntry(f)
      PROVE  AllInv'
  <2> DEFINE x == [f |-> f, result |-> r]
  <2>1. "slot" \in Labels /\ x.f = f /\ x.result = r
    BY DEF Labels
  <2>2. pc'[w] = "slot" /\ held'[w].f = f /\ held'[w].result = r
    BY <1>0, <1>8, <2>1, GotoIs, HoldIs
  <2>3. Busy(w)' /\ HeldTypes(w)' /\ ExactOf(w)'
    BY <1>0, <1>2, <1>8, <2>2 DEF Busy, HeldTypes, ExactOf
  <2>4. Untouched => WorkInv(w)'
    BY <1>0, <1>3, <1>8, <2>2, RunConstants DEF WorkInv
  <2> HIDE DEF x
  <2> QED
    BY <1>7, <1>8, <2>1, <2>3, <2>4 DEF x
<1>9. CASE Hit(store, f)
  <2>1. Goto(w, "slot") /\ Hold(w, [f |-> f, result |-> HitResult(store, f)])
    BY <1>9 DEF Lookup, Ask, f
  <2>2. HitResult(store, f) \in Result
    BY <1>1, <1>2, <1>9, HitResultType
  <2>3. Untouched => Agrees(HitResult(store, f), f) /\ SyncedEntry(store.entries[f]) = TunedEntry(f)
    BY <1>1, <1>2, <1>6, <1>9, LookupFinds
  <2> QED
    BY <1>8, <2>1, <2>2, <2>3
<1>10. CASE ~Hit(store, f) /\ ~SearchOnMiss
  <2>1. Goto(w, "slot") /\ Hold(w, [f |-> f, result |-> MissResult])
    BY <1>10 DEF Lookup, Ask, f
  <2>2. Untouched => Agrees(MissResult, f) /\ SyncedEntry(store.entries[f]) = TunedEntry(f)
    BY <1>1, <1>2, <1>6, <1>10, LookupFinds
  <2> QED
    BY <1>8, <2>1, <2>2, ResultTypes
<1>11. CASE ~Hit(store, f) /\ SearchOnMiss
  <2> DEFINE x == [f |-> f, base |-> BaseFlags(store), seed |-> Seed(store, f)]
  <2>1. Goto(w, "search") /\ Hold(w, x) /\ "search" \in Labels
    BY <1>11 DEF Lookup, Ask, f, Labels
  <2>2. x.f = f /\ x.base = BaseFlags(store) /\ x.seed = Seed(store, f)
    OBVIOUS
  <2> HIDE DEF x
  <2>3. /\ pc'[w] = "search" /\ held'[w].f = f /\ held'[w].base = BaseFlags(store)
        /\ held'[w].seed = Seed(store, f)
    BY <1>0, <2>1, <2>2, GotoIs, HoldIs
  <2>4. Busy(w)' /\ HeldTypes(w)'
    BY <1>0, <1>2, <1>4, <2>3 DEF Busy, HeldTypes
  <2>5. ExactOf(w)'
    <3>1. ~Exact(store, f)
      BY <1>11 DEF Exact, Hit
    <3>2. ~(store'.entries[f] # NoEntry /\ store'.entries[f].fresh /\ store'.entries[f].exact)
      BY <1>3, <1>4, <3>1 DEF Alike, Exact, Fresh
    <3> QED
      BY <2>3, <3>2 DEF ExactOf, Exact, Fresh
  <2>6. Untouched => WorkInv(w)'
    <3> SUFFICES ASSUME Untouched PROVE WorkInv(w)'
      OBVIOUS
    <3>1. /\ Searched(origin, f) /\ BaseFlags(store) = BaseFlags(origin)
          /\ Seed(store, f) = Seed(origin, f)
          /\ SyncedEntry(store.entries[f]) = SyncedEntry(origin.entries[f])
      BY <1>1, <1>2, <1>6, <1>11, LookupFinds
    <3> QED
      BY <1>0, <1>3, <1>5, <2>3, <3>1, RunConstants DEF WorkInv
  <2> QED
    BY <1>7, <2>1, <2>2, <2>4, <2>5, <2>6
<1> QED
  BY <1>9, <1>10, <1>11

LEMMA SearchKeeps ==
  ASSUME AllInv, NEW w \in Workers, stage = "tuning", Search(w)
  PROVE  AllInv'
<1> DEFINE h == held[w]
           o == table[<<h.f, h.base, h.seed>>]
<1>0. /\ ModuleInv /\ TypeInv /\ HeldInv /\ TakenInv /\ ExactInv /\ OutcomeInv
      /\ pc[w] = "search"
      /\ UNCHANGED <<options, table, stage, store, file, writing, lock, targets, next, completed,
                     slots, crashes, origin, saved, lost>>
  BY DEF AllInv, ModuleInv, Search
<1>1. HeldTypes(w) /\ Busy(w) /\ ExactOf(w) /\ store \in CacheStore /\ Setting
  BY <1>0, SettingHolds DEF HeldInv, ExactInv, Busy, TypeInv
<1>2. /\ h.f \in targets \ DOMAIN slots /\ h.f < next /\ h.f \in Fns
      /\ h.base \in Flags /\ h.seed \in Seeds
  BY <1>0, <1>1 DEF HeldTypes, TypeInv
<1>3. o \in Finding \union {Failed}
  BY <1>1, <1>2 DEF Setting
<1>4. ASSUME Untouched
      PROVE  /\ Searched(origin, h.f) /\ o = Outcome(origin, h.f) /\ h.base = BaseFlags(origin)
             /\ store.entries[h.f] = SyncedEntry(origin.entries[h.f])
  <2>1. WorkInv(w)
    BY <1>0, <1>4 DEF OutcomeInv, TuningInv
  <2>2. Synced(origin, h.f).entries[h.f] = SyncedEntry(origin.entries[h.f])
    BY <1>1, <1>2, SyncedIs DEF Setting
  <2> QED
    BY <1>0, <2>1, <2>2 DEF WorkInv, Outcome
<1>5. ASSUME NEW l \in Labels, l # "lookup", NEW x, Goto(w, l), Hold(w, x), x.f = h.f, Busy(w)',
             HeldTypes(w)', Untouched => WorkInv(w)'
      PROVE  AllInv'
  <2>1. /\ pc' \in [Workers -> Labels] /\ pc'[w] # "lookup" /\ DOMAIN held' = Workers
        /\ held'[w].f = held[w].f
        /\ \A v \in Workers : v # w => pc'[v] = pc[v] /\ held'[v] = held[v]
    BY <1>0, <1>5, GotoIs, HoldIs
  <2>2. ExactOf(w)'
    BY <1>0, <1>1, <2>1 DEF ExactOf
  <2>3. /\ store' \in CacheStore /\ store'.flags = store.flags
        /\ store'.entries[held[w].f] = store.entries[held[w].f]
        /\ \A g \in Fns : g # held[w].f => store'.entries[g] = store.entries[g]
    BY <1>0, <1>1
  <2> HIDE DEF h
  <2> QED
    BY <1>0, <1>1, <1>5, <2>1, <2>2, <2>3, WorkKeeps
<1>6. CASE o = Failed
  <2> DEFINE x == [f |-> h.f, result |-> FailedResult(h.base)]
  <2>1. Goto(w, "slot") /\ Hold(w, x) /\ "slot" \in Labels
    <3>1. Goto(w, "slot") /\ Hold(w, x)
      BY <1>6 DEF Search
    <3> QED
      BY <3>1 DEF Labels
  <2>2. x.f = h.f /\ x.result = FailedResult(h.base)
    OBVIOUS
  <2> HIDE DEF x, o
  <2>3. pc'[w] = "slot" /\ held'[w].f = h.f /\ held'[w].result = FailedResult(h.base)
    BY <1>0, <2>1, <2>2, GotoIs, HoldIs
  <2>4. FailedResult(h.base) \in Result
    BY <1>2, ResultTypes
  <2>5. Busy(w)' /\ HeldTypes(w)'
    BY <1>0, <1>2, <2>3, <2>4 DEF Busy, HeldTypes
  <2>6. Untouched => WorkInv(w)'
    <3> SUFFICES ASSUME Untouched PROVE WorkInv(w)'
      OBVIOUS
    <3>1. Agrees(FailedResult(h.base), h.f) /\ TunedEntry(h.f) = SyncedEntry(origin.entries[h.f])
      BY <1>1, <1>2, <1>4, <1>6, SearchFinds
    <3> QED
      BY <1>0, <1>4, <2>3, <3>1, RunConstants DEF WorkInv
  <2> HIDE DEF h
  <2> QED
    BY <1>5, <2>1, <2>2, <2>5, <2>6
<1>7. CASE o # Failed
  <2> DEFINE x == [f |-> h.f, result |-> FoundResult(o), found |-> o]
  <2>1. Goto(w, "upsert") /\ Hold(w, x) /\ "upsert" \in Labels
    <3>1. Goto(w, "upsert") /\ Hold(w, x)
      BY <1>7 DEF Search
    <3> QED
      BY <3>1 DEF Labels
  <2>2. x.f = h.f /\ x.result = FoundResult(o) /\ x.found = o
    OBVIOUS
  <2> HIDE DEF x, o
  <2>3. /\ pc'[w] = "upsert" /\ held'[w].f = h.f /\ held'[w].result = FoundResult(o)
        /\ held'[w].found = o
    BY <1>0, <2>1, <2>2, GotoIs, HoldIs
  <2>4. o \in Finding /\ FoundResult(o) \in Result
    BY <1>3, <1>7, ResultTypes
  <2>5. Busy(w)' /\ HeldTypes(w)'
    BY <1>0, <1>2, <2>3, <2>4 DEF Busy, HeldTypes
  <2>6. Untouched => WorkInv(w)'
    BY <1>0, <1>4, <1>7, <2>3, RunConstants DEF WorkInv
  <2> HIDE DEF h
  <2> QED
    BY <1>5, <2>1, <2>2, <2>5, <2>6
<1> QED
  BY <1>6, <1>7

LEMMA UpsertKeeps ==
  ASSUME AllInv, NEW w \in Workers, stage = "tuning", Upsert(w)
  PROVE  AllInv'
<1> DEFINE h == held[w]
<1>0. /\ ModuleInv /\ TypeInv /\ HeldInv /\ TakenInv /\ ExactInv /\ OutcomeInv
      /\ pc[w] = "upsert" /\ Goto(w, "slot") /\ "slot" \in Labels
      /\ store' = [store EXCEPT !.entries[h.f] = FoundEntry(h.found)]
      /\ UNCHANGED <<options, table, stage, file, writing, lock, targets, next, completed,
                     held, slots, crashes, origin, saved, lost>>
  BY DEF AllInv, ModuleInv, Upsert, Labels
<1>1. HeldTypes(w) /\ Busy(w) /\ store \in CacheStore /\ Setting /\ DOMAIN held = Workers
  BY <1>0, SettingHolds DEF HeldInv, Busy, TypeInv
<1>2. /\ h.f \in targets \ DOMAIN slots /\ h.f < next /\ h.f \in Fns
      /\ h.found \in Finding /\ h.result \in Result
  BY <1>0, <1>1 DEF HeldTypes, TypeInv
<1> HIDE DEF h
<1>3. FoundEntry(h.found) \in Entries
  BY <1>2, FoundIs
<1>4. /\ store' \in CacheStore /\ store'.flags = store.flags
      /\ store'.entries[h.f] = FoundEntry(h.found)
      /\ \A g \in Fns : g # h.f => store'.entries[g] = store.entries[g]
  BY <1>0, <1>1, <1>2, <1>3, PutEntry
<1>5. /\ pc' \in [Workers -> Labels] /\ pc'[w] = "slot" /\ DOMAIN held' = Workers /\ held' = held
      /\ \A v \in Workers : v # w => pc'[v] = pc[v]
  BY <1>0, <1>1, GotoIs
<1>6. Busy(w)' /\ HeldTypes(w)' /\ ExactOf(w)'
  BY <1>0, <1>2, <1>5 DEF Busy, HeldTypes, ExactOf, h
<1>7. ASSUME Untouched
      PROVE  Agrees(h.result, h.f) /\ FoundEntry(h.found) = TunedEntry(h.f)
  <2>1. WorkInv(w)
    BY <1>0, <1>7 DEF OutcomeInv, TuningInv
  <2>2. /\ Searched(origin, h.f) /\ h.found = Outcome(origin, h.f) /\ h.found # Failed
        /\ h.result = FoundResult(h.found)
    BY <1>0, <2>1 DEF WorkInv, h
  <2> QED
    BY <1>1, <1>2, <2>2, SearchFinds
<1>8. Untouched => WorkInv(w)' /\ store'.entries[h.f] = TunedEntry(h.f)
  BY <1>0, <1>4, <1>5, <1>7, RunConstants DEF WorkInv, h
<1>9. Untouched => store'.entries[held[w].f] \in {store.entries[held[w].f],
                            Synced(origin, held[w].f).entries[held[w].f], TunedEntry(held[w].f)}
  BY <1>8 DEF h
<1>10. \A g \in Fns : g # held[w].f => store'.entries[g] = store.entries[g]
  BY <1>4 DEF h
<1>11. pc'[w] # "lookup" /\ \A v \in Workers : v # w => pc'[v] = pc[v] /\ held'[v] = held[v]
  BY <1>5
<1> QED
  BY <1>0, <1>1, <1>4, <1>5, <1>6, <1>8, <1>9, <1>10, <1>11, WorkKeeps

\* A result is put in its slot.
LEMMA SlotKeeps ==
  ASSUME AllInv, NEW w \in Workers, stage = "tuning", Slot(w)
  PROVE  AllInv'
<1> DEFINE f == held[w].f
           r == held[w].result
<1>0. /\ ModuleInv /\ TypeInv /\ HeldInv /\ TakenInv /\ ExactInv /\ OutcomeInv
      /\ pc[w] = "slot"
      /\ UNCHANGED <<options, table, stage, store, file, writing, lock, targets, next, held,
                     crashes, origin, saved, lost>>
      /\ slots' = [g \in DOMAIN slots \union {f} |-> IF g = f THEN r ELSE slots[g]]
  BY DEF AllInv, ModuleInv, Slot
<1>1. HeldTypes(w) /\ Busy(w)
  BY <1>0 DEF HeldInv, Busy
<1>2. f \in targets \ DOMAIN slots /\ f < next /\ f \in Fns /\ r \in Result
  BY <1>0, <1>1 DEF HeldTypes, TypeInv
<1>3. completed' \in Nat /\ \E l \in {"fetch", "save"} : Goto(w, l)
  <2>1. completed \in Nat
    BY <1>0 DEF TypeInv
  <2>2. completed + 1 \in Nat
    BY <2>1
  <2>3. CASE r.hit \/ ~SearchOnMiss
    BY <2>1, <2>3 DEF Slot
  <2>4. CASE ~(r.hit \/ ~SearchOnMiss)
    BY <2>2, <2>4 DEF Slot
  <2> QED
    BY <2>3, <2>4
<1>4. /\ pc' \in [Workers -> Labels] /\ pc'[w] \in {"fetch", "save"} /\ ~Busy(w)'
      /\ \A v \in Workers : v # w => pc'[v] = pc[v]
  <2>1. PICK l \in {"fetch", "save"} : Goto(w, l)
    BY <1>3
  <2>2. l \in Labels
    BY DEF Labels
  <2>3. pc' \in [Workers -> Labels] /\ pc'[w] = l /\ \A v \in Workers : v # w => pc'[v] = pc[v]
    BY <1>0, <2>1, <2>2, GotoIs
  <2> QED
    BY <2>3 DEF Busy
<1>5. /\ DOMAIN slots' = DOMAIN slots \union {f} /\ slots'[f] = r
      /\ \A g \in DOMAIN slots : g # f /\ slots'[g] = slots[g]
  BY <1>0, <1>2
<1> HIDE DEF r
<1>6. \A v \in Workers : v # w => HeldTypes(v)' /\ ExactOf(v)' /\ (WorkInv(v) => WorkInv(v)')
  BY <1>0, <1>1, <1>4, <1>5, OthersKeep
<1>7. HeldTypes(w)' /\ ExactOf(w)' /\ WorkInv(w)'
  BY <1>4 DEF HeldTypes, ExactOf, WorkInv
<1>8. \A v \in Workers : v # w => (Busy(v)' <=> Busy(v))
  BY <1>4 DEF Busy
<1> HIDE DEF f
<1>9. TypeInv'
  <2>1. DOMAIN slots' \subseteq targets /\ \A g \in DOMAIN slots' : slots'[g] \in Result
    BY <1>0, <1>2, <1>5 DEF TypeInv
  <2> QED
    BY <1>0, <1>3, <1>4, <2>1 DEF TypeInv
<1>10. HeldInv'
  BY <1>0, <1>4, <1>6, <1>7, <1>8 DEF HeldInv
<1>11. TakenInv'
  <2>1. \A g : Taken(g) => Taken(g)'
    BY <1>0, <1>5, <1>8 DEF Taken, f
  <2>2. \A g \in targets : g < next => Taken(g)'
    BY <1>0, <2>1 DEF TakenInv
  <2>3. \A g \in DOMAIN slots' : g < next
    BY <1>0, <1>2, <1>5 DEF TakenInv
  <2> QED
    BY <1>0, <2>2, <2>3 DEF TakenInv
<1>12. ExactInv' /\ FileInv'
  BY <1>0, <1>6, <1>7 DEF ExactInv, FileInv
<1>13. OutcomeInv'
  <2> SUFFICES ASSUME Untouched' PROVE TuningInv' /\ (Sound' => Midway(file)')
    BY <1>0 DEF OutcomeInv
  <2>1. Untouched /\ TuningInv /\ (Sound => Midway(file))
    BY <1>0, RunConstants DEF Untouched, OutcomeInv
  <2>2. /\ Midway(store)' /\ (\A s \in writing : Midway(s))' /\ targets' = Targets(origin)'
        /\ Sound' => Midway(file)'
    BY <1>0, <2>1, RunConstants DEF TuningInv, Sound
  <2>3. ASSUME OnlyNonBitExact', NEW g \in Fns
        PROVE  Looked(g)' \/ store'.entries[g] = origin'.entries[g]
    <3>1. Looked(g) \/ store.entries[g] = origin.entries[g]
      BY <1>0, <2>1, <2>3, RunConstants DEF TuningInv
    <3>2. Looked(g) => Looked(g)'
      BY <1>0, <1>4 DEF Looked
    <3> QED
      BY <1>0, <3>1, <3>2
  <2>4. \A v \in Workers : WorkInv(v)'
    BY <1>6, <1>7, <2>1 DEF TuningInv
  <2>5. Agrees(r, f) /\ store.entries[f] = TunedEntry(f)
    BY <1>0, <2>1 DEF TuningInv, WorkInv, r, f
  <2>6. ASSUME NEW g \in DOMAIN slots' PROVE Agrees(slots'[g], g) /\ store.entries[g] = TunedEntry(g)
    BY <1>5, <2>1, <2>5 DEF TuningInv, DoneInv
  <2>7. \A g \in DOMAIN slots' : DoneInv(g)'
    BY <1>0, <2>6, RunConstants DEF DoneInv
  <2> QED
    BY <1>0, <2>2, <2>3, <2>4, <2>7 DEF TuningInv
<1> QED
  BY <1>9, <1>10, <1>11, <1>12, <1>13 DEF AllInv, ModuleInv

-----------------------------------------------------------------------------
(***************************************************************************)
(* Saving                                                                  *)
(***************************************************************************)
LEMMA EmptyType == Empty \in CacheStore
<1>1. [f \in Fns |-> NoEntry] \in [Fns -> CacheEntry \union {NoEntry}]
  OBVIOUS
<1> QED
  BY <1>1 DEF Empty, CacheStore

LEMMA OpenIs ==
  ASSUME TypeInv, NEW p \in 1 .. Main, Open(p)
  PROVE  /\ file' \in CacheStore /\ writing' = {store} /\ writing' \subseteq CacheStore
         /\ lock' \in 0 .. Main /\ (lock' = Free <=> writing' = {})
         /\ saved' \in {"whole", "older", "cut"}
<1>1. Main \in Nat
  BY ModuleConstants DEF Main
<1>2. p \in 0 .. Main /\ p # 0
  BY <1>1
<1> QED
  BY <1>2, EmptyType DEF TypeInv, Open, Free

\* A save that cannot open the file leaves it as sound as it was.
LEMMA OpenFailsIs ==
  ASSUME TypeInv, OpenFails
  PROVE  /\ UNCHANGED <<file, writing, lock>> /\ writing = {}
         /\ saved' \in {"older", "cut"} /\ (saved' = "cut" <=> saved = "cut")
         /\ Sound' <=> Sound
  BY DEF TypeInv, OpenFails, Sound

LEMMA CutShortType ==
  ASSUME NEW s \in CacheStore
  PROVE  CutShort(s) \subseteq CacheStore
<1> SUFFICES ASSUME NEW k \in 0 .. N
             PROVE  [entries |-> [f \in Fns |-> IF f <= k THEN s.entries[f] ELSE NoEntry],
                     flags |-> NoFlags] \in CacheStore
  BY DEF CutShort
<1>1. \A f \in Fns : s.entries[f] \in CacheEntry \union {NoEntry}
  BY DEF CacheStore
<1>2. [f \in Fns |-> IF f <= k THEN s.entries[f] ELSE NoEntry] \in [Fns -> CacheEntry \union {NoEntry}]
  BY <1>1
<1> QED
  BY <1>2 DEF CacheStore

\* A save writes what was in the store, or a part of that.
LEMMA WriteIs ==
  ASSUME TypeInv, NEW p \in 1 .. Main, Write(p)
  PROVE  /\ file' \in CacheStore /\ writing' = {} /\ saved' \in {"whole", "cut"}
         /\ saved' = "whole" => file' \in writing
         /\ lock' \in 0 .. Main /\ (lock' = Free <=> writing' = {})
<1>1. 0 \in 0 .. Main
  BY ModuleConstants DEF Main
<1>2. writing \subseteq CacheStore
  BY DEF TypeInv
<1>3. file' \in CacheStore
  BY <1>2, CutShortType DEF Write
<1> QED
  BY <1>1, <1>3 DEF TypeInv, Write, Free

LEMMA WorkersLock == Main \in 1 .. Main /\ \A w \in Workers : w \in 1 .. Main
  BY ModuleConstants DEF Main, Workers

LEMMA CheckpointKeeps ==
  ASSUME AllInv, NEW w \in Workers, stage = "tuning", CheckpointOpen(w) \/ CheckpointWrite(w)
  PROVE  AllInv'
<1>0. ModuleInv /\ TypeInv /\ OutcomeInv
  BY DEF AllInv, ModuleInv
<1>1. w \in 1 .. Main
  BY WorkersLock
<1>2. /\ ~Busy(w)
      /\ UNCHANGED <<options, table, stage, store, targets, next, completed, held, slots,
                     crashes, origin, lost>>
      /\ \E l \in {"write", "fetch"} : Goto(w, l)
  BY DEF CheckpointOpen, CheckpointWrite, Busy
<1>3. /\ pc' \in [Workers -> Labels] /\ ~Busy(w)' /\ pc'[w] # "exit"
      /\ \A v \in Workers : v # w => pc'[v] = pc[v] /\ held'[v] = held[v]
      /\ DOMAIN held' = Workers
  <2>1. PICK l \in {"write", "fetch"} : Goto(w, l)
    BY <1>2
  <2>2. l \in Labels
    BY DEF Labels
  <2>3. pc' \in [Workers -> Labels] /\ pc'[w] = l /\ \A v \in Workers : v # w => pc'[v] = pc[v]
    BY <1>0, <2>1, <2>2, GotoIs
  <2> QED
    BY <1>0, <1>2, <2>3 DEF Busy, TypeInv
<1>4. Untouched => /\ Midway(store) /\ \A s \in writing : Midway(s)
                   /\ Sound => Midway(file)
  BY <1>0 DEF OutcomeInv, TuningInv
<1>5. CASE pc[w] = "save" /\ Open(w)
  <2>1. /\ file' \in CacheStore /\ writing' = {store} /\ writing' \subseteq CacheStore
        /\ lock' \in 0 .. Main /\ (lock' = Free <=> writing' = {})
        /\ saved' \in {"whole", "older", "cut"}
    BY <1>0, <1>1, <1>5, OpenIs
  <2>2. Untouched => (\A s \in writing' : Midway(s)) /\ (Sound' => Midway(file'))
    BY <1>4, <2>1 DEF Sound
  <2> QED
    BY <1>2, <1>3, <2>1, <2>2, IdleKeeps
<1>6. CASE pc[w] = "save" /\ OpenFails
  <2>1. /\ UNCHANGED <<file, writing, lock>> /\ saved' \in {"older", "cut"}
        /\ Sound' <=> Sound
    BY <1>0, <1>6, OpenFailsIs
  <2>2. Untouched => (\A s \in writing' : Midway(s)) /\ (Sound' => Midway(file'))
    BY <1>4, <2>1
  <2>3. /\ file' \in CacheStore /\ writing' \subseteq CacheStore
        /\ lock' \in 0 .. Main /\ (lock' = Free <=> writing' = {})
        /\ saved' \in {"whole", "older", "cut"}
    BY <1>0, <2>1 DEF TypeInv
  <2> QED
    BY <1>2, <1>3, <2>2, <2>3, IdleKeeps
<1>7. CASE CheckpointWrite(w)
  <2>1. /\ file' \in CacheStore /\ writing' = {} /\ saved' \in {"whole", "cut"}
        /\ saved' = "whole" => file' \in writing
        /\ lock' \in 0 .. Main /\ (lock' = Free <=> writing' = {})
    BY <1>0, <1>1, <1>7, WriteIs DEF CheckpointWrite
  <2>2. Untouched => (\A s \in writing' : Midway(s)) /\ (Sound' => Midway(file'))
    BY <1>4, <2>1 DEF Sound
  <2> QED
    BY <1>2, <1>3, <2>1, <2>2, IdleKeeps
<1> QED
  BY <1>5, <1>6, <1>7 DEF CheckpointOpen

-----------------------------------------------------------------------------
(***************************************************************************)
(* Steps of the module                                                     *)
(***************************************************************************)
\* When every worker has left, every function that was to be tuned is.
LEMMA AllDone ==
  ASSUME ModuleInv, \A w \in Workers : pc[w] = "exit"
  PROVE  DOMAIN slots = targets
<1>1. 1 \in Workers
  BY ModuleConstants DEF Workers
<1>2. next = N + 1 /\ \A w \in Workers : ~Busy(w)
  BY <1>1 DEF ModuleInv, HeldInv, HeldTypes, Busy
<1>3. \A f \in targets : f < N + 1
  BY ModuleConstants DEF ModuleInv, TypeInv, Fns
<1>4. \A f \in targets : f \in DOMAIN slots
  BY <1>2, <1>3 DEF ModuleInv, TakenInv, Taken
<1> QED
  BY <1>4 DEF ModuleInv, TypeInv

\* A store with the last entries and the flags that their results elect.
LEMMA VoteFinds ==
  ASSUME Setting, store \in CacheStore, TuningInv, DOMAIN slots = targets
  PROVE  [store EXCEPT !.flags = Voted(@, slots)] = Tuned(origin)
<1> DEFINE q == [f \in Targets(origin) |-> TunedResult(origin, f)]
<1>1. /\ DOMAIN slots = Targets(origin) /\ DOMAIN slots \subseteq Fns /\ DOMAIN q = DOMAIN slots
      /\ store.flags = origin.flags
  BY ModuleConstants DEF TuningInv, Midway, Targets
<1>2. \A f \in DOMAIN slots : /\ slots[f].flags = q[f].flags /\ slots[f].exact = q[f].exact
                              /\ Counts(slots[f]) <=> Counts(q[f])
  BY <1>1 DEF TuningInv, DoneInv, Agrees
<1>3. Voted(store.flags, slots) = Voted(origin.flags, q)
  <2> HIDE DEF q
  <2> QED
    BY <1>1, <1>2, SameVote DEF AlikeResults
<1>4. ASSUME NEW f \in Fns PROVE store.entries[f] = TunedStoreEntry(origin, f)
  <2>1. CASE f \in targets
    <3>1. store.entries[f] = TunedEntry(f)
      BY <2>1 DEF TuningInv, DoneInv
    <3> QED
      BY <2>1, <3>1, TunedStoreIs DEF TuningInv
  <2>2. CASE f \notin targets
    BY <2>2, TunedStoreIs DEF TuningInv, Midway
  <2> QED
    BY <2>1, <2>2
<1>5. store.entries = [f \in Fns |-> TunedStoreEntry(origin, f)]
  BY <1>4 DEF CacheStore
<1> DEFINE t == [store EXCEPT !.flags = Voted(@, slots)]
<1>6. t = [entries |-> store.entries, flags |-> Voted(store.flags, slots)]
  BY DEF CacheStore
<1>7. Tuned(origin) = [entries |-> [f \in Fns |-> TunedStoreEntry(origin, f)],
                       flags |-> Voted(origin.flags, q)]
  BY DEF Tuned
<1> QED
  BY <1>3, <1>5, <1>6, <1>7

LEMMA VoteKeeps ==
  ASSUME AllInv, Vote
  PROVE  AllInv'
<1>0. /\ ModuleInv /\ TypeInv /\ HeldInv /\ TakenInv /\ ExactInv /\ OutcomeInv
      /\ stage = "tuning" /\ stage' = "voting" /\ \A w \in Workers : pc[w] = "exit"
      /\ store' = [store EXCEPT !.flags = Voted(@, slots)]
      /\ UNCHANGED <<options, table, file, writing, lock, targets, next, completed, pc, held,
                     slots, crashes, origin, saved, lost>>
  BY DEF AllInv, ModuleInv, Vote
<1>1. DOMAIN slots = targets /\ Setting /\ store \in CacheStore
  BY <1>0, AllDone, SettingHolds DEF TypeInv
<1>2. Voted(store.flags, slots) \in Flags \union {NoFlags}
  BY <1>0, <1>1, StoreType, VotedType DEF TypeInv
<1>3. store' \in CacheStore
  BY <1>0, <1>1, <1>2 DEF CacheStore
<1>4. TypeInv'
  BY <1>0, <1>3 DEF TypeInv
<1>5. HeldInv'
  BY <1>0 DEF HeldInv, HeldTypes, Busy
<1>6. TakenInv'
  BY <1>0, <1>1 DEF TakenInv, Taken, Busy
<1>7. ExactInv' /\ FileInv'
  BY <1>0 DEF ExactInv, ExactOf, FileInv
<1>8. OutcomeInv'
  <2> SUFFICES ASSUME Untouched' PROVE (Sound' => Midway(file)') /\ (store = Tuned(origin))'
    BY <1>0 DEF OutcomeInv
  <2>1. TuningInv /\ (Sound => Midway(file))
    BY <1>0, RunConstants DEF Untouched, OutcomeInv
  <2>2. store' = Tuned(origin)
    BY <1>0, <1>1, <2>1, VoteFinds
  <2> QED
    BY <1>0, <2>1, <2>2, RunConstants DEF Sound
<1> QED
  BY <1>4, <1>5, <1>6, <1>7, <1>8 DEF AllInv, ModuleInv

\* The last save.
LEMMA FinalKeeps ==
  ASSUME AllInv, FinalOpen \/ FinalWrite
  PROVE  AllInv'
<1>0. /\ ModuleInv /\ TypeInv /\ HeldInv /\ TakenInv /\ ExactInv /\ OutcomeInv /\ FileInv
      /\ stage \in {"voting", "saving"} /\ stage' \in {"saving", "done"}
      /\ UNCHANGED <<options, table, store, targets, next, completed, pc, held, slots, crashes,
                     origin, lost>>
  BY DEF AllInv, ModuleInv, FinalOpen, FinalWrite
<1>1. /\ file' \in CacheStore /\ writing' \subseteq CacheStore
      /\ lock' \in 0 .. Main /\ (lock' = Free <=> writing' = {})
      /\ saved' \in {"whole", "older", "cut"} /\ FileInv'
      /\ stage' = "done" /\ saved' = "older" => stage = "voting" /\ Sound /\ file' = file
  <2>1. CASE stage = "voting" /\ Open(Main) /\ stage' = "saving"
    <3>1. /\ file' \in CacheStore /\ writing' = {store} /\ writing' \subseteq CacheStore
          /\ lock' \in 0 .. Main /\ (lock' = Free <=> writing' = {})
          /\ saved' \in {"whole", "older", "cut"}
      BY <1>0, <2>1, OpenIs, WorkersLock
    <3> QED
      BY <1>0, <2>1, <3>1 DEF FileInv
  <2>2. CASE stage = "voting" /\ OpenFails /\ stage' = "done"
    <3>1. /\ UNCHANGED <<file, writing, lock>> /\ writing = {}
          /\ saved' \in {"older", "cut"} /\ (saved' = "cut" <=> saved = "cut")
      BY <1>0, <2>2, OpenFailsIs
    <3>2. /\ file' \in CacheStore /\ writing' \subseteq CacheStore
          /\ lock' \in 0 .. Main /\ (lock' = Free <=> writing' = {})
      BY <1>0, <3>1 DEF TypeInv
    <3>3. FileInv'
      BY <2>2, <3>1 DEF FileInv
    <3> QED
      BY <2>2, <3>1, <3>2, <3>3 DEF Sound
  <2>3. CASE FinalWrite
    <3>1. /\ file' \in CacheStore /\ writing' = {} /\ saved' \in {"whole", "cut"}
          /\ saved' = "whole" => file' \in writing
          /\ lock' \in 0 .. Main /\ (lock' = Free <=> writing' = {})
      BY <1>0, <2>3, WriteIs, WorkersLock DEF FinalWrite
    <3> QED
      BY <1>0, <2>3, <3>1 DEF FinalWrite, FileInv
  <2> QED
    BY <2>1, <2>2, <2>3 DEF FinalOpen
<1>2. TypeInv'
  BY <1>0, <1>1 DEF TypeInv
<1>3. HeldInv' /\ ExactInv'
  BY <1>0 DEF HeldInv, HeldTypes, Busy, ExactInv, ExactOf, Exact, Fresh
<1>4. TakenInv'
  BY <1>0 DEF TakenInv, Taken, Busy
<1>5. OutcomeInv'
  <2> SUFFICES ASSUME Untouched'
               PROVE  /\ stage' = "done" /\ saved' = "older" => Midway(file)'
                      /\ store' = Tuned(origin)'
    BY <1>0 DEF OutcomeInv
  <2>1. Untouched
    BY <1>0, RunConstants DEF Untouched
  <2>2. store' = Tuned(origin)'
    BY <1>0, <2>1, RunConstants DEF OutcomeInv
  <2>3. ASSUME stage' = "done", saved' = "older" PROVE Midway(file)'
    <3>1. Midway(file) /\ file' = file
      BY <1>0, <1>1, <2>1, <2>3 DEF OutcomeInv
    <3> QED
      BY <1>0, <3>1, RunConstants
  <2> QED
    BY <2>2, <2>3
<1> QED
  BY <1>1, <1>2, <1>3, <1>4, <1>5 DEF AllInv, ModuleInv

-----------------------------------------------------------------------------
(***************************************************************************)
(* Crash and restart                                                       *)
(***************************************************************************)
LEMMA CrashKeeps ==
  ASSUME AllInv, Crash
  PROVE  AllInv'
<1>0. /\ ModuleInv /\ TypeInv /\ HeldInv /\ TakenInv /\ ExactInv /\ OutcomeInv /\ FileInv
      /\ stage \in {"tuning", "voting", "saving"} /\ stage' = "down" /\ crashes' = crashes + 1
      /\ writing' = {} /\ lock' = Free
      /\ UNCHANGED <<options, table, store, targets, next, completed, pc, held, slots, origin,
                     lost>>
  BY DEF AllInv, ModuleInv, Crash, TypeInv
<1>1. file' \in CacheStore /\ saved' \in {"whole", "older", "cut"}
  <2>1. CASE writing = {}
    BY <1>0, <2>1 DEF Crash, TypeInv
  <2>2. CASE writing # {}
    BY <1>0, <2>2, CutShortType DEF Crash, TypeInv
  <2> QED
    BY <2>1, <2>2
<1>2. crashes' \in Nat /\ crashes' > 0 /\ lock' \in 0 .. Main
  <2>1. crashes \in Nat
    BY <1>0 DEF TypeInv
  <2>2. crashes' \in Nat /\ crashes' > 0
    BY <1>0, <2>1
  <2>3. 0 \in 0 .. Main
    BY ModuleConstants DEF Main
  <2> QED
    BY <1>0, <2>2, <2>3 DEF Free
<1>3. TypeInv'
  BY <1>0, <1>1, <1>2 DEF TypeInv
<1>4. HeldInv' /\ ExactInv'
  BY <1>0 DEF HeldInv, HeldTypes, Busy, ExactInv, ExactOf, Exact, Fresh
<1>5. TakenInv' /\ FileInv'
  BY <1>0 DEF TakenInv, Taken, Busy, FileInv
<1>6. OutcomeInv'
  <2> SUFFICES ASSUME Untouched', Sound' PROVE Midway(file)'
    BY <1>0 DEF OutcomeInv
  <2>1. writing = {} /\ file' = file /\ Sound
    BY DEF Sound, Crash
  <2>2. crashes' # 0
    BY <1>2
  <2>3. ~OnlyNonBitExact /\ ~lost
    BY <1>0, <2>1, <2>2, RunConstants DEF Untouched
  <2>4. stage # "saving"
    BY <1>0, <2>1 DEF FileInv
  <2>5. Midway(file)
    BY <1>0, <2>1, <2>3, <2>4 DEF OutcomeInv, Untouched
  <2> QED
    BY <1>0, <2>1, <2>5, RunConstants
<1> QED
  BY <1>3, <1>4, <1>5, <1>6 DEF AllInv, ModuleInv

LEMMA RestartKeeps ==
  ASSUME AllInv, Restart
  PROVE  AllInv'
<1>0. /\ ModuleInv /\ TypeInv /\ OutcomeInv /\ stage = "down" /\ crashes > 0 /\ writing = {}
      /\ UNCHANGED <<options, table, file, writing, lock, crashes, origin, saved>>
      /\ lost' = (lost \/ saved = "cut")
      /\ stage' = "tuning" /\ store' = file /\ targets' = Targets(file) /\ next' = 1
      /\ completed' = 0 /\ pc' = [w \in Workers |-> "fetch"]
      /\ held' = [w \in Workers |-> [f |-> 0]] /\ slots' = [f \in {} |-> MissResult]
  BY DEF AllInv, ModuleInv, TypeInv, Restart, Begin
<1>1. Setting /\ file \in CacheStore /\ targets' \subseteq Fns /\ targets' \subseteq Extractable
      /\ DOMAIN slots' = {} /\ lost' \in BOOLEAN
  BY <1>0, SettingHolds, ModuleConstants DEF TypeInv, Targets
<1>2. \A w \in Workers : pc'[w] = "fetch" /\ ~Busy(w)'
  BY <1>0 DEF Busy
<1>3. TypeInv'
  <2>1. next' \in 1 .. N + 1 /\ completed' \in Nat
    BY <1>0, ModuleConstants
  <2>2. pc' \in [Workers -> Labels] /\ DOMAIN held' = Workers
    BY <1>0 DEF Labels
  <2> QED
    BY <1>0, <1>1, <2>1, <2>2 DEF TypeInv
<1>4. HeldInv' /\ ExactInv' /\ FileInv'
  BY <1>0, <1>2 DEF HeldInv, HeldTypes, ExactInv, ExactOf, FileInv
<1>5. TakenInv'
  <2>1. \A f \in Fns : ~(f < 1)
    BY ModuleConstants DEF Fns
  <2> QED
    BY <1>0, <1>1, <2>1 DEF TakenInv
<1>6. OutcomeInv'
  <2> SUFFICES ASSUME Untouched' PROVE TuningInv' /\ Midway(file)'
    BY <1>0 DEF OutcomeInv
  <2>1. Midway(file) /\ ~OnlyNonBitExact'
    <3>1. crashes # 0
      BY <1>0 DEF TypeInv
    <3>2. ~lost /\ saved # "cut" /\ ~OnlyNonBitExact
      BY <1>0, <3>1, RunConstants DEF Untouched
    <3> QED
      BY <1>0, <3>2, RunConstants DEF Untouched, OutcomeInv, Sound
  <2>2. Midway(store)' /\ Midway(file)'
    BY <1>0, <2>1, RunConstants
  <2>3. targets' = Targets(origin)'
    BY <1>0, <1>1, <2>1, MidwayTargets, RunConstants
  <2>4. \A w \in Workers : WorkInv(w)'
    BY <1>2 DEF WorkInv
  <2> QED
    BY <1>0, <1>1, <2>1, <2>2, <2>3, <2>4 DEF TuningInv
<1> QED
  BY <1>3, <1>4, <1>5, <1>6 DEF AllInv, ModuleInv

-----------------------------------------------------------------------------
LEMMA InitHolds == Init => AllInv
<1> SUFFICES ASSUME Init PROVE AllInv
  OBVIOUS
<1>1. /\ store \in CacheStore /\ file = store /\ origin = store /\ writing = {} /\ lock = Free
      /\ stage = "tuning" /\ targets = Targets(store) /\ targets \subseteq Fns
      /\ targets \subseteq Extractable /\ saved = "whole"
      /\ next = 1 /\ DOMAIN slots = {} /\ crashes = 0 /\ lost = FALSE
      /\ \A w \in Workers : pc[w] = "fetch" /\ ~Busy(w)
  BY ModuleConstants DEF Init, Targets, Busy
<1>2. TypeInv
  <2>1. next \in 1 .. N + 1 /\ 0 \in 0 .. Main /\ completed \in Nat
    BY ModuleConstants DEF Init, Main
  <2>2. pc \in [Workers -> Labels] /\ DOMAIN held = Workers
    BY DEF Init, Labels
  <2>3. /\ options \in [search_on_miss : BOOLEAN, only_non_bit_exact : BOOLEAN]
        /\ table \in [Fns \X Flags \X Seeds -> Finding \union {Failed}]
    BY ModuleConstants DEF Init
  <2> QED
    BY <1>1, <2>1, <2>2, <2>3 DEF TypeInv, Free
<1>3. HeldInv /\ ExactInv /\ FileInv
  BY <1>1 DEF HeldInv, HeldTypes, ExactInv, ExactOf, FileInv
<1>4. TakenInv
  <2>1. \A f \in Fns : ~(f < 1)
    BY ModuleConstants DEF Fns
  <2> QED
    BY <1>1, <2>1 DEF TakenInv
<1>5. Midway(store) /\ Midway(file)
  BY <1>1 DEF Midway
<1>6. OutcomeInv
  BY <1>1, <1>5 DEF OutcomeInv, TuningInv, WorkInv
<1> QED
  BY <1>2, <1>3, <1>4, <1>6 DEF AllInv, ModuleInv

LEMMA StutterKeeps ==
  ASSUME AllInv, UNCHANGED vars
  PROVE  AllInv'
<1> USE DEF vars
<1>0. ModuleInv /\ TypeInv /\ HeldInv /\ TakenInv /\ ExactInv /\ OutcomeInv /\ FileInv
  BY DEF AllInv, ModuleInv
<1>1. TypeInv' /\ FileInv'
  BY <1>0 DEF TypeInv, FileInv
<1>2. HeldInv' /\ TakenInv'
  BY <1>0 DEF HeldInv, HeldTypes, TakenInv, Taken, Busy
<1>3. ExactInv'
  BY <1>0 DEF ExactInv, ExactOf, Exact, Fresh
<1>4. OutcomeInv'
  <2> SUFFICES ASSUME Untouched'
               PROVE  /\ stage = "tuning" => TuningInv'
                      /\ stage \in {"tuning", "voting", "down"} /\ Sound => Midway(file)'
                      /\ stage = "done" /\ saved = "older" => Midway(file)'
                      /\ stage \in {"voting", "saving", "done"} => store' = Tuned(origin)'
    BY DEF OutcomeInv, Sound
  <2>1. Untouched
    BY RunConstants DEF Untouched
  <2>2. ASSUME TuningInv PROVE TuningInv'
    <3>1. \A f : Looked(f) => Looked(f)'
      BY DEF Looked
    <3>2. \A w \in Workers : WorkInv(w)'
      BY <2>2, RunConstants DEF TuningInv, WorkInv
    <3>3. \A f \in DOMAIN slots : DoneInv(f)'
      BY <2>2, RunConstants DEF TuningInv, DoneInv
    <3>4. Midway(store)' /\ (\A s \in writing : Midway(s)')
      BY <2>2, RunConstants DEF TuningInv
    <3>5. targets = Targets(origin)'
      BY <2>2, RunConstants DEF TuningInv
    <3>6. OnlyNonBitExact' => \A f \in Fns : Looked(f)' \/ store.entries[f] = origin.entries[f]
      BY <2>2, <3>1, RunConstants DEF TuningInv
    <3> QED
      BY <3>2, <3>3, <3>4, <3>5, <3>6 DEF TuningInv
  <2> QED
    BY <1>0, <2>1, <2>2, RunConstants DEF OutcomeInv
<1> QED
  BY <1>0, <1>1, <1>2, <1>3, <1>4 DEF AllInv, ModuleInv

LEMMA NextKeeps == AllInv /\ [Next]_vars => AllInv'
<1> SUFFICES ASSUME AllInv, [Next]_vars PROVE AllInv'
  OBVIOUS
<1>1. ASSUME NEW w \in Workers, Work(w) PROVE AllInv'
  BY <1>1, FetchKeeps, LookupKeeps, SearchKeeps, UpsertKeeps, SlotKeeps, CheckpointKeeps DEF Work
<1>2. CASE Vote
  BY <1>2, VoteKeeps
<1>3. CASE FinalOpen \/ FinalWrite
  BY <1>3, FinalKeeps
<1>4. CASE Crash
  BY <1>4, CrashKeeps
<1>5. CASE Restart
  BY <1>5, RestartKeeps
<1>6. CASE UNCHANGED vars
  BY <1>6, StutterKeeps
<1> QED
  BY <1>1, <1>2, <1>3, <1>4, <1>5, <1>6 DEF Next

\* The functions are handed out once each, and the store is midway between what the
\* run began with and what a single thread makes of it, in every reachable state.
THEOREM ModuleInvariance == Spec => []AllInv
  BY InitHolds, NextKeeps, PTL DEF Spec

\* From a store that is midway a single thread makes the same as from the first.
LEMMA MidwayTuned ==
  ASSUME Setting, NEW s \in CacheStore, Midway(s), ~OnlyNonBitExact
  PROVE  Tuned(s) = Tuned(origin)
<1> DEFINE r == [f \in Targets(s) |-> TunedResult(s, f)]
           q == [f \in Targets(origin) |-> TunedResult(origin, f)]
<1>1. Targets(s) = Targets(origin) /\ Targets(s) \subseteq Fns
  BY MidwayTargets, ModuleConstants DEF Targets
<1>2. ASSUME NEW f \in Fns
      PROVE  /\ Agrees(TunedResult(s, f), f)
             /\ TunedEntry(f) =
                  IF Searched(s, f) /\ Outcome(s, f) # Failed
                  THEN FoundEntry(Outcome(s, f)) ELSE Synced(s, f).entries[f]
  <2>1. Synced(s, f).entries[f] = SyncedEntry(s.entries[f])
    BY SyncedIs
  <2>2. CASE Hit(s, f)
    <3>1. TunedResult(s, f) = HitResult(s, f) /\ ~Searched(s, f)
      BY <2>2 DEF TunedResult, Searched
    <3> QED
      BY <2>1, <2>2, <3>1, LookupFinds
  <2>3. CASE ~Hit(s, f) /\ ~SearchOnMiss
    <3>1. TunedResult(s, f) = MissResult /\ ~Searched(s, f)
      BY <2>3 DEF TunedResult, Searched
    <3> QED
      BY <2>1, <2>3, <3>1, LookupFinds
  <2>4. CASE ~Hit(s, f) /\ SearchOnMiss
    <3>1. /\ Searched(origin, f) /\ BaseFlags(s) = BaseFlags(origin)
          /\ Seed(s, f) = Seed(origin, f)
          /\ SyncedEntry(s.entries[f]) = SyncedEntry(origin.entries[f])
      BY <2>4, LookupFinds
    <3>2. Searched(s, f) /\ Outcome(s, f) = Outcome(origin, f)
      BY <2>4, <3>1 DEF Searched, Outcome
    <3>3. CASE Outcome(origin, f) = Failed
      <4>1. TunedResult(s, f) = FailedResult(BaseFlags(origin))
        BY <2>4, <3>1, <3>2, <3>3 DEF TunedResult
      <4> QED
        BY <2>1, <3>1, <3>2, <3>3, <4>1, SearchFinds
    <3>4. CASE Outcome(origin, f) # Failed
      <4>1. TunedResult(s, f) = FoundResult(Outcome(origin, f))
        BY <2>4, <3>2, <3>4 DEF TunedResult
      <4> QED
        BY <3>1, <3>2, <3>4, <4>1, SearchFinds
    <3> QED
      BY <3>3, <3>4
  <2> QED
    BY <2>2, <2>3, <2>4
<1>3. \A f \in Fns : TunedStoreEntry(s, f) = TunedStoreEntry(origin, f)
  BY <1>1, <1>2, TunedStoreIs DEF TunedStoreEntry, Midway
<1>4. Voted(s.flags, r) = Voted(origin.flags, q)
  <2>1. DOMAIN r \subseteq Fns /\ DOMAIN q = DOMAIN r /\ s.flags = origin.flags
    BY <1>1 DEF Midway
  <2>2. \A f \in DOMAIN r : /\ r[f].flags = q[f].flags /\ r[f].exact = q[f].exact
                            /\ Counts(r[f]) <=> Counts(q[f])
    BY <1>1, <1>2 DEF Agrees
  <2> HIDE DEF r, q
  <2>3. AlikeResults(r, q)
    BY <2>1, <2>2 DEF AlikeResults
  <2>4. \A flags : Voted(flags, r) = Voted(flags, q)
    BY <2>3, SameVote
  <2> QED
    BY <2>1, <2>4
<1> QED
  BY <1>3, <1>4 DEF Tuned

\* The store a run leaves is what a single thread, never interrupted, makes of the
\* cache the run began with, however many workers there are, in whatever order they
\* go, whichever saves fail, and after every crash unless a run began with a file cut
\* short.  A last save that wrote it all leaves that store in the file, and one that
\* could not open the file leaves one from which another run makes the same.
THEOREM OneOutcome == Spec => []ScheduleIndependent
<1>1. AllInv => ScheduleIndependent
  <2> SUFFICES ASSUME AllInv, stage = "done"
               PROVE  /\ saved = "whole" => file = store
                      /\ Untouched => store = Tuned(origin)
                      /\ saved = "older" /\ ~lost /\ ~OnlyNonBitExact
                           => Tuned(file) = Tuned(origin)
    BY DEF ScheduleIndependent, Untouched
  <2>1. TypeInv /\ OutcomeInv /\ FileInv
    BY DEF AllInv, ModuleInv
  <2>2. ASSUME saved = "older", ~lost, ~OnlyNonBitExact PROVE Tuned(file) = Tuned(origin)
    <3>1. Midway(file) /\ file \in CacheStore /\ Setting
      BY <2>1, <2>2, SettingHolds DEF OutcomeInv, Untouched, TypeInv
    <3> QED
      BY <2>2, <3>1, MidwayTuned
  <2> QED
    BY <2>1, <2>2 DEF OutcomeInv, FileInv
<1> QED
  BY <1>1, ModuleInvariance, PTL

-----------------------------------------------------------------------------
(***************************************************************************)
(* The bit-exact entries                                                   *)
(***************************************************************************)
Kept(f) == store'.entries[f] \in {store.entries[f], [store.entries[f] EXCEPT !.here = TRUE]}

LEMMA LookupKeepsEntries ==
  ASSUME AllInv, NEW w \in Workers, Lookup(w)
  PROVE  \A f \in Fns : Kept(f)
<1>1. /\ held[w].f \in Fns /\ store \in CacheStore /\ store' = Synced(store, held[w].f)
  BY DEF AllInv, ModuleInv, HeldInv, HeldTypes, Busy, TypeInv, Lookup, Ask
<1>2. \A f \in Fns : store'.entries[f] \in {store.entries[f], SyncedEntry(store.entries[f])}
  BY <1>1, SyncedIs
<1>3. \A f \in Fns : SyncedEntry(store.entries[f])
                       \in {store.entries[f], [store.entries[f] EXCEPT !.here = TRUE]}
  BY DEF SyncedEntry
<1> QED
  BY <1>2, <1>3 DEF Kept

LEMMA UpsertKeepsOthers ==
  ASSUME AllInv, NEW w \in Workers, Upsert(w)
  PROVE  \A f \in Fns : Exact(store, f) => Kept(f)
<1> DEFINE h == held[w]
<1>1. /\ h.f \in Fns /\ store \in CacheStore /\ h.found \in Finding /\ ~Exact(store, h.f)
      /\ store' = [store EXCEPT !.entries[h.f] = FoundEntry(h.found)]
  BY DEF AllInv, ModuleInv, ExactInv, ExactOf, HeldInv, HeldTypes, Busy, TypeInv, Upsert
<1> HIDE DEF h
<1>2. FoundEntry(h.found) \in Entries
  BY <1>1, FoundIs
<1>3. \A f \in Fns : f # h.f => store'.entries[f] = store.entries[f]
  BY <1>1, <1>2, PutEntry
<1> QED
  BY <1>1, <1>3 DEF Kept

LEMMA StepKeepsExact ==
  ASSUME AllInv, [Next]_vars, stage # "down"
  PROVE  \A f \in Fns : Exact(store, f) => Kept(f)
<1>1. ASSUME NEW w \in Workers, Work(w) PROVE \A f \in Fns : Exact(store, f) => Kept(f)
  <2>1. CASE Lookup(w)
    BY <2>1, LookupKeepsEntries
  <2>2. CASE Upsert(w)
    BY <2>2, UpsertKeepsOthers
  <2>3. CASE Fetch(w) \/ Search(w) \/ Slot(w) \/ CheckpointOpen(w) \/ CheckpointWrite(w)
    BY <2>3 DEF Fetch, Search, Slot, CheckpointOpen, CheckpointWrite, Kept
  <2> QED
    BY <1>1, <2>1, <2>2, <2>3 DEF Work
<1>2. CASE Vote
  <2>1. store'.entries = store.entries
    BY <1>2 DEF Vote, AllInv, ModuleInv, TypeInv, CacheStore
  <2> QED
    BY <2>1 DEF Kept
<1>3. CASE FinalOpen \/ FinalWrite \/ Crash \/ UNCHANGED vars
  BY <1>3 DEF FinalOpen, FinalWrite, Crash, vars, Kept
<1> QED
  BY <1>1, <1>2, <1>3 DEF Next, Restart

\* No step of a live process replaces a matching bit-exact recipe: at most the file
\* name that is kept with it is brought up to date.
THEOREM ExactIsKept == Spec => KeepsExact
<1>1. AllInv /\ [Next]_vars =>
        (stage # "down" =>
           (\A f \in Fns : Fresh(store, f) /\ store.entries[f].exact =>
              store'.entries[f] \in {store.entries[f],
                                     [store.entries[f] EXCEPT !.here = TRUE]}))
  BY StepKeepsExact DEF Exact, Kept
<1>2. AllInv /\ [Next]_vars =>
        [stage # "down" =>
           (\A f \in Fns : Fresh(store, f) /\ store.entries[f].exact =>
              store'.entries[f] \in {store.entries[f],
                                     [store.entries[f] EXCEPT !.here = TRUE]})]_vars
  BY <1>1
<1> QED
  BY <1>2, ModuleInvariance, PTL DEF Spec, KeepsExact

-----------------------------------------------------------------------------
(***************************************************************************)
(* The settled cache: a result stands for the entry that a later lookup    *)
(* would hit, and the module's flags are those that the results elected.   *)
(***************************************************************************)
StandsFor(r, f) ==
  Hit(store, f) => /\ store.entries[f].here
                   /\ r.exact = store.entries[f].exact
                   /\ Counts(r) /\ r.flags # NoFlags
                   /\ (store.entries[f].flags # NoFlags => r.flags = store.entries[f].flags)

WillStand(w) ==
  /\ pc[w] = "search" => SearchOnMiss /\ ~Hit(store, held[w].f)
  /\ pc[w] = "upsert" => SearchOnMiss /\ held[w].result = FoundResult(held[w].found)
  /\ pc[w] = "slot" => StandsFor(held[w].result, held[w].f)

Elected == \A f \in Fns : Wins(slots, f) => store.flags = slots[f].flags

SettledInv ==
  /\ \A f \in Extractable \ targets : ~Hit(store, f)
  /\ \A f \in DOMAIN slots : StandsFor(slots[f], f)
  /\ \A w \in Workers : WillStand(w)
  /\ stage \in {"voting", "saving", "done"} => Elected

\* Who joins the winners leaves them winning.
LEMMA JoiningWinner ==
  ASSUME NEW r, DOMAIN r \subseteq Fns, NEW q, DOMAIN q = DOMAIN r, NEW flags,
         Voters(r) = DOMAIN r, Voters(q) = DOMAIN r, NEW w, Wins(r, w),
         \A f \in DOMAIN r : q[f].exact = r[f].exact /\ q[f].flags \in {r[f].flags, r[w].flags}
  PROVE  Voted(flags, q) = r[w].flags
<1>1. w \in DOMAIN r /\ q[w].flags = r[w].flags
  BY DEF Wins
<1>2. PICK g : Wins(q, g)
  BY <1>1, WinnerExists
<1>3. g \in DOMAIN r /\ g \in Nat /\ w \in Nat
  BY <1>1, <1>2, ModuleConstants DEF Wins, Fns
<1>4. AnyExact(q) = AnyExact(r)
  BY Zenon DEF AnyExact
<1>5. ASSUME q[g].flags # r[w].flags PROVE FALSE
  <2>1. q[g].flags = r[g].flags
    BY <1>3, <1>5
  <2> DEFINE e == AnyExact(r)
  <2>2. Bloc(q, q[g].flags, e) \subseteq Bloc(r, r[g].flags, e)
    BY <1>3, <1>5, <2>1 DEF Bloc
  <2>3. Bloc(r, r[w].flags, e) \subseteq Bloc(q, q[w].flags, e)
    BY <1>1 DEF Bloc
  <2>4. \A a, b : a \subseteq b /\ b \subseteq Fns => Cardinality(a) <= Cardinality(b)
    <3>1. IsFiniteSet(Fns)
      BY ModuleConstants, FS_Interval DEF Fns
    <3> QED
      BY <3>1, FS_Subset
  <2>5. \A x : Bloc(r, x, e) \subseteq Fns /\ Bloc(q, x, e) \subseteq Fns
    BY DEF Bloc
  <2>6. VotesOf(q, g) <= VotesOf(r, g) /\ VotesOf(r, w) <= VotesOf(q, w)
    <3> HIDE DEF e
    <3>1. /\ VotesOf(q, g) = Votes(q, q[g].flags, e) /\ VotesOf(r, g) = Votes(r, r[g].flags, e)
          /\ VotesOf(q, w) = Votes(q, q[w].flags, e) /\ VotesOf(r, w) = Votes(r, r[w].flags, e)
      BY <1>4 DEF VotesOf, e
    <3>2. /\ VotesOf(q, g) = Cardinality(Bloc(q, q[g].flags, e))
          /\ VotesOf(r, g) = Cardinality(Bloc(r, r[g].flags, e))
          /\ VotesOf(q, w) = Cardinality(Bloc(q, q[w].flags, e))
          /\ VotesOf(r, w) = Cardinality(Bloc(r, r[w].flags, e))
      BY <3>1, VotesCount
    <3> QED
      BY <2>2, <2>3, <2>4, <2>5, <3>2
  <2>7. /\ VotesOf(q, g) \in Nat /\ VotesOf(r, g) \in Nat
        /\ VotesOf(q, w) \in Nat /\ VotesOf(r, w) \in Nat
    BY VotesCount DEF VotesOf
  <2>8. VotesOf(r, g) < VotesOf(r, w) \/ (VotesOf(r, g) = VotesOf(r, w) /\ w <= g)
    BY <1>3 DEF Wins
  <2>9. VotesOf(q, w) < VotesOf(q, g) \/ (VotesOf(q, w) = VotesOf(q, g) /\ g <= w)
    BY <1>1, <1>2 DEF Wins
  <2>10. g = w
    BY <1>3, <2>6, <2>7, <2>8, <2>9
  <2> QED
    BY <1>1, <1>5, <2>10
<1>6. Voted(flags, q) = q[g].flags
  BY <1>2, VotedIs
<1> QED
  BY <1>5, <1>6

\* A module whose results all stand for hits votes for the flags it has.
LEMMA SettledHolds ==
  ASSUME AllInv, SettledInv
  PROVE  Settled
<1> SUFFICES ASSUME stage = "done", \A f \in Extractable : Hit(store, f)
             PROVE  Tuned(store) = store
  BY DEF Settled
<1>1. /\ store \in CacheStore /\ DOMAIN slots = targets /\ targets \subseteq Extractable
      /\ Extractable \subseteq Fns
  BY ModuleConstants DEF AllInv, ModuleInv, TypeInv, TakenInv
<1>2. /\ DOMAIN slots = Extractable
      /\ \A f \in Extractable : f \in DOMAIN slots /\ StandsFor(slots[f], f)
  BY <1>1 DEF SettledInv
<1>3. Targets(store) = Extractable
  BY DEF Targets, Hit, Fresh
<1>4. ASSUME NEW f \in Extractable PROVE TunedResult(store, f) = HitResult(store, f)
  BY <1>4 DEF TunedResult, Searched
<1> DEFINE q == [f \in Extractable |-> HitResult(store, f)]
<1>5. Tuned(store).flags = Voted(store.flags, q)
  BY <1>3, <1>4 DEF Tuned
<1>6. ASSUME NEW f \in Extractable
      PROVE  ~Searched(store, f) /\ Synced(store, f).entries[f] = store.entries[f]
  <2>1. store.entries[f] \in CacheEntry /\ store.entries[f].here = TRUE
    <3>1. store.entries[f] \in CacheEntry /\ store.entries[f].here
      BY <1>1, <1>2 DEF StandsFor, Hit, Fresh, CacheStore
    <3>2. store.entries[f].here \in BOOLEAN
      BY <3>1 DEF CacheEntry
    <3> QED
      BY <3>1, <3>2
  <2>2. \A e \in CacheEntry : e.here = TRUE => [e EXCEPT !.here = TRUE] = e
    BY DEF CacheEntry
  <2>3. SyncedEntry(store.entries[f]) = store.entries[f]
    BY <2>1, <2>2 DEF SyncedEntry
  <2>4. Synced(store, f).entries[f] = SyncedEntry(store.entries[f])
    BY <1>1, SyncedIs
  <2> QED
    BY <2>3, <2>4 DEF Searched
<1>7. Tuned(store).entries = store.entries
  <2>1. \A f \in Fns : TunedStoreEntry(store, f) = store.entries[f]
    BY <1>3, <1>6 DEF TunedStoreEntry
  <2>2. Tuned(store).entries = [f \in Fns |-> store.entries[f]]
    BY <2>1 DEF Tuned
  <2> QED
    BY <1>1, <2>2 DEF CacheStore
<1>8. Voted(store.flags, q) = store.flags
  <2>1. /\ Voters(slots) = Extractable
        /\ \A f \in Extractable :
             /\ slots[f].exact = store.entries[f].exact /\ slots[f].flags # NoFlags
             /\ store.entries[f].flags # NoFlags => slots[f].flags = store.entries[f].flags
    BY <1>2 DEF Voters, StandsFor, Counts
  <2>2. CASE Extractable = {}
    <3>1. Voters(q) = {} /\ DOMAIN q \subseteq Fns
      BY <1>1, <2>2 DEF Voters
    <3> HIDE DEF q
    <3> QED
      BY <3>1, VotedIs
  <2>3. CASE Extractable # {}
    <3>1. PICK w : Wins(slots, w)
      BY <1>1, <1>2, <2>1, <2>3, WinnerExists
    <3>2. w \in Extractable /\ w \in Fns
      BY <1>1, <2>1, <3>1 DEF Wins
    <3>2a. Elected /\ slots[w].flags # NoFlags
      BY <2>1, <3>2 DEF SettledInv
    <3>2b. store.flags = slots[w].flags
      BY <3>1, <3>2, <3>2a DEF Elected
    <3>3. BaseFlags(store) = slots[w].flags /\ store.flags # NoFlags
      BY <3>2a, <3>2b DEF BaseFlags
    <3>4. ASSUME NEW f \in Extractable
          PROVE  /\ q[f].exact = slots[f].exact /\ q[f].flags \in {slots[f].flags, slots[w].flags}
                 /\ q[f].hit /\ q[f].flags # NoFlags
      <4>1. /\ q[f].exact = store.entries[f].exact /\ q[f].hit
            /\ q[f].flags = IF store.entries[f].flags = NoFlags THEN BaseFlags(store)
                            ELSE store.entries[f].flags
        BY DEF HitResult
      <4> HIDE DEF q
      <4>2. q[f].exact = slots[f].exact
        BY <2>1, <4>1
      <4>3. CASE store.entries[f].flags = NoFlags
        <5>1. q[f].flags = slots[w].flags /\ slots[w].flags # NoFlags
          BY <2>1, <3>2, <3>2a, <3>3, <4>1, <4>3
        <5> QED
          BY <4>1, <4>2, <5>1
      <4>4. CASE store.entries[f].flags # NoFlags
        <5>1. q[f].flags = slots[f].flags /\ slots[f].flags # NoFlags
          BY <2>1, <4>1, <4>4
        <5> QED
          BY <4>1, <4>2, <5>1
      <4> QED
        BY <4>3, <4>4
    <3>5. DOMAIN q = Extractable
      OBVIOUS
    <3> HIDE DEF q
    <3>6. Voters(q) = Extractable
      BY <3>4, <3>5 DEF Voters
    <3> QED
      BY <1>1, <1>2, <2>1, <3>1, <3>2, <3>2b, <3>4, <3>5, <3>6, JoiningWinner
  <2> QED
    BY <2>2, <2>3
<1> HIDE DEF q
<1>9. Tuned(store) = [entries |-> Tuned(store).entries, flags |-> Tuned(store).flags]
  BY DEF Tuned
<1>10. store = [entries |-> store.entries, flags |-> store.flags]
  BY <1>1 DEF CacheStore
<1> QED
  BY <1>5, <1>7, <1>8, <1>9, <1>10

LEMMA ExtractableFns == \A f : f \in Extractable => f \in Fns
  BY ModuleConstants

\* What is known of an entry holds as long as the entry is the same.
LEMMA SameEntry ==
  ASSUME UNCHANGED options, NEW f \in Fns, store'.entries[f] = store.entries[f]
  PROVE  /\ Hit(store, f)' <=> Hit(store, f)
         /\ \A r : StandsFor(r, f)' <=> StandsFor(r, f)
<1>1. SearchOnMiss' = SearchOnMiss /\ OnlyNonBitExact' = OnlyNonBitExact
  BY DEF SearchOnMiss, OnlyNonBitExact
<1>2. Hit(store, f)' <=> Hit(store, f)
  BY <1>1 DEF Hit, Fresh
<1> QED
  BY <1>1, <1>2 DEF StandsFor, Counts

LEMMA SameWorker ==
  ASSUME AllInv, UNCHANGED options, NEW w \in Workers, pc'[w] = pc[w], held'[w] = held[w],
         WillStand(w), Busy(w) => store'.entries[held[w].f] = store.entries[held[w].f]
  PROVE  WillStand(w)'
<1>1. CASE ~Busy(w)
  BY <1>1 DEF Busy, WillStand
<1>2. CASE Busy(w)
  <2>1. held[w].f \in Fns /\ store'.entries[held[w].f] = store.entries[held[w].f]
    BY <1>2 DEF AllInv, ModuleInv, HeldInv, HeldTypes, TypeInv
  <2>2. \A f : f = held[w].f => /\ Hit(store, f)' <=> Hit(store, f)
                                /\ \A r : StandsFor(r, f)' <=> StandsFor(r, f)
    BY <2>1, SameEntry
  <2>3. SearchOnMiss' = SearchOnMiss
    BY DEF SearchOnMiss
  <2>4. pc'[w] = "search" => SearchOnMiss' /\ ~Hit(store, held[w].f)'
    BY <2>2, <2>3 DEF WillStand
  <2>5. \A r : r = held[w].result => (StandsFor(r, held[w].f)' <=> StandsFor(r, held[w].f))
    BY <2>2
  <2> QED
    BY <2>2, <2>3 DEF WillStand
<1> QED
  BY <1>1, <1>2

LEMMA SameWins ==
  ASSUME UNCHANGED <<options, slots>>
  PROVE  \A f : Wins(slots, f)' <=> Wins(slots, f)
<1>1. SearchOnMiss' = SearchOnMiss
  BY DEF SearchOnMiss
<1>2. Voters(slots)' = Voters(slots)
  BY <1>1 DEF Voters
<1>3. \A x, e : Votes(slots, x, e)' = Votes(slots, x, e)
  BY <1>2 DEF Votes
<1>4. AnyExact(slots)' = AnyExact(slots)
  BY <1>2 DEF AnyExact
<1>5. \A f : VotesOf(slots, f)' = VotesOf(slots, f)
  BY <1>3, <1>4 DEF VotesOf
<1> QED
  BY <1>2, <1>5 DEF Wins

\* Steps that leave the store and the results alone.
LEMMA SettledIdle ==
  ASSUME AllInv, SettledInv, UNCHANGED <<options, targets, store, slots>>,
         stage' \in {"voting", "saving", "done"} => stage \in {"voting", "saving", "done"},
         \A w \in Workers : \/ pc'[w] = pc[w] /\ held'[w] = held[w]
                            \/ pc'[w] \notin {"search", "upsert", "slot"}
  PROVE  SettledInv'
<1>1. \A f \in Fns : /\ Hit(store, f)' <=> Hit(store, f)
                     /\ \A r : StandsFor(r, f)' <=> StandsFor(r, f)
  BY SameEntry
<1>2. DOMAIN slots \subseteq Fns
  BY DEF AllInv, ModuleInv, TypeInv
<1>3. \A f \in DOMAIN slots : StandsFor(slots[f], f)'
  BY <1>1, <1>2 DEF SettledInv
<1>4. ASSUME NEW w \in Workers PROVE WillStand(w)'
  <2>1. CASE pc'[w] = pc[w] /\ held'[w] = held[w]
    BY <2>1, SameWorker DEF SettledInv
  <2>2. CASE pc'[w] \notin {"search", "upsert", "slot"}
    BY <2>2 DEF WillStand
  <2> QED
    BY <2>1, <2>2
<1>5. Elected => Elected'
  BY SameWins DEF Elected
<1>6. \A f \in Extractable \ targets : ~Hit(store, f)'
  BY <1>1, ExtractableFns DEF SettledInv
<1> QED
  BY <1>3, <1>4, <1>5, <1>6 DEF SettledInv

\* A worker goes on with its function.
LEMMA SettledWork ==
  ASSUME AllInv, SettledInv, NEW w \in Workers, stage = "tuning", Busy(w),
         UNCHANGED <<options, targets, stage, slots>>,
         \A v \in Workers : v # w => pc'[v] = pc[v] /\ held'[v] = held[v],
         \A g \in Fns : g # held[w].f => store'.entries[g] = store.entries[g],
         WillStand(w)'
  PROVE  SettledInv'
<1>1. held[w].f \in targets /\ held[w].f \notin DOMAIN slots /\ DOMAIN slots \subseteq Fns
  BY DEF AllInv, ModuleInv, TypeInv, HeldInv, HeldTypes
<1>2. \A f \in Fns : f # held[w].f => /\ Hit(store, f)' <=> Hit(store, f)
                                      /\ \A r : StandsFor(r, f)' <=> StandsFor(r, f)
  BY SameEntry
<1>3. \A f \in Extractable \ targets : ~Hit(store, f)'
  BY <1>1, <1>2, ExtractableFns DEF SettledInv
<1>4. \A f \in DOMAIN slots : StandsFor(slots[f], f)'
  BY <1>1, <1>2 DEF SettledInv
<1>5. ASSUME NEW v \in Workers PROVE WillStand(v)'
  <2>1. CASE v = w
    BY <2>1
  <2>2. CASE v # w
    <3>1. Busy(v) => held[v].f # held[w].f /\ held[v].f \in Fns
      BY <2>2 DEF AllInv, ModuleInv, TypeInv, HeldInv, HeldTypes
    <3>2. Busy(v) => store'.entries[held[v].f] = store.entries[held[v].f]
      BY <3>1
    <3> QED
      BY <2>2, <3>2, SameWorker DEF SettledInv
  <2> QED
    BY <2>1, <2>2
<1> QED
  BY <1>3, <1>4, <1>5 DEF SettledInv

LEMMA LookupSettles ==
  ASSUME AllInv, SettledInv, NEW w \in Workers, stage = "tuning", Lookup(w)
  PROVE  SettledInv'
<1> DEFINE f == held[w].f
           e == store.entries[f]
<1>1. /\ TypeInv /\ Busy(w) /\ f \in Fns /\ store \in CacheStore /\ store' = Synced(store, f)
      /\ UNCHANGED <<options, targets, stage, slots>> /\ pc[w] = "lookup"
  BY DEF AllInv, ModuleInv, HeldInv, HeldTypes, Busy, TypeInv, Lookup, Ask
<1> HIDE DEF f
<1>2. /\ store'.entries[f] = SyncedEntry(e) /\ \A g \in Fns : g # f => store'.entries[g] = store.entries[g]
      /\ e \in Entries /\ Alike(SyncedEntry(e), e) /\ BaseFlags(store) \in Flags
  BY <1>1, SyncedIs, StoreType, SyncedEntryIs
<1>3. SearchOnMiss' = SearchOnMiss /\ OnlyNonBitExact' = OnlyNonBitExact
  BY <1>1 DEF SearchOnMiss, OnlyNonBitExact
<1>4. \A g : g = f => (Hit(store, g)' => Hit(store, g))
  <2> SUFFICES ASSUME NEW g, g = f, Hit(store, g)' PROVE Hit(store, g)
    OBVIOUS
  <2>1. /\ store'.entries[g] # NoEntry /\ store'.entries[g].fresh
        /\ (OnlyNonBitExact => store'.entries[g].exact)
    BY <1>3 DEF Hit, Fresh
  <2>2. Alike(store'.entries[g], store.entries[g])
    BY <1>2
  <2> QED
    BY <2>1, <2>2 DEF Hit, Fresh, Alike
<1>5. ASSUME NEW l \in Labels, NEW x, Goto(w, l), Hold(w, x),
             (pc'[w] = l /\ held'[w] = x) => WillStand(w)'
      PROVE  SettledInv'
  <2>1. pc'[w] = l /\ held'[w] = x /\ \A v \in Workers : v # w => pc'[v] = pc[v] /\ held'[v] = held[v]
    BY <1>1, <1>5, GotoIs, HoldIs
  <2>2. \A g \in Fns : g # held[w].f => store'.entries[g] = store.entries[g]
    BY <1>2 DEF f
  <2> QED
    BY <1>1, <1>5, <2>1, <2>2, SettledWork
<1>6. CASE Hit(store, f)
  <2> DEFINE x == [f |-> f, result |-> HitResult(store, f)]
  <2>1. Goto(w, "slot") /\ Hold(w, x) /\ "slot" \in Labels
    BY <1>6 DEF Lookup, Ask, f, Labels
  <2>2. x.f = f /\ x.result = HitResult(store, f)
    OBVIOUS
  <2>3. /\ HitResult(store, f).hit /\ HitResult(store, f).exact = e.exact
        /\ HitResult(store, f).flags = IF e.flags = NoFlags THEN BaseFlags(store) ELSE e.flags
    BY DEF HitResult
  <2>4. HitResult(store, f).flags # NoFlags
    BY <1>2, <2>3, ModuleConstants
  <2>5. e # NoEntry /\ e.fresh
    BY <1>6 DEF Hit, Fresh
  <2>6. SyncedEntry(e).here /\ SyncedEntry(e).exact = e.exact /\ SyncedEntry(e).flags = e.flags
    <3>1. e \in CacheEntry
      BY <1>2, <2>5 DEF Entries
    <3>2. SyncedEntry(e) = [e EXCEPT !.here = TRUE]
      BY <2>5 DEF SyncedEntry
    <3> HIDE DEF e
    <3>3. [e EXCEPT !.here = TRUE].here
      BY <3>1 DEF CacheEntry
    <3> QED
      BY <1>2, <2>5, <3>2, <3>3 DEF Alike
  <2> HIDE DEF x
  <2>7. \A r, g : r = HitResult(store, f) /\ g = f => StandsFor(r, g)'
    <3> SUFFICES ASSUME NEW r, r = HitResult(store, f), NEW g, g = f PROVE StandsFor(r, g)'
      OBVIOUS
    <3>1. Counts(r)'
      BY <2>3 DEF Counts
    <3> QED
      BY <1>2, <2>3, <2>4, <2>6, <3>1 DEF StandsFor
  <2>8. (pc'[w] = "slot" /\ held'[w] = x) => WillStand(w)'
    BY <2>2, <2>7 DEF WillStand
  <2> QED
    BY <1>5, <2>1, <2>8
<1>7. CASE ~Hit(store, f) /\ ~SearchOnMiss
  <2> DEFINE x == [f |-> f, result |-> MissResult]
  <2>1. Goto(w, "slot") /\ Hold(w, x) /\ "slot" \in Labels
    BY <1>7 DEF Lookup, Ask, f, Labels
  <2>2. x.f = f
    OBVIOUS
  <2> HIDE DEF x
  <2>3. \A r, g : g = f => StandsFor(r, g)'
    BY <1>4, <1>7 DEF StandsFor
  <2>4. (pc'[w] = "slot" /\ held'[w] = x) => WillStand(w)'
    BY <2>2, <2>3 DEF WillStand
  <2> QED
    BY <1>5, <2>1, <2>4
<1>8. CASE ~Hit(store, f) /\ SearchOnMiss
  <2> DEFINE x == [f |-> f, base |-> BaseFlags(store), seed |-> Seed(store, f)]
  <2>1. Goto(w, "search") /\ Hold(w, x) /\ "search" \in Labels
    BY <1>8 DEF Lookup, Ask, f, Labels
  <2>2. x.f = f
    OBVIOUS
  <2> HIDE DEF x
  <2>3. \A g : g = f => ~Hit(store, g)'
    BY <1>4, <1>8
  <2>4. (pc'[w] = "search" /\ held'[w] = x) => WillStand(w)'
    BY <1>3, <1>8, <2>2, <2>3 DEF WillStand
  <2> QED
    BY <1>5, <2>1, <2>4
<1> QED
  BY <1>6, <1>7, <1>8

LEMMA SearchSettles ==
  ASSUME AllInv, SettledInv, NEW w \in Workers, stage = "tuning", Search(w)
  PROVE  SettledInv'
<1> DEFINE h == held[w]
           o == table[<<h.f, h.base, h.seed>>]
<1>1. /\ TypeInv /\ Busy(w) /\ h.f \in Fns /\ SearchOnMiss /\ ~Hit(store, h.f) /\ pc[w] = "search"
      /\ UNCHANGED <<options, targets, stage, slots, store>>
  BY DEF AllInv, ModuleInv, HeldInv, HeldTypes, Busy, TypeInv, Search, SettledInv, WillStand
<1>2. SearchOnMiss' /\ \A g : g = h.f => ~Hit(store, g)'
  <2>1. SearchOnMiss' = SearchOnMiss /\ OnlyNonBitExact' = OnlyNonBitExact
    BY <1>1 DEF SearchOnMiss, OnlyNonBitExact
  <2> QED
    BY <1>1, <2>1 DEF Hit, Fresh
<1>3. ASSUME NEW l \in Labels, NEW x, Goto(w, l), Hold(w, x),
             (pc'[w] = l /\ held'[w] = x) => WillStand(w)'
      PROVE  SettledInv'
  <2>1. pc'[w] = l /\ held'[w] = x /\ \A v \in Workers : v # w => pc'[v] = pc[v] /\ held'[v] = held[v]
    BY <1>1, <1>3, GotoIs, HoldIs
  <2> HIDE DEF h
  <2> QED
    BY <1>1, <1>3, <2>1, SettledWork
<1>4. CASE o = Failed
  <2> DEFINE x == [f |-> h.f, result |-> FailedResult(h.base)]
  <2>1. Goto(w, "slot") /\ Hold(w, x) /\ "slot" \in Labels
    <3>1. Goto(w, "slot") /\ Hold(w, x)
      BY <1>4 DEF Search
    <3> QED
      BY <3>1 DEF Labels
  <2>2. x.f = h.f
    OBVIOUS
  <2> HIDE DEF x, h
  <2>3. \A r, g : g = h.f => StandsFor(r, g)'
    BY <1>2 DEF StandsFor
  <2>4. (pc'[w] = "slot" /\ held'[w] = x) => WillStand(w)'
    BY <2>2, <2>3 DEF WillStand
  <2> QED
    BY <1>3, <2>1, <2>4
<1>5. CASE o # Failed
  <2> DEFINE x == [f |-> h.f, result |-> FoundResult(o), found |-> o]
  <2>1. Goto(w, "upsert") /\ Hold(w, x) /\ "upsert" \in Labels
    <3>1. Goto(w, "upsert") /\ Hold(w, x)
      BY <1>5 DEF Search
    <3> QED
      BY <3>1 DEF Labels
  <2>2. x.result = FoundResult(x.found)
    OBVIOUS
  <2> HIDE DEF x
  <2>3. \A y : FoundResult(y)' = FoundResult(y)
    BY DEF FoundResult
  <2>4. (pc'[w] = "upsert" /\ held'[w] = x) => WillStand(w)'
    BY <1>2, <2>2 DEF WillStand, FoundResult
  <2> QED
    BY <1>3, <2>1, <2>4
<1> QED
  BY <1>4, <1>5

LEMMA UpsertSettles ==
  ASSUME AllInv, SettledInv, NEW w \in Workers, stage = "tuning", Upsert(w)
  PROVE  SettledInv'
<1> DEFINE h == held[w]
<1>1. /\ TypeInv /\ Busy(w) /\ h.f \in Fns /\ h.found \in Finding /\ store \in CacheStore
      /\ SearchOnMiss /\ h.result = FoundResult(h.found)
      /\ Goto(w, "slot") /\ "slot" \in Labels
      /\ store' = [store EXCEPT !.entries[h.f] = FoundEntry(h.found)]
      /\ UNCHANGED <<options, targets, stage, slots, held>>
  BY DEF AllInv, ModuleInv, HeldInv, HeldTypes, Busy, TypeInv, Upsert, SettledInv, WillStand, Labels
<1>2. pc'[w] = "slot" /\ \A v \in Workers : v # w => pc'[v] = pc[v] /\ held'[v] = held[v]
  BY <1>1, GotoIs
<1> HIDE DEF h
<1>3. FoundEntry(h.found) \in Entries
  BY <1>1, FoundIs
<1>4. /\ store'.entries[h.f] = FoundEntry(h.found)
      /\ \A g \in Fns : g # h.f => store'.entries[g] = store.entries[g]
  BY <1>1, <1>3, PutEntry
<1>5. /\ h.result.flags = h.found.flags /\ h.result.exact = h.found.exact
      /\ h.found.flags # NoFlags
  <2>1. h.found.flags # NoFlags
    BY <1>1, ModuleConstants DEF Finding
  <2> QED
    BY <1>1, <2>1 DEF FoundResult
<1>6. \A r, g : r = h.result /\ g = h.f => StandsFor(r, g)'
  <2> SUFFICES ASSUME NEW r, r = h.result, NEW g, g = h.f PROVE StandsFor(r, g)'
    OBVIOUS
  <2>1. Counts(r)'
    BY <1>1 DEF Counts, SearchOnMiss
  <2>2. /\ FoundEntry(h.found).here = TRUE /\ FoundEntry(h.found).exact = h.found.exact
        /\ FoundEntry(h.found).flags = h.found.flags
    BY <1>1, FoundIs
  <2>3. store'.entries[g] = FoundEntry(h.found)
    BY <1>4
  <2> QED
    BY <1>5, <2>1, <2>2, <2>3 DEF StandsFor
<1>7. WillStand(w)'
  BY <1>1, <1>2, <1>6 DEF WillStand, h
<1>8. \A g \in Fns : g # held[w].f => store'.entries[g] = store.entries[g]
  BY <1>4 DEF h
<1> QED
  BY <1>1, <1>2, <1>7, <1>8, SettledWork

LEMMA SlotSettles ==
  ASSUME AllInv, SettledInv, NEW w \in Workers, stage = "tuning", Slot(w)
  PROVE  SettledInv'
<1> DEFINE f == held[w].f
           r == held[w].result
<1>1. /\ TypeInv /\ f \in targets /\ StandsFor(r, f) /\ targets \subseteq Fns
      /\ DOMAIN slots \subseteq Fns
      /\ UNCHANGED <<options, targets, stage, store, held>>
      /\ slots' = [g \in DOMAIN slots \union {f} |-> IF g = f THEN r ELSE slots[g]]
  BY DEF AllInv, ModuleInv, HeldInv, HeldTypes, Busy, TypeInv, Slot, SettledInv, WillStand
<1>2. \A g \in DOMAIN slots' : g \in Fns /\ StandsFor(slots'[g], g)
  BY <1>1 DEF SettledInv
<1> HIDE DEF f, r
<1>3. \A g \in Fns : /\ Hit(store, g)' <=> Hit(store, g)
                     /\ \A q : StandsFor(q, g)' <=> StandsFor(q, g)
  BY <1>1, SameEntry
<1>4. /\ pc'[w] \in {"fetch", "save"}
      /\ \A v \in Workers : v # w => pc'[v] = pc[v]
  BY <1>1 DEF Slot, Goto, TypeInv
<1>5. ASSUME NEW v \in Workers PROVE WillStand(v)'
  <2>1. CASE v = w
    BY <1>4, <2>1 DEF WillStand
  <2>2. CASE v # w
    BY <1>1, <1>4, <2>2, SameWorker DEF SettledInv
  <2> QED
    BY <2>1, <2>2
<1>6. \A g \in Extractable \ targets : ~Hit(store, g)'
  BY <1>1, <1>3, ExtractableFns DEF SettledInv
<1>7. (\A g \in DOMAIN slots : StandsFor(slots[g], g))'
  <2> SUFFICES ASSUME NEW g \in DOMAIN slots' PROVE StandsFor(slots[g], g)'
    OBVIOUS
  <2>1. \A q : StandsFor(q, g)' <=> StandsFor(q, g)
    BY <1>2, <1>3
  <2>2. \A q : q = slots'[g] => StandsFor(q, g)'
    BY <1>2, <2>1
  <2> QED
    BY <2>2
<1> QED
  BY <1>1, <1>5, <1>6, <1>7 DEF SettledInv

LEMMA VoteSettles ==
  ASSUME AllInv, SettledInv, Vote
  PROVE  SettledInv'
<1>1. /\ store \in CacheStore /\ DOMAIN slots \subseteq Fns
      /\ store' = [store EXCEPT !.flags = Voted(@, slots)]
      /\ \A w \in Workers : pc[w] = "exit"
      /\ UNCHANGED <<options, targets, pc, held, slots>>
  BY DEF AllInv, ModuleInv, TypeInv, Vote
<1>2. store'.entries = store.entries /\ store'.flags = Voted(store.flags, slots)
  BY <1>1 DEF CacheStore
<1>3. \A g \in Fns : /\ Hit(store, g)' <=> Hit(store, g)
                     /\ \A q : StandsFor(q, g)' <=> StandsFor(q, g)
  BY <1>1, <1>2, SameEntry
<1>4. \A w \in Workers : WillStand(w)'
  BY <1>1 DEF WillStand
<1>5. \A g \in DOMAIN slots : StandsFor(slots[g], g)'
  BY <1>1, <1>3 DEF SettledInv
<1>6. \A f : Wins(slots, f) => store'.flags = slots[f].flags
  BY <1>1, <1>2, VotedIs
<1>7. \A f : Wins(slots, f)' <=> Wins(slots, f)
  BY <1>1, SameWins
<1>8. \A g \in Extractable \ targets : ~Hit(store, g)'
  BY <1>1, <1>3, ExtractableFns DEF SettledInv
<1> QED
  BY <1>1, <1>4, <1>5, <1>6, <1>7, <1>8 DEF SettledInv, Elected

LEMMA RestartSettles ==
  ASSUME AllInv, SettledInv, Restart
  PROVE  SettledInv'
<1>1. /\ UNCHANGED options /\ stage' = "tuning" /\ targets' = Targets(store')
      /\ DOMAIN slots' = {} /\ \A w \in Workers : pc'[w] = "fetch"
  BY DEF Restart, Begin
<1>2. \A f \in Extractable \ targets' : store'.entries[f] = NoEntry
  BY <1>1 DEF Targets
<1>3. \A f \in Extractable \ targets' : ~Hit(store, f)'
  BY <1>2 DEF Hit, Fresh
<1> QED
  BY <1>1, <1>3 DEF SettledInv, WillStand

LEMMA NextSettles == AllInv /\ SettledInv /\ [Next]_vars => SettledInv'
<1> SUFFICES ASSUME AllInv, SettledInv, [Next]_vars PROVE SettledInv'
  OBVIOUS
<1>1. ASSUME NEW w \in Workers, Work(w) PROVE SettledInv'
  <2>1. CASE Lookup(w) \/ Search(w) \/ Upsert(w) \/ Slot(w)
    BY <1>1, <2>1, LookupSettles, SearchSettles, UpsertSettles, SlotSettles DEF Work
  <2>2. CASE Fetch(w) \/ CheckpointOpen(w) \/ CheckpointWrite(w)
    <3>1. \E l \in Labels \ {"search", "upsert", "slot"} : Goto(w, l)
      BY <2>2 DEF Fetch, CheckpointOpen, CheckpointWrite, Labels
    <3>2. TypeInv
      BY DEF AllInv, ModuleInv
    <3>3. /\ pc'[w] \notin {"search", "upsert", "slot"}
          /\ \A v \in Workers : v # w => pc'[v] = pc[v]
      BY <3>1, <3>2, GotoIs
    <3>4. \A v \in Workers : v # w => held'[v] = held[v]
      BY <2>2, <3>2 DEF Fetch, Hold, CheckpointOpen, CheckpointWrite, TypeInv
    <3>5. UNCHANGED <<options, targets, stage, store, slots>>
      BY <2>2 DEF Fetch, CheckpointOpen, CheckpointWrite
    <3> QED
      BY <3>3, <3>4, <3>5, SettledIdle
  <2> QED
    BY <1>1, <2>1, <2>2 DEF Work
<1>2. CASE Vote
  BY <1>2, VoteSettles
<1>3. CASE Restart
  BY <1>3, RestartSettles
<1>4. CASE FinalOpen \/ FinalWrite \/ Crash \/ UNCHANGED vars
  <2>1. /\ UNCHANGED <<options, targets, store, slots, pc, held>>
        /\ stage' \in {"voting", "saving", "done"} => stage \in {"voting", "saving", "done"}
    BY <1>4 DEF FinalOpen, FinalWrite, Crash, vars
  <2> QED
    BY <2>1, SettledIdle
<1> QED
  BY <1>1, <1>2, <1>3, <1>4 DEF Next

\* When every function's entry is one a lookup would hit, another run of the tuner
\* finds nothing to do: the entries are up to date, and the flags are the ones that
\* those entries vote for, those without flags of their own included.
THEOREM NothingLeftToDo == Spec => []Settled
<1>1. Init => SettledInv
  <2> SUFFICES ASSUME Init PROVE SettledInv
    OBVIOUS
  <2>1. \A f \in Extractable \ targets : ~Hit(store, f)
    BY DEF Init, Targets, Hit, Fresh
  <2> QED
    BY <2>1 DEF Init, SettledInv, WillStand
<1>2. AllInv /\ SettledInv => Settled
  BY SettledHolds
<1> QED
  BY <1>1, <1>2, NextSettles, ModuleInvariance, PTL DEF Spec
=============================================================================
