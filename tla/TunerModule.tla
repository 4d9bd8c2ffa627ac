----------------------------- MODULE TunerModule -----------------------------
(***************************************************************************)
(* TunerPipeline::TuneModule (tuner/tuner_pipeline.cc): a pool of workers  *)
(* tunes the functions of one module against a shared TuningCacheStore,    *)
(* checkpoints it, and the module's flags are voted on when they are done. *)
(* The process may die at any moment and be started again on its file;     *)
(* cache_path and cache_out_path name the same file.  A save may fail to   *)
(* open it, or write a part of it: nothing looks at the status.            *)
(*                                                                         *)
(* A recipe is a number, 0 where there is none.  A search is a table from  *)
(* a function, the base flags and the seed, the recipe and flags that are  *)
(* cached for it, to what it finds: see TunerSearch.                       *)
(***************************************************************************)
EXTENDS Integers, FiniteSets

CONSTANTS
  N,                \* total_functions, in the order of the translation unit
  Extractable,      \* the functions that ExtractTarget finds in the ROM
  NumThreads,       \* worker threads the hardware or num_threads allows
  Flags,            \* compiler flag profiles
  Recipes,          \* numbers, 0 among them
  DefaultFlags,     \* default_config_flags
  NoFlags, NoEntry, Failed,    \* absent values
  Options,          \* the options it may be run with
  CheckpointEvery,  \* 25 in the code
  Stores,           \* the caches a run may start from
  Tables,           \* what searches may find
  MaxCrashes        \* bound: crashes considered

Fns == 1 .. N

(***************************************************************************)
(* A FunctionTuningEntry, what a TuningCacheStore holds, and a search's    *)
(* FunctionSearchResult.                                                   *)
(***************************************************************************)
CacheEntry == [flags : Flags \union {NoFlags}, exact : BOOLEAN, recipe : Recipes,
               fresh : BOOLEAN, here : BOOLEAN]

CacheStore == [entries : [Fns -> CacheEntry \union {NoEntry}],
               flags : Flags \union {NoFlags}]

Finding == [flags : Flags, exact : BOOLEAN, recipe : Recipes]

Seeds == [recipe : Recipes, flags : Flags \union {NoFlags}]

ASSUME ModuleConstants ==
  /\ N \in Nat /\ NumThreads \in Nat \ {0} /\ CheckpointEvery \in Nat \ {0}
  /\ Extractable \subseteq Fns
  /\ DefaultFlags \in Flags /\ NoFlags \notin Flags /\ 0 \in Recipes
  /\ NoEntry \notin CacheEntry /\ Failed \notin Finding
  /\ Stores \subseteq CacheStore
  /\ Tables \subseteq [Fns \X Flags \X Seeds -> Finding \union {Failed}]
  /\ Options \subseteq [search_on_miss : BOOLEAN, only_non_bit_exact : BOOLEAN]

VARIABLES
  options,    \* options_: search_on_miss and only_non_bit_exact
  table,      \* what the searches of this behaviour find
  stage,      \* "tuning", "voting", "saving", "done" or "down"
  store,      \* cache_store_: entries and module_c_flags
  file,       \* the cache file: what loading it would give
  writing,    \* the proto being written, {} when no save is under way
  lock,       \* the holder of cache_mutex_ across steps, 0 when free
  targets,    \* indices whose target was extracted
  next,       \* next_index
  completed,  \* completed_live
  pc, held,   \* per worker: where it is, and what it works on
  slots,      \* slot_results
  crashes,
  origin,     \* the store of the first attempt at this run
  saved,      \* the file is "whole", as the last save wrote it, "older", the
              \* last save having failed to open it, or "cut" short
  lost        \* a run began with a file that was cut short

vars == <<options, table, stage, store, file, writing, lock, targets, next, completed,
          pc, held, slots, crashes, origin, saved, lost>>

Workers == 1 .. NumThreads    \* worker_count is fewer when targets are
Main == NumThreads + 1
Free == 0

SearchOnMiss == options.search_on_miss
OnlyNonBitExact == options.only_non_bit_exact

Empty == [entries |-> [f \in Fns |-> NoEntry], flags |-> NoFlags]

-----------------------------------------------------------------------------
(***************************************************************************)
(* What a store says about a function.                                     *)
(***************************************************************************)
BaseFlags(s) == IF s.flags = NoFlags THEN DefaultFlags ELSE s.flags

Fresh(s, f) == s.entries[f] # NoEntry /\ s.entries[f].fresh

FaultHit(s, f) ==    \* fault: the cached bit-exact ones are searched again
  Fresh(s, f) /\ (OnlyNonBitExact => ~s.entries[f].exact)

Hit(s, f) == Fresh(s, f) /\ (OnlyNonBitExact => s.entries[f].exact)

FaultHitResult(s, f) ==    \* fault: is_bit_exact is not restored from the cache
  [hit   |-> TRUE,
   flags |-> IF s.entries[f].flags = NoFlags THEN BaseFlags(s)
             ELSE s.entries[f].flags,
   exact |-> FALSE]

HitResult(s, f) ==
  [hit   |-> TRUE,
   flags |-> IF s.entries[f].flags = NoFlags THEN BaseFlags(s)
             ELSE s.entries[f].flags,
   exact |-> s.entries[f].exact]

MissResult == [hit |-> FALSE, flags |-> NoFlags, exact |-> FALSE]

FailedResult(flags) == [hit |-> FALSE, flags |-> flags, exact |-> FALSE]

FoundResult(o) == [hit |-> FALSE, flags |-> o.flags, exact |-> o.exact]

FoundEntry(o) == [flags |-> o.flags, exact |-> o.exact, recipe |-> o.recipe,
                  fresh |-> TRUE, here |-> TRUE]

(***************************************************************************)
(* The cached recipe and flags, of a matching or of a stale entry, that a  *)
(* search tries among its presets.                                         *)
(***************************************************************************)
Seed(s, f) == IF s.entries[f] = NoEntry THEN [recipe |-> 0, flags |-> NoFlags]
              ELSE [recipe |-> s.entries[f].recipe, flags |-> s.entries[f].flags]

(***************************************************************************)
(* module_name of an entry that matches is brought up to date.             *)
(***************************************************************************)
Synced(s, f) == IF Fresh(s, f) THEN [s EXCEPT !.entries[f].here = TRUE] ELSE s

Targets(s) == {f \in Extractable : SearchOnMiss \/ s.entries[f] # NoEntry}

(***************************************************************************)
(* The module's flags: most votes among bit-exact results, or among all    *)
(* when none is; the earliest such result in order decides a tie.  r is a  *)
(* function on the indices that have a result.                             *)
(***************************************************************************)
Voters(r) == {f \in DOMAIN r : /\ r[f].flags # NoFlags
                               /\ r[f].hit \/ SearchOnMiss}

Votes(r, flags, exactOnly) ==
  Cardinality({f \in Voters(r) : /\ r[f].flags = flags
                                 /\ exactOnly => r[f].exact})

Voted(flags, r) ==
  LET exactOnly == \E f \in Voters(r) : r[f].exact
      votes(f)  == Votes(r, r[f].flags, exactOnly)
      winner    == CHOOSE f \in Voters(r) :
                     \A g \in Voters(r) :
                       votes(g) < votes(f) \/ (votes(g) = votes(f) /\ f <= g)
  IN  IF Voters(r) = {} THEN flags ELSE r[winner].flags

-----------------------------------------------------------------------------
Begin(s) == /\ stage' = "tuning"
            /\ store' = s
            /\ targets' = Targets(s)
            /\ next' = 1
            /\ completed' = 0
            /\ pc' = [w \in Workers |-> "fetch"]
            /\ held' = [w \in Workers |-> [f |-> 0]]
            /\ slots' = [f \in {} |-> MissResult]

Init == /\ options \in Options
        /\ table \in Tables
        /\ stage = "tuning"
        /\ store \in Stores
        /\ file = store
        /\ writing = {} /\ lock = Free
        /\ targets = Targets(store)
        /\ next = 1 /\ completed = 0
        /\ pc = [w \in Workers |-> "fetch"]
        /\ held = [w \in Workers |-> [f |-> 0]]
        /\ slots = [f \in {} |-> MissResult]
        /\ crashes = 0
        /\ origin = store
        /\ saved = "whole"
        /\ lost = FALSE

Goto(w, l) == pc' = [pc EXCEPT ![w] = l]

Hold(w, x) == held' = [held EXCEPT ![w] = x]

FaultFetch(w) ==    \* fault: index + 1 >= total_functions
  /\ pc[w] = "fetch"
  /\ IF next >= N THEN Goto(w, "exit") /\ UNCHANGED <<next, held>>
     ELSE /\ Hold(w, [f |-> next])
          /\ next' = next + 1
          /\ Goto(w, IF next \in targets THEN "lookup" ELSE "fetch")
  /\ UNCHANGED <<options, table, stage, store, file, writing, lock, targets, completed,
                 slots, crashes, origin, saved, lost>>

(***************************************************************************)
(* next_index.fetch_add; an index without a target is passed over.         *)
(***************************************************************************)
Fetch(w) ==
  /\ pc[w] = "fetch"
  /\ IF next > N THEN Goto(w, "exit") /\ UNCHANGED <<next, held>>
     ELSE /\ Hold(w, [f |-> next])
          /\ next' = next + 1
          /\ Goto(w, IF next \in targets THEN "lookup" ELSE "fetch")
  /\ UNCHANGED <<options, table, stage, store, file, writing, lock, targets, completed,
                 slots, crashes, origin, saved, lost>>

Ask(w, synced) ==
  LET f == held[w].f IN
  /\ pc[w] = "lookup" /\ lock = Free
  /\ store' = synced
  /\ \/ /\ Hit(store, f)
        /\ Hold(w, [f |-> f, result |-> HitResult(store, f)])
        /\ Goto(w, "slot")
     \/ /\ ~Hit(store, f) /\ SearchOnMiss
        /\ Hold(w, [f |-> f, base |-> BaseFlags(store),
                    seed |-> Seed(store, f)])
        /\ Goto(w, "search")
     \/ /\ ~Hit(store, f) /\ ~SearchOnMiss
        /\ Hold(w, [f |-> f, result |-> MissResult])
        /\ Goto(w, "slot")
  /\ UNCHANGED <<options, table, stage, file, writing, lock, targets, next, completed,
                 slots, crashes, origin, saved, lost>>

(***************************************************************************)
(* The cache is asked under cache_mutex_.                                  *)
(***************************************************************************)
Lookup(w) == Ask(w, Synced(store, held[w].f))

(***************************************************************************)
(* The search runs unlocked.  One whose baseline does not compile leaves   *)
(* no entry, and votes for the flags it was given.                         *)
(***************************************************************************)
Search(w) ==
  LET h == held[w]
      o == table[<<h.f, h.base, h.seed>>] IN
  /\ pc[w] = "search"
  /\ \/ /\ o = Failed
        /\ Hold(w, [f |-> h.f, result |-> FailedResult(h.base)])
        /\ Goto(w, "slot")
     \/ /\ o # Failed
        /\ Hold(w, [f |-> h.f, result |-> FoundResult(o), found |-> o])
        /\ Goto(w, "upsert")
  /\ UNCHANGED <<options, table, stage, store, file, writing, lock, targets, next,
                 completed, slots, crashes, origin, saved, lost>>

Upsert(w) ==
  LET h == held[w] IN
  /\ pc[w] = "upsert" /\ lock = Free
  /\ store' = [store EXCEPT !.entries[h.f] = FoundEntry(h.found)]
  /\ Goto(w, "slot")
  /\ UNCHANGED <<options, table, stage, file, writing, lock, targets, next, completed,
                 held, slots, crashes, origin, saved, lost>>

(***************************************************************************)
(* The worker's result; every 25th live one is followed by a checkpoint.   *)
(***************************************************************************)
Slot(w) ==
  LET h == held[w] IN
  /\ pc[w] = "slot"
  /\ slots' = [f \in DOMAIN slots \union {h.f} |->
                 IF f = h.f THEN h.result ELSE slots[f]]
  /\ IF h.result.hit \/ ~SearchOnMiss
     THEN Goto(w, "fetch") /\ UNCHANGED completed
     ELSE /\ completed' = completed + 1
          /\ Goto(w, IF completed' % CheckpointEvery = 0 THEN "save" ELSE "fetch")
  /\ UNCHANGED <<options, table, stage, store, file, writing, lock, targets, next, held,
                 crashes, origin, saved, lost>>

-----------------------------------------------------------------------------
(***************************************************************************)
(* What a file cut short loads as: the entries before the cut, without the *)
(* module's flags, which come last; nothing, when the cut is inside one.   *)
(***************************************************************************)
CutShort(s) == {[entries |-> [f \in Fns |-> IF f <= k THEN s.entries[f]
                                            ELSE NoEntry],
                 flags |-> NoFlags] : k \in 0 .. N}

(***************************************************************************)
(* SaveToFile: opening the file truncates it, and the text, taken from the *)
(* store before, is written after.                                         *)
(***************************************************************************)
Open(p) == /\ lock = Free
           /\ lock' = p
           /\ writing' = {store}
           /\ file' = Empty
           /\ UNCHANGED saved

FaultOpenFails ==    \* fault: the file is truncated before the text is made
  /\ lock = Free
  /\ saved' = IF saved = "cut" THEN "cut" ELSE "older"
  /\ file' = Empty
  /\ UNCHANGED <<writing, lock>>

(***************************************************************************)
(* The text cannot be made, or the file cannot be opened for writing: the  *)
(* file is left alone, and TuneModule drops the status.                    *)
(***************************************************************************)
OpenFails == /\ lock = Free
             /\ saved' = IF saved = "cut" THEN "cut" ELSE "older"
             /\ UNCHANGED <<file, writing, lock>>

FaultWrite(p) == /\ lock = p    \* fault: the module's flags are not written
                 /\ lock' = Free
                 /\ \E s \in writing : file' = [s EXCEPT !.flags = NoFlags]
                 /\ writing' = {}
                 /\ saved' = "whole"

FaultHoldOn(p) == /\ lock = p    \* fault: the lock is not released
                  /\ file' \in writing
                  /\ writing' = {}
                  /\ saved' = "whole"
                  /\ UNCHANGED lock

(***************************************************************************)
(* The stream is not looked at after the write: a full disk cuts the file  *)
(* short and the save is OK.                                               *)
(***************************************************************************)
Write(p) == /\ lock = p
            /\ lock' = Free
            /\ writing' = {}
            /\ \/ file' \in writing /\ saved' = "whole"
               \/ (\E s \in writing : file' \in CutShort(s)) /\ saved' = "cut"

CheckpointOpen(w) ==
  /\ pc[w] = "save"
  /\ \/ Open(w) /\ Goto(w, "write")
     \/ OpenFails /\ Goto(w, "fetch")
  /\ UNCHANGED <<options, table, stage, store, targets, next, completed, held, slots,
                 crashes, origin, lost>>

CheckpointWrite(w) ==
  /\ pc[w] = "write"
  /\ Write(w)
  /\ Goto(w, "fetch")
  /\ UNCHANGED <<options, table, stage, store, targets, next, completed, held, slots,
                 crashes, origin, lost>>

(***************************************************************************)
(* After the join: SetModuleCFlags and the last save.                      *)
(***************************************************************************)
Vote ==
  /\ stage = "tuning" /\ \A w \in Workers : pc[w] = "exit"
  /\ stage' = "voting"
  /\ store' = [store EXCEPT !.flags = Voted(@, slots)]
  /\ UNCHANGED <<options, table, file, writing, lock, targets, next, completed, pc,
                 held, slots, crashes, origin, saved, lost>>

FinalOpen ==
  /\ stage = "voting"
  /\ \/ Open(Main) /\ stage' = "saving"
     \/ OpenFails /\ stage' = "done"
  /\ UNCHANGED <<options, table, store, targets, next, completed, pc, held, slots,
                 crashes, origin, lost>>

FinalWrite ==
  /\ stage = "saving"
  /\ stage' = "done"
  /\ Write(Main)
  /\ UNCHANGED <<options, table, store, targets, next, completed, pc, held, slots,
                 crashes, origin, lost>>

-----------------------------------------------------------------------------
Crash ==
  /\ stage # "down" /\ stage # "done" /\ crashes < MaxCrashes
  /\ stage' = "down"
  /\ crashes' = crashes + 1
  /\ IF writing = {} THEN UNCHANGED <<file, saved>>
     ELSE /\ \E s \in writing : file' \in CutShort(s)
          /\ saved' = "cut"
  /\ writing' = {} /\ lock' = Free
  /\ UNCHANGED <<options, table, store, targets, next, completed, pc, held, slots,
                 origin, lost>>

Restart ==
  /\ stage = "down"
  /\ Begin(file)
  /\ lost' = (lost \/ saved = "cut")
  /\ UNCHANGED <<options, table, file, writing, lock, crashes, origin, saved>>

Work(w) == /\ stage = "tuning"
           /\ \/ Fetch(w) \/ Lookup(w) \/ Search(w) \/ Upsert(w) \/ Slot(w)
              \/ CheckpointOpen(w) \/ CheckpointWrite(w)

Next == \/ \E w \in Workers : Work(w)
        \/ Vote \/ FinalOpen \/ FinalWrite
        \/ Crash \/ Restart

(***************************************************************************)
(* The system schedules every thread, and the user starts the tuner again. *)
(***************************************************************************)
Fairness == /\ \A w \in Workers : WF_vars(Work(w))
            /\ WF_vars(Vote \/ FinalOpen \/ FinalWrite \/ Restart)

Spec == Init /\ [][Next]_vars

FairSpec == Spec /\ Fairness

-----------------------------------------------------------------------------
(***************************************************************************)
(* What one thread, never interrupted, makes of a store.                   *)
(***************************************************************************)
Outcome(s, f) == table[<<f, BaseFlags(s), Seed(s, f)>>]

Searched(s, f) == ~Hit(s, f) /\ SearchOnMiss

TunedResult(s, f) ==
  CASE Hit(s, f)          -> HitResult(s, f)
    [] ~Hit(s, f) /\ ~SearchOnMiss -> MissResult
    [] Searched(s, f) /\ Outcome(s, f) = Failed -> FailedResult(BaseFlags(s))
    [] Searched(s, f) /\ Outcome(s, f) # Failed -> FoundResult(Outcome(s, f))

TunedStoreEntry(s, f) ==
  CASE f \notin Targets(s) -> s.entries[f]
    [] f \in Targets(s) /\ Searched(s, f) /\ Outcome(s, f) # Failed
         -> FoundEntry(Outcome(s, f))
    [] OTHER -> Synced(s, f).entries[f]

Tuned(s) ==
  [entries |-> [f \in Fns |-> TunedStoreEntry(s, f)],
   flags |-> Voted(s.flags, [f \in Targets(s) |-> TunedResult(s, f)])]

TypeOK ==
  /\ stage \in {"tuning", "voting", "saving", "done", "down"}
  /\ lock \in 0 .. Main
  /\ lock = Free <=> writing = {}
  /\ \A w \in Workers : pc[w] \in {"fetch", "lookup", "search", "upsert",
                                   "slot", "save", "write", "exit"}
  /\ DOMAIN slots \subseteq targets
  /\ store.flags \in Flags \union {NoFlags}

(***************************************************************************)
(* The store a run leaves does not depend on how many workers made it, on  *)
(* how they were interleaved, on saves that failed, or on crashes, unless  *)
(* one was followed by a run that began with a file cut short; but         *)
(* only_non_bit_exact searches near misses again, those of before the      *)
(* crash too, seeded with what was found then.  The file is that store if  *)
(* the last save wrote it all.  If that save could not open the file, the  *)
(* next run finishes the work: from the older file it makes the same.      *)
(***************************************************************************)
ScheduleIndependent ==
  stage = "done" =>
    /\ saved = "whole" => file = store
    /\ ~lost /\ (OnlyNonBitExact => crashes = 0) => store = Tuned(origin)
    /\ saved = "older" /\ ~lost /\ ~OnlyNonBitExact => Tuned(file) = Tuned(origin)

(***************************************************************************)
(* A run on a module whose functions are all cached changes nothing: its   *)
(* flags are those its own entries vote for.                               *)
(***************************************************************************)
Settled == stage = "done" /\ (\A f \in Extractable : Hit(store, f))
             => Tuned(store) = store

(***************************************************************************)
(* A bit-exact recipe that matches its function is never replaced: a live  *)
(* process keeps it, whatever only_non_bit_exact asks to search again.     *)
(***************************************************************************)
KeepsExact ==
  [][stage # "down" =>
       (\A f \in Fns : Fresh(store, f) /\ store.entries[f].exact =>
          store'.entries[f] \in {store.entries[f],
                                 [store.entries[f] EXCEPT !.here = TRUE]})]_vars

(***************************************************************************)
(* The run ends, however often it is interrupted.                          *)
(***************************************************************************)
Terminates == <>(stage = "done")
=============================================================================
