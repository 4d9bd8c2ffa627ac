# rom-nom-nom in TLA+

`rom-nom-nom` takes Nintendo 64 ROMs apart and puts them together again: it
splits a ROM into segments, lifts machine code to C, searches for the compiler
flags and the C text that reproduce each function, proves candidates
equivalent by running both versions in an emulator, and rebuilds the ROM. This
directory holds TLA+ models of the parts where the order of things matters,
the TLC configurations that check them on small instances, and theorems about
them that TLAPS checks for every instance.

1. [The system](#1-the-system)
2. [Modules and the code they model](#2-modules-and-the-code-they-model)
3. [Runs](#3-runs)
4. [Fairness](#4-fairness)
5. [Theorems](#5-theorems)
6. [Where the code and its documentation
   disagree](#6-where-the-code-and-its-documentation-disagree)
7. [What is not modelled](#7-what-is-not-modelled)
8. [Plan](#8-plan)

To check a run, `tlc -config X.cfg M` with the module and configuration of the
table in section 3; to check the proofs, `tlapm M.tla` on the `_proofs`
modules. `PROJECT.json` lists components, runs, hazards and theorems, and maps
each definition to the lines it models.


## 1. The system

Everything runs in one process per command; commands share files. Only the
tuner and the equivalence checker start threads, everything that compiles,
assembles or links starts processes, and the game's main thread is interrupted
by its vertical-blank (retrace) callback.

| component | state | operations | it is correct when |
|---|---|---|---|
| equivalence runner, `fuzzer/equivalence_runner.*` | the verdict of each target; two atomics, `next_target_idx` and `first_divergent_idx` | `EvaluateModule` (one thread or a pool), `EvaluateFunction` | the pool's summary is what one thread would have produced, early stop included |
| differential fuzzer, `fuzzer/differential_fuzzer.*` | two emulators that outlive each vector and each function | `RunBattery`, `EvaluateComparison`: set up, run, retry, compare, roll back, clear | vectors and functions do not see one another; equivalent functions are accepted, differing memory is noticed |
| MIPS emulator, `fuzzer/mips_emulator.*` | registers, memory, program counter, delay-slot flags, call log, write log | `RunFunction`, `Step`, `RollbackWrites` | its flags do what a processor with delay slots does; every run comes back |
| function tuner, `tuner/tuner_pipeline.*`, `candidate_scorer.*` | the best candidate, its score and its recipe; visited recipes; improvement flags | `SearchFunctionCandidates` in phases, `TuneLoadedFunctionAst` | the recorded recipe reproduces the winner, and no candidate seen was better |
| module tuner and cache, `tuner/tuner_pipeline.*`, `tuning_cache_store.*`, `core/game_config.cc` | cache entries, module flags, the cache file, results per function | `TuneModule` with workers, checkpoints, the vote; load, look up, upsert, save | the store does not depend on the schedule or on a crash; exact recipes survive |
| processes, `core/process.*` | three pipes, one child, its process group | `RunProcess` | all output is captured, launch failures are reported, timeouts kill the group, nothing leaks, it returns |
| dominators and loops, `lifter/dominator_tree.*`, `loop_analyzer.*`, over `core/control_flow_graph.*` | the order of blocks, immediate dominators, loops and their nesting | `Compute`, `ComputePostDominators`, `Dominates`, `LoopInfo::Analyze` | the trees say what the paths say; loops are the natural ones |
| stages, passes and analyses, `lifter/inverse_compiler_pipeline.*`, `decompilation_context.*`, `cfg_analysis_manager.*`, `*_pass_pipeline.*`, `cfg_de_reorg.*` | the context of one function: its graph and RTL, the cached frame layout, an analysis cache per graph, iteration counts | fourteen stages, passes over the graph or a copy of it, fixpoint drivers, invalidation | no pass or stage reads a fact of an older graph; the lifter stops |
| lifter, everything else under `lifter/` | RTL and C syntax trees | rewriting passes | semantics are preserved (section 7) |
| core, the rest of `core/` | ELF files, relocations, ROMs, decoders, syntax trees | parse, relocate, decode, compile | sequential functions of their input |
| splitter, builder, differ | segments; commands to run; two instruction sequences | cut a ROM, build one, compare two | sequential |
| game frame, `src/c/harvest-moon-64/` `main.c`, `dma.c`, `display.c`, `nugfx.c` | `g_vsync_flag`, frame counters, callback table, DMA requests, render entries | `MainLoop`, the retrace callback, `WaitVsyncFrames`, `DmaQueueTransfer`, `RenderAddEntry` | a draw shows a whole scene, transfers are made once and in order, dropped frames are reported, frames go on |
| game sound and time, `audio.c`, `sound.c`, `time.c` | channels and voices with a flag per pending start or stop; clock and calendar; event flags of the day | `AudioUpdate`, `SoundPlay...`, `SoundFadeBgm`, `TimeUpdate`, `TimeSleep` | no sound is left that cannot be stopped; the calendar agrees with itself; the evening's music starts |
| the rest of the game | messages, layers, camera, graphics data | called from assembly that is not in the repository | section 7 |

How they interact:

- The tuner compiles candidates through the toolchain, which calls
  `RunProcess`; several workers may be forking at once.
- The tuner asks the differential fuzzer about a winner that improves on the
  baseline and is not an exact match of the bytes
  (`CandidateScorer::VerifyEquivalence`). The equivalence runner asks the same
  fuzzer about every target that the fast pass does not settle.
- The fuzzer owns two emulators and calls them; what one call leaves behind is
  the input of the next.
- Workers of `TuneModule` share the cache store and the cache file, both under
  one mutex, `cache_mutex_`; checkpoints are written while others search. The
  next start of the tuner reads the file. A save that fails tells nobody:
  `TuneModule` drops its status, and the stream is not checked after the
  write.
- The lifter asks the analyses for dominators and loops; passes change the
  graph that those were computed from. Two stages keep two graphs at once, the
  context's and a copy, each with its own cached analyses.
- In the game one global, `g_vsync_flag`, hands the frame to and fro between
  the main thread and the retrace callback, with no lock. The main thread adds
  render entries, the callback draws and clears them. Everything else happens
  in the main thread's frame: the game's code, the clock, `AudioUpdate`, the
  DMA queue.
- The clock changes the music in the evening by asking a channel to fade and,
  some frames later, to play; the sound library, in its own time, ends fades.

What is hard here: weakly ordered atomics in the pool; a retry that starts
from what the first try left; rollback and clearing in the right order; a
search that keeps its best score, its recipe and its AST in different
variables through seven phases; a cache shared by workers and by successive
processes, one of which may die while it writes, and whose saves may fail;
three pipes, four processes and a timeout; a delay slot whose flags the next
instruction overwrites; fixpoints whose first values are wrong and must be
corrected; references to cached analyses held while the graph under them
changes; a frame drawn from an interrupt while the next one is built; requests
to a sound channel that come before its sound has started or after it has
ended. `PROJECT.json` lists each of these as a hazard at its line, with the
properties that would catch it going wrong.


## 2. Modules and the code they model

### EvaluateModuleSpec, EvaluateModulePool

`EvaluateModuleSpec` is the promise of `EquivalenceRunner::EvaluateModule`:
one summary, delivered once, with the verdict of every target in order, cut
after the first divergent one when `stop_on_first_divergence` is set. It has
one action.

`EvaluateModulePool` is the code. `Start` learns the hardware's concurrency,
any value of the constant of that name and 0 for unknown, and chooses the
number of threads and the branch as lines 416-447 do; `SequentialStep` and
`SequentialEnd` are the loop; each worker has a program counter over `Fetch`
(take an index), `Check` (skip it?), `Evaluate`, `Load` and `Cas` (lower
`first_divergent_idx`, with the retry on failure); `Join` builds the summary
from what the workers left. A thread that was never created stays at `"none"`.
A target is one of four kinds, which is all its verdict depends on.

Both atomics are accessed with `memory_order_relaxed`. `fetch_add` is a
read-modify-write and always acts on the newest value. `first_divergent_idx`
is also *loaded*, and a relaxed load may return an older value: `hist` keeps
all values it has held, `view[t]` the newest that thread `t` has seen, and a
load returns any value from there on (coherence, and nothing more).
`compare_exchange_weak` may fail spuriously.

### TunerSearch

One function's search. An AST is the sequence of mutation steps that makes it
from the baseline, `Emit` maps a recipe to the text the emitter would print
(two recipes may collide), and a score is a number whose largest value is a
bit-exact match. What compiling a text under a flag profile scores is chosen
when it is first asked for and remembered (`Answer`), so the compiler is a
function but any function. The stages are those of the code: baseline, flags,
presets, rounds with runners-up and the lookahead over pairs, polish rounds
with cross flags, and the resweep; `Record` is the part of
`TuneLoadedFunctionAst` that asks the fuzzer, falls back to the baseline when
the answer is no, and builds the cache entry. The order in which a loop visits
its candidates is left open.

### TunerModule

`TuneModule` with its workers, the store, the file and the process that may
die. A worker's steps are `Fetch`, `Lookup` (with `Ask`) and `Upsert` under
`cache_mutex_`, `Search`, `Slot` (its result and the count of live ones),
`CheckpointOpen` and `CheckpointWrite`, which hold the mutex between them.
Then `Vote`, `FinalOpen`, `FinalWrite`. A search is a table from (function,
base flags, seed) to what it finds, which is what `TunerSearch` gives for one
function; the seed is the cached recipe and flags, which the search tries
among its presets. Functions outside `Extractable` are not found in the ROM
and get no target.

A save has two halves. The first makes the text and opens the file, which
truncates it (`Open`); it may fail, and then the file is left as it was
(`OpenFails`). The second writes; the stream is not looked at, so that a part
of the text may be all that arrives (`Write`, `CutShort`). Either way the run
goes on and ends as if it had been saved, as in the code, where the status is
dropped. `Crash` may happen at any point, and between the halves it too leaves
the file cut short; `Restart` loads what is there. The history variable
`saved` says what became of the last save: the file is `"whole"`, `"older"`
than the store because it could not be opened, or `"cut"`.

Two cases are exempt from what is promised after a crash. When the run that
follows it begins with a file cut short (`lost`), the recipes that were cut
off are gone, and seeds with them. Near misses that `only_non_bit_exact` tunes
again are seeded by the first search's result in the second.

### RunProcess

The parent follows `RunProcess` step by step: fork, close the write ends, the
exec handshake over a close-on-exec pipe, the poll loop, one read per stream,
the timeout with `kill(-pid)`, and the two `waitpid`s. Around it are the
child, a grandchild that inherits the pipes (a compiler driver and its `cc1`)
and a stranger: another worker's fork, taken between `pipe2` and `close`,
which holds copies of every descriptor until it execs. What they do is
external. Which processes may hang, or close their outputs and go on, is the
constant `Worlds`. Output is counted in pieces; a pipe holds `Capacity` of
them.

### FuzzBattery

`RunBattery` over two emulators. A function is what its run does: a value that
tells apart everything it can read, some stores, whether it calls, how it ends
(`Ends`: it returns, faults, overflows, traps or meets an invalid opcode) and
how long it takes (`Paces`: within `max_steps_per_run`, within the five times
as many of the retry, or more, so that the retry runs out too). `Compared`
never accepts an invalid opcode, even if both functions meet one. Memory has
one cell of each kind the code treats differently: code,
initial data, the payload behind a pointer argument, the stack, the heap.
`Setup`, `Run`, `Retry`, `Compare`, `Rollback`, `Clear` and `Finish` follow
`EvaluateComparison` and `RunBattery` in their order; `BeginFails` is the load
error. The write log holds previous values and `RollbackWrites` restores them
newest first. (The comment at `mips_emulator.h:115-116` says the written
memory is "zeroed out"; the code restores what was there, and so does the
model.)

### MipsPipeline, MipsEmulator

`MipsPipeline` is the abstract processor: two program counters, `pc` and
`npc`; the instruction after a branch runs before the branch arrives; a likely
branch not taken passes its slot over. `MipsEmulator` is `Step` and
`RunFunction`: one program counter and six fields about the delay slot
(`in_delay_slot_`, `delayed_branch_target_`, `delay_slot_is_return_`,
`delay_slot_is_call_`, `delay_slot_is_indirect_call_`, `call_link_reg_`) that
every kind of branch sets, that `Step` copies before the instruction runs, and
that calls answered by the fuzzer go through. `Pipeline == INSTANCE
MipsPipeline WITH ...` states the refinement mapping: where `npc` is, given
the flags.

The instruction set is what control depends on: plain words, loads of a
register that is jumped through, branches (likely, and-link), `j`, `jal`,
`jr`, `jalr`, `eret`, traps and invalid words. Memory is arbitrary, so every
fetch may find any word: a run covers every program. `jalr` with `$v0` or
`$v1` as its link, and the difference between `break` and `syscall`, are left
out.

### DominatorTree, LoopInfo

`DominatorTree` runs the two depth-first searches (`Descend`, `Finish`),
builds the reversed graph with its root (`ReverseRoot`: the one exit, a
virtual node after several, or in a function that never returns the last
reachable block), and then passes over the blocks in reverse post-order
(`Visit`, `PassEnds`) until nothing changes. `Intersect` is the walk of the
two fingers, and `Visit` folds it over the predecessors that have a parent
(`Known`). `LoopInfo` extends it with what `LoopInfo::Analyze` computes from
the finished tree: headers, latches, lone-jump trampolines replaced by the
branch before them, the blocks of each loop, nesting and depth; `Branches` are
the blocks that end in a branch, whether it goes to two blocks or has lost
one. Both are compared with what the paths of the graph say: a block dominates
another when no path avoids it (`Reach`, the nodes that a set of edges leads
to), the frontier of a block holds the joins at which its dominance ends, and
a loop is the set of blocks that reach its latch without its header.

Blocks that cannot be reached keep their edges in the model. The builder of
the graph prunes them, but the passes of `cfg_de_reorg` leave such graphs
behind before they ask for the analysis again.

### DecompilationPipeline

`InverseCompilerPipeline::Run`: fourteen stages over one
`DecompilationContext`. `FinalAndGas`, `SkipStage`, `DbrDelaySlot`,
`Jump2CrossJump`, `RtlStage` and the steps of the last stage are the stages;
`BuildCfgFails` and `RegionsFail` their error returns. Stages 1 and 2 run
passes over the context's graph and over a copy (`BuildStage1Pipeline`,
`PreCrossJump`, `CrossJump`), and `Lift` is what they do afterwards.

What a pass rewrites is left out: a sweep may change the graph or not. What is
kept is who caches what, and when it is thrown away. A cached dominator tree,
postdominator tree, loop forest or frame layout is known by its age: `"none"`,
`"now"` (of the graph as it is), `"sweep"` (of the graph as it was earlier in
the present sweep), `"old"`. `FetchAnew` and `Fetch` are the getters of
`CfgAnalysisManager`, which compute only what is not cached, and loops from
whatever dominators are; `GraphChanges` ages what is cached, and `EndSweep`,
`EndPass` and `InvalidateAll` throw it away where the code does. A pass goes
on holding its references while it changes the graph within a sweep: that is
the code's intention, and `AnalysesCurrent` says how far it may go.
`AstIteration` is the driver of the two groups of syntax tree passes.

### GameLoop

The main thread has a program counter: it starts, waits for the system
(`WaitForSystemReady`, `SeeRetrace`), and then runs frames (`BeginFrame`,
`ReturnFromCallback`, `ProcessQueue`, `FinishFrame`). `Retrace` is
`UpdateFrameCounterAndTicks`: it draws if a frame is finished, begins the
next, and keeps the second. Frames and draws each have a rate, the retraces
that `g_audio_enable_flag` and `g_system_sub_state` ask for; `FrameSlot` and
`DrawSlot` are the retraces at which one may happen, and `g_dialogue_state`
and `g_scene_transition_flag` count those that did. At the end of a second
`UpdateFrameTiming` and `UpdateGraphicTiming` compare the counts with the
rates, both writing `g_frame_drop_flag`, 1 for frames and 2 for draws. (The
two variables that keep the counts of the last second are only stored, and
are left out.) The callback runs on the graphics thread, which outranks the
main thread, so it is one step between any two of the main thread's; the main
thread's own steps are cut wherever it reads or writes what the callback also
does. The callbacks that the loop runs are assembly in this repository: while
one runs, and while the frame's updates run, the operations of `main.c`,
`dma.c` and `display.c` are called in any order (`SetLoopCounter`,
`UseRegistry`, `QueueTransfer`, `RenderAddEntry`, `WaitVsyncFrames`).
`MainShutdown` is the reset button.

`prompt` says, until the game has started, whether the main thread polls
between any two retraces, as it does when nothing else keeps it busy; both
kinds of behaviour are checked. `accepted`, `scene`, `missed`, `undrawn`,
`since` and `asked` are history variables: they record what was asked for, and
no action's guard reads them.

### GameAudio, GameTime

`GameAudio` is `audio.c` and `sound.c`. A slot (channel or voice) has the
three flags of the code: in use, start pending, stop pending. `AudioUpdate`,
once a frame, turns pending starts and stops into calls of the sound library
and frees the slots whose sound is not heard any more. The library is
external: it gives each sound a new handle (`NewHandles`) or refuses it, and a
sound ends when it is stopped, when its fade is over (`FadeEnds`), or by
itself at any time (`SequenceEnds`).

`GameTime` composes it with `time.c`. `TimeAdvance` carries seconds into
minutes, hours and days (`AdvanceCalendar`), `TimeSleep` begins a day early,
and `TimeUpdate` fades the day's music out at dusk, plays the night's when the
channel is silent, and fades that at midnight, each guarded by an event flag
of the day. `days` is a history variable that only counts.


## 3. Runs

| run | configuration | bounds | shows |
|---|---|---|---|
| pool_stop | MCEvaluateModulePool, MCPoolStop | 3 targets of every kind, hardware concurrency 0 or 3 | the pool and the sequential branch deliver the sequential verdicts with early stop; nothing below a divergence is lost; it ends |
| tuner_search | MCTunerSearch | 2 steps, 2 profiles, 2 rounds, 1 polish round | recipe, best score, entry and improvement flag agree through every phase |
| tuner_module | MCTunerModule | 4 functions (one not in the ROM), 2 workers, 1 crash, saves that fail or are cut short, 3 caches, 3 modes | the store is the one an uninterrupted thread makes, and the file holds it if the last save wrote it |
| process_returns | MCRunProcess | pipe of 1 piece, up to 2 per stream | everything captured, reported, killed and closed; it returns |
| process_detached | MCRunProcess, MCRunProcessDetached | a process that closes its outputs and hangs | violation, see section 6 |
| fuzz_battery | MCFuzzBattery | 2 vectors, 5 cells, 2 stores, 5 ends, 3 paces | no vector or function sees another; no false alarm; memory is compared |
| fuzz_calls | MCFuzzBattery, MCFuzzCalls | slow functions that call | violation, see section 6 |
| mips_emulator | MCMipsEmulator | 3 words of code, 4 steps, 2 runs | the emulator implements the processor; every run returns |
| dominators | MCLoopInfo | graphs of 4 blocks | trees, frontiers and loops are those of the paths; the passes end |
| lifter_stages | MCDecompilationPipeline | the code's own: 4 and 64 sweeps, groups of 3 and 4 | no fact of an older graph is read; the lifter ends |
| game_frame | MCGameLoop | seconds of 3 retraces, frames and draws every 1 or 3, counters modulo 3, 2 callbacks, 2 requests, 2 entries, waits of up to 2 frames | frames, transfers, draws and drops are what the callbacks asked for; frames go on |
| game_sound | MCGameTime | 2 channels, 2 voices, 2 tracks, 3 effects; days of 4 hours, weeks of 3 days, seasons of 2, 2 seasons, years numbered up to 1 | sounds are owned, the calendar agrees, the evening's music starts, fades end |

The properties of each run, in the code's terms:

- **pool_stop**: `EvaluatedOnce`, no target is evaluated by two workers;
  `NothingSkippedBeforeFirst`, whatever stale value a worker decides on,
  nothing below a published divergence is skipped; `ImplementsSpec`, the
  refinement, for both branches; `Terminates`.
- **tuner_search**: `RecipeReproduces`, replaying base, mutations and flags
  gives the winner; `EntryWasMeasured`, the score in the cache entry is the
  score of the entry's recipe, after a rejection by the fuzzer too;
  `WinnerIsBest`, no answer of the compiler was better than the best score,
  and the improvement flag is set exactly when it beats the baseline;
  `Terminates`.
- **tuner_module**: `ScheduleIndependent`, the store is `Tuned(origin)`, what
  one thread makes of the store the run began with, whatever the schedule, the
  crashes and the saves that failed, unless a run began with a file cut short;
  the file holds the store if the last save wrote it all; if that save could
  not open the file, the next run makes of the older file the same store;
  `Settled`, a second run on a module whose functions are all cached changes
  nothing; `KeepsExact`, no step replaces a bit-exact recipe; `Terminates`.
- **process_returns**: `OutputComplete`, an exit status comes with every byte
  written; `LaunchReported`, "not found" is returned exactly when the program
  was not started; `TimeoutKillsGroup`; `NothingLeaks`, no descriptor and no
  zombie; `Returns`.
- **fuzz_battery**: `RunsStartFresh`, a run, a retry included, starts from the
  vector and the initial memory and from nothing an earlier run left;
  `NoFalseAlarm`, two functions that do the same are never divergent, even if
  one is slow, with two exceptions: both meet an invalid opcode, which the
  code never accepts, or one runs out of the retry's steps too where the other
  needs few (`TooSlow`); `FinalMemoryCompared`; `BatteryLeavesNothing`.
- **mips_emulator**: `ImplementsPipeline`; `Returns`.
- **dominators**: `DominatesEveryPath`, for both trees and every pair of
  blocks; `FrontierOfJoins`, for every block with two or more predecessors;
  `LoopsAreNatural`; `PassesEnd`.
- **lifter_stages**: `AnalysesCurrent`, what a pass holds is of the graph its
  sweep began with, and a stage that reads the frame reads the present
  graph's; `Terminates`, though passes may undo each other's changes.
- **game_frame**: `TypeOK`, whose part that matters is that no null callback
  is called; `DropsReported`, the end of a second leaves 1 in the drop flag if
  a retrace of it that could have begun a frame found the last one unfinished,
  else 2 if one that could have drawn did not (a frame unfinished, or too many
  graphics tasks pending), else what was there; `DrawsWholeScene`, no half of
  a scene and no entry of an earlier one is drawn; `TransfersMade`;
  `SkipsDivisorFrames`, a callback that asked for `n` runs again `n` frames
  later, and 0 means the whole range of the counter; `FramesGoOn`.
- **game_sound**: `SoundsAreOwned`, each sound that is heard belongs to one
  slot that can stop it; `OwnVolume`, a voice does not play at the volume of
  what it played before; `CalendarAgrees`, weekday, date, season, year and the
  season of tomorrow count the same days, but for the year shown, which stands
  still at the last; `NightMusicStarts`, when the flag
  says the night's track was started, it was; `FadesEnd`.

Why the bounds are enough. Three workers over three targets are the fewest in
which one publishes a divergence, one holds an older view and one is between
its load and its exchange. Two steps and two profiles give colliding recipes,
a runner-up and a lookahead pair that beats both steps; the presets and the
previous flags add the remaining sources of candidates. Two workers and the
three functions that the ROM has let one worker checkpoint while the other
upserts and leave one function untuned at a crash; `CheckpointEvery` is 1
instead of 25, so that a checkpoint can happen between any two results. A pipe
of one piece and two pieces of output block a writer on each stream in turn.
Two vectors and two stores are the fewest for a store that a second store
covers, and for a vector that could see the one before. Three words of code
and four steps hold a branch, its slot, its target and one instruction after;
two runs show whether a run cut off in a slot disturbs the next. The graphs
are all those whose blocks end in a return, a jump, or a branch that may fall
through to the next block, and one of them in a jump table: they include
irreducible ones, nested loops, several exits, none, and loops from which none
is reached.

A second of three retraces holds three frames or draws at the faster rate, of
which any may be left out, and one at the slower, and the two rates are chosen
apart; counters modulo 3 wrap within a callback's wait; two requests
and two entries are full after two calls, and an entry left over from a frame
of two is seen in a frame of one. Two voices are the fewest for an effect that
finds one of them taken. In `game_sound` the music is played while time passes
and effects while it stands still (`PlaySounds`), which keeps the two halves
of the sounds apart: they share only `AudioUpdate`, and both halves are in
both. Weeks, seasons and years of different lengths roll over on different
days and on the same one. A year of four days is not one of whole weeks of
three, as the game's of 120 is not one of weeks of 7 (both leave a remainder
of one), so that the weekday of a date drifts from year to year. The number of
the last year stands still; the count of days goes back by as many years as a
week has days, which are whole weeks in any calendar.

Deadlock is checked in `fuzz_battery` and `game_sound`, which go on for ever;
the other runs model calls that return, and their stopping is stated as
`Terminates`, `PassesEnd` or `Returns`, or a machine that is shut down.


## 4. Fairness

- **Pool**: weak fairness of the caller and of each worker, since the
  operating system schedules every thread. `Cas` also has strong fairness: the
  standard lets a weak exchange fail spuriously, but not for ever, and a value
  stored becomes visible in finite time, so a worker that retries in the end
  decides on the newest value.
- **Search**, **dominators**, **lifter**: one thread, weak fairness of `Next`
  (`TreeNext` in DominatorTree).
- **Module tuner**: weak fairness of each worker and of the main thread; the
  user starts the tuner again after a crash. Crashes have none.
- **Processes**: the parent, the clock and the stranger's exec are weakly
  fair, and so are the writes of a process that can write. An exit is fair
  only where the process may not hang.
- **Emulator**: weak fairness of `Step` and of running out of steps.
- **Game loop**: retraces keep coming while the callback is installed, the
  main thread's own steps are weakly fair, and the game's code returns from a
  callback that is run again and again (strong fairness: it waits and goes
  on). What `FramesGoOn` needs besides is `prompt` until the game has started:
  without it the poll of `WaitForSystemReady` may miss, each second, the one
  tick at which the flag is up. Once it has started nothing is assumed of how
  soon the main thread runs.
- **Game sound**: frames go on, so `AudioUpdate` is weakly fair, and the
  library finishes its fades.


## 5. Theorems

The proofs for a module `M` are in `M_proofs`; those of EvaluateModulePool and
FuzzBattery, the two parts of the fuzzer, in `Fuzzer_proofs`; those of
DominatorTree, LoopInfo and DecompilationPipeline in `Lifter_proofs`. Each
rests on the `ASSUME` of `M` and on nothing else, unless the theorem says so,
and TLC evaluates that assumption in every run of `M`.

**EvaluateModulePool.** For every number of targets and of threads asked for,
every set of values the hardware may report and either value of
`stop_on_first_divergence`. The assumption is `PoolConstants`. The
inductive invariant `IInv` says what the shared variables say of one another
(`SharedInv`), what a worker knows at each place (`WorkerInv`), and what holds
of the pool, of the sequential branch and at the end (`PoolInv`,
`SequentialInv`, `DoneInv`). The parts that matter are `Covered`, every index
handed out is evaluated, held by a worker, or not below a published
divergence; `Noticed`, every divergence found is published or its worker is
about to publish it; and `Distinct`. No property is inductive alone: a worker
skips on a value that may be stale, which is safe only because every value
`first_divergent_idx` has held is at or above the newest one. From it follow
`TypeCorrect`, `EachEvaluatedOnce`, `NothingSkipped`, `NoDefaultResult` (a
slot that was never filled in reads as an exact match and must not reach a
summary), `FirstOnlyDescends`, and `Implementation`: both branches implement
`EvaluateModuleSpec`.

**TunerSearch.** For every set of steps, flags and presets, every emitter and
every bound. `RInv` says that while a round runs `applied_mutations` is the
recipe of the AST the round started from and that every candidate and
runner-up extends it, and that a flag sweep leaves the AST alone; `Recipe`
follows. `ScoreInv` says that the best score is at least every answer the
compiler has given, and with what the improvement flag records it gives
`Winner`, that is `WinnerIsBest`. `MeasuredInv` says that the best pair, and
the baseline that a rejection falls back to, have been given the scores they
are kept with, and that an answer once given stands; with `RInv`, which ties
the recipe in the entry to the AST that was scored, it gives `CacheEntry`. The
assumption is `SearchConstants`.

**TunerModule.** For every number of functions and threads, every table of
what the searches find and every cache to begin with. The assumption is
`ModuleConstants`. The inductive invariant `AllInv` has four parts.
`ModuleInv`: a function below `next` has its result or is held by exactly one
worker. `ExactInv`: a function that is being searched has no bit-exact entry,
so what a search puts into the store replaces none; it gives `ExactIsKept`.
`OutcomeInv`: unless a run began with a file cut short, each entry in the
store, and in the file if it is not cut, is *midway*, the one the run began
with, that one brought up to date, or the one it will end with; and what each
worker holds is what one thread would have looked up or found. Since entries
only move forward, a run that goes on after a crash from a midway file ends
where the first would have, and so does one that begins with an older file.
`FileInv` ties the file to the store at the end, if the last save wrote it
all. `OneOutcome`, the promise of the cache, needs in addition that the vote
of the workers' results is that of the one thread: the lemmas on the vote
(`VotesCount`, `WinnerExists`, `OneWinner`, `SameVote`) say that it has one
winner, whatever order the results came in. `NothingLeftToDo`, that is
`Settled`, has an invariant of its own, `SettledInv`: each result stands for
the entry it was made from, and the flags of the store are those the vote
would choose.

**RunProcess.** For every pipe capacity, amount of output and behaviour of the
processes. The assumption is `ProcessConstants`. `PInv` is `Conserved`,
captured plus held equals written for each stream, and `Reading`, a stream is
closed only when it has ended (nothing held, no writer), and one that poll has
reported stays readable until it is read; `Complete` is `OutputComplete`.
`HInv` relates the place of the parent to everything else: a child that has
not called exec yet holds the error pipe, so that the end of that pipe tells
the parent there will be no errno (`Launching`); which descriptors are open
where (`Closing`); and what a result says of the child and the group
(`Returning`). With `PInv` it is inductive, and gives `LaunchIsReported`,
`GroupIsKilled` and `LeaksNothing` for every path out of `RunProcess`, the
failing ones included.

**FuzzBattery.** For every number of vectors and stores, and every choice of
the cells that functions store to. The assumption is `BatteryConstants`. The
inductive invariant `BatteryInv` has `MemoryInv`: where `RunBattery` is
between a run and its rollback, the memory of each emulator is the given one
with the stores of the last run on top, and the log is that run's; elsewhere
the memory is the given one but for what is known to stay (the stack, the
code) and the log is empty. `RegistersInv` and `EntryInv` say the same of the
registers and of what the last run started from; `EndInv` says that after the
retry, if functions make no call and neither is `TooSlow` for the other,
either both used up their steps or both ended as the function does. The lemma
behind all of them is `RollbackRestores`: undoing a log, newest store first,
gives back the memory the stores were made over, a cell stored to twice
included. From it follow `EachRunIsFresh` (`RunsStartFresh`), `NothingIsLeft`
(`BatteryLeavesNothing`) and `BatteryTypeCorrect`. Two theorems have
hypotheses on the constants. `NoAlarmIsFalse` (`NoFalseAlarm`) holds of
functions that make no call, since `fuzz_calls` shows that it fails of others;
what it says of an invalid opcode and of functions too slow for a retry is the
property's own exception. It and `MemoryIsCompared` (`FinalMemoryCompared`)
are about emulators that were both, or neither, given the function's data;
where one has data that the other lacks, functions that do the same may return
different values (a false alarm that is the caller's), and functions that
return nothing may leave different data untouched. Logs may also match as
lists compared without their order, and the lemma `SameValues` says that two
lists that are as long, and in which each value of the first is as often, have
the same values.

**MipsEmulator.** For every memory, code range, interception mode, step limit
and number of runs. The inductive invariant is type correctness and
`FlagsInv`, which says what the flags are where: `Clear` outside a slot; in
one, `Pending`, the transfer before it goes somewhere (`Going`) or returns
(`Returning`) and the flags say which. `Implementation`: under the refinement
mapping every step of the emulator is a step of the processor or a stutter.

**DominatorTree, LoopInfo.** For every number of blocks and every set of
graphs on them: irreducible ones, with dead blocks, parallel edges, several
exits or none, and both ways. The assumptions are `TreeConstants` and
`JumpsAreBlocks`. `Reach` is first shown to be the least set that holds where
it starts and is closed under the edges (`ReachIs`), and everything said of
paths is proved from that. The inductive invariant `TreeInv` has three parts.
`Search` is about `dfs`: the stack is a path from the root without repetition,
every successor of a finished node has been seen, and every finished node but
the root is a successor of a call in progress or of a node finished later. So
in the end the order holds what the root reaches, and each node but the root
has a predecessor that a pass visits before it. While passes run, `idom` is a
tree (`IsTree`): each parent is finished later than its child, and so the
nodes above one form a chain that ends at the root; on such a tree `Intersect`
climbs to the lowest common ancestor of two nodes, and its fold over the
predecessors to that of them all (`FoldedMeets`). `Complete` says what a visit
may never lose: a node on all paths to `n` is on all paths to `n`'s parent,
and is therefore above `n`, although predecessors may still be unknown, or too
low in the tree. When a pass has changed nothing (`Settled`) each parent is
above all predecessors, and then no path avoids a node above `n`
(`AboveIsOnEveryPath`). This gives `TreeDominatesEveryPath`; for
post-dominators it is about the reversed graph and its root, made up or not,
and is carried over to the paths of the function itself. `TreeFrontierOfJoins`
follows from it: the walk from a predecessor to the join's parent meets what
dominates the one and does not strictly dominate the other.
`TreeLoopsAreNatural` needs in addition that a trampoline adds nothing to a
loop but itself; that what leads to a latch without the header is dominated by
the header; that of two loops that share a block one header dominates the
other, whose loop lies inside; and that the loops around a block therefore
form a chain, along which the depth counts. `TreeTypeCorrect` is `TreeTypeOK`:
among others, `dfs` is in no node twice.

`TreeOnlyClimbs` says why the passes end: a block's immediate dominator is
only ever replaced by a node that was above it, so chains only get shorter.
`ClimbInv` makes it so: `Joined`, every common ancestor of the known
predecessors is above the block's present parent or is it, and `Ahead`, which
is about the order of visits: what is above the parent of a block still to be
visited, and is itself still to be visited, is above each predecessor that
comes earlier in the pass. Without the second, a block visited early could
leave a later one with an ancestor that its predecessors have lost.

**DecompilationPipeline.** For every number of sweeps and all groups of syntax
tree passes. `PipelineInv` says which passes a stage has left (`WorkInv`: the
pass that drops blocks without a report is the last on its graph), which stage
and place go together (`StageInv`), what a pass holds (`PassInv`), and for
each graph that will be looked at again that its cache is fresh or is of the
sweep that runs (`CacheInv`). The last is the point: the cache of the copy is
left stale by that pass, which is safe only because no pass after it asks.
`AnalysesAreCurrent` follows. The assumption is `PipelineConstants`.

**GameLoop.** For every two rates, of frames and of draws, that divide the
second, every queue length, divisor and counter width. The invariant has one
part for each piece of state, and each part is kept by a lemma: `ClockInv`
says that the slots for frames since the second began are the frames begun and
missed, and the slots for draws the draws made and left out, each slot as many
retraces after the one before as its rate says (`RetraceCounts`). A full
second therefore has as many of each as the code divides it into
(`FullSecond`), which gives `DropsAreReported`; `DmaInv` says
that the requests lie in the order in which they were accepted, without a gap,
from the start of the queue, and `RenderInv` that the scene is the last of the
entries in use and that those before it have been drawn; with `PresentIs`,
what is read from an array that is filled between two indices, they give
`TransfersAreMade` and `WholeScenes`. `SkipInv` says that the frames since a
callback ran and those still to skip make up what it asked for, and gives
`FramesAreSkipped`. `TypeCorrect` is `TypeOK`, with its null callback. The
assumption is `LoopConstants`.

**GameAudio, GameTime.** For every length of week and year and every number of
seasons of more than a day, the game's own calendar (weeks of 7 days, 4
seasons of 30) included, and all numbers of slots, tracks and effects.
`CalendarInv` says that the number of days is the year, season and date read
as the digits of a number, and with what `Tomorrow` holds it is inductive. Its
year is counted on past the last one the code shows; that years as many as a
week has days are whole weeks (`WholeWeeks`) keeps the weekday right when the
count goes back. `CalendarHolds` is `CalendarAgrees`. `SoundInv` says that
each sound is in a slot and that no two slots share a handle; the library's
handles suffice (`EnoughHandles`), and `EverySoundOwned` follows. `VolumeInv`
says that a voice in use has the volume of its own effect, a start that is
still pending included, and gives `VolumeIsOwn`; `EveningMusic` is the action
property `NightMusicStarts`. The assumptions are `TimeConstants` and
`AudioConstants`.

Only TLC checks the liveness properties (`Terminates`, `PassesEnd`, `Returns`,
`FramesGoOn`, `FadesEnd`), since liveness under fairness is out of the
prover's reach, and the violations of section 6, which are counterexamples.
Where a proof above needs the least of some numbers it takes it from the fact
that they are well founded, and needs no induction of its own.


## 6. Where the code and its documentation disagree

- `process_detached`: `core/process.h:68` says that `RunProcess` returns an
  error if the process timed out. The last `waitpid` (`process.cc:223`) has no
  timeout: a process that closes both outputs and runs on holds it for ever.
- `fuzz_calls`: the retry after a run out of steps
  (`differential_fuzzer.cc:335`) does not reset `$ra`, and `RunFunction` makes
  up a return address only when `$ra` is zero. A slow function that has called
  another starts its second try with a return address inside itself, and an
  equivalent candidate is reported divergent. Tests and comments expect the
  retry to succeed.

Differences that no run is about:

- `SaveTuningCache` returns an error when the file cannot be opened
  (`game_config.cc:351`), and `TuneModule` drops it (`tuner_pipeline.cc:815`
  and 905); a write that fails is returned as OK. A run may end well with an
  older file, or one cut short. `TunerModule` does the same, and
  `ScheduleIndependent` says what is left of the promise.
- `VerifyEquivalence` fills in the target's initial memory only
  (`candidate_scorer.cc:451`): a candidate that reads the ROM's data reads
  zeros.
- The header defines the dominance frontier by the predecessors of a block
  (`dominator_tree.h:47`); the code skips blocks with fewer than two
  (`dominator_tree.cc:121`), and so an entry block with one back edge. Only
  tests use the frontier, and `FrontierOfJoins` states what holds of joins.
- `FinalMemoryCompared` exempts two cases by name: the stores of a function
  that returns a float are not compared, and logs that differ in their final
  bytes are compared again without their order.


## 7. What is not modelled

- What instructions compute, and what rewriting passes preserve: the semantics
  of MIPS arithmetic and of C, some fifty thousand lines of patterns. TLC
  enumerates states; these are statements about values.
- Parsers, printers, hashes, the ELF and ROM formats, relocation arithmetic:
  sequential functions of bytes.
- The toolchain, builder, splitter and differ beyond what they call: their
  state is the file system and each call is independent.
- `RoundTripRunner`: one list under one mutex.
- Floating-point tolerance, callee-saved registers and address mapping in the
  fuzzer; reports of the tuner; exits and shapes (while, do-while, infinite)
  of loops.
- Of the lifter's stages: what the passes rewrite; register liveness, which is
  computed anew whenever it is asked for; the fixpoint driver for graph passes
  and the default pipelines, which only tests call; snapshots; and what
  `lifter_pipeline.cc` carries from one function to its callers.
- Of the game: messages, layers, camera, graphics data and maths, which are
  arithmetic or are driven by assembly that is not in the repository; the
  envelopes of sound channels; the date on the screen; the festivals
  (`TimeCheckFestival` always answers none); the event flags cleared with the
  year and the season, which only assembly reads. `RenderAddEntry` checks no
  limit: its callers are assembly, and the model adds no more entries than the
  array holds.

`PROJECT.json` has every component with its files and status.


## 8. Plan

Written, in the order of what matters most: the pool and its promise, the
search, the module tuner over it, processes, the fuzzer, the emulator and its
processor, dominators and loops, the lifter's stages and caches, the game's
frame, its sounds and its clock.

Next, models:

1. *FastPass*: the pairing of HI16 and LO16 relocations in
   `equivalence_runner.cc:202` as a function of two streams, against a
   definition by reaching values.
2. *ReturnFacts*: what `lifter_pipeline.cc:208-260` learns from the functions
   of a module and hands to the others.
3. *Aligner*: the differ's alignment against edit distance. *FlagExplorer* and
   the splitter's partition of a segment.

Next, theorems: a bound on the number of passes of DominatorTree, from the
number of blocks and the nesting of the loops.
