------------------------------ MODULE GameLoop ------------------------------
(***************************************************************************)
(* The frame of harvest-moon-64: the main thread of MainLoop (main.c), the *)
(* retrace callback UpdateFrameCounterAndTicks that interrupts it at every *)
(* vertical blank, the DMA queue (dma.c) and the render entries            *)
(* (display.c) that one fills and the other shows, and MainShutdown.       *)
(*                                                                         *)
(* The two share g_vsync_flag with no lock: 0 means the main thread wants  *)
(* a frame to begin, 1 that it is working on one.  The graphics thread     *)
(* that runs the retrace callback outranks the main thread, so a retrace   *)
(* is one step.  The game-loop callbacks and the updates of a frame are    *)
(* assembly in this repository: they are calls of this module's            *)
(* operations in any order.                                                *)
(***************************************************************************)
EXTENDS Naturals, Sequences, FiniteSets

CONSTANTS
  Second,        \* 60: retraces between two looks at the frame counters
  Rates,         \* g_audio_enable_flag and g_system_sub_state: retraces a frame, a draw
  U16,           \* 65536: the range of the frame skip counter
  NumCallbacks,  \* 57
  NumRequests,   \* 40
  NumEntries,    \* 336
  Transfers,     \* (rom_addr, vram_addr, size) of a DMA transfer
  Lists,         \* display lists of render entries
  Divisors,      \* bound: what SetLoopCounter is called with
  MaxWait,       \* bound: frames a callback waits for at once
  MaxTasks,      \* 3: pending graphics tasks that keep a frame from being drawn
  Prompts        \* whether the main thread polls between any two retraces

None == 0        \* a null callback, an idle request, a clear entry

ASSUME LoopConstants ==
  /\ {Second, U16, NumCallbacks, NumRequests, NumEntries, MaxTasks} \subseteq Nat \ {0}
  /\ U16 > 1
  /\ Rates \subseteq {k \in 1 .. Second : Second % k = 0}
  /\ Divisors \subseteq 0 .. U16 - 1 /\ MaxWait \in 0 .. U16 - 1
  /\ None \notin Transfers /\ None \notin Lists /\ Prompts \subseteq BOOLEAN

VARIABLES
  g_vsync_flag,
  second_flag,                \* g_main_loop_flags & 2
  g_frame_rate_divisor, g_frame_skip_counter,
  g_current_game_loop_index,
  g_game_loop_callbacks,      \* None or 1, a routine
  g_tick_counter_60hz,
  g_dialogue_state,           \* frames begun in this second
  g_scene_transition_flag,    \* draws made in this second
  g_frame_drop_flag,          \* 1: a second had too few frames, 2: too few draws
  retrace,                    \* the retrace callback is installed
  requests,                   \* g_dma_requests: the transfer when status & 1
  g_dma_pending_count,
  entries,                    \* g_render_entries: the list when flags & 1
  g_render_entry_count,
  g_audio_enable_flag,        \* retraces a frame, fixed in a behaviour
  g_system_sub_state,         \* retraces a draw, fixed in a behaviour
  prompt,                     \* the main thread polls in time, see Retrace, or has started
  pc,                         \* where the main thread is
  wait,                       \* frames WaitVsyncFrames has left
  \* history
  accepted,                   \* transfers accepted since the last DmaProcessQueue
  scene,                      \* lists added since RenderResetCount and not drawn
  missed,                     \* frame slots of this second that found a frame unfinished
  undrawn,                    \* draw slots of this second that made no draw
  since,                      \* frames since the callback began to run, 0 before
  asked                       \* the divisor that callback asked for, 1 if it did not

loop == <<g_frame_rate_divisor, g_frame_skip_counter, since, asked>>
registry == <<g_current_game_loop_index, g_game_loop_callbacks>>
draws == <<g_scene_transition_flag, undrawn>>
clock == <<second_flag, g_tick_counter_60hz, g_dialogue_state, g_frame_drop_flag, missed,
           draws>>
dma == <<requests, g_dma_pending_count, accepted>>
render == <<entries, g_render_entry_count, scene>>
settings == <<g_audio_enable_flag, g_system_sub_state, prompt>>
vars == <<g_vsync_flag, loop, registry, clock, dma, render, settings, retrace, pc, wait>>

Indices == 0 .. NumCallbacks - 1

\* Where the main thread polls g_vsync_flag, having set it to 0.
Polls == {"ready", "frame", "wait"}
Running == {"callback", "scene", "finish"} \cup {"frame", "wait"}

TypeOK ==
  /\ {g_vsync_flag, since} \subseteq 0 .. U16 /\ g_vsync_flag \in 0 .. 1
  /\ {second_flag, retrace, prompt} \subseteq BOOLEAN /\ g_frame_drop_flag \in 0 .. 2
  /\ {g_frame_rate_divisor, g_frame_skip_counter, asked} \subseteq 0 .. U16 - 1
  /\ g_current_game_loop_index \in Indices
  /\ g_game_loop_callbacks \in [Indices -> {None, 1}]
  /\ g_tick_counter_60hz \in 0 .. Second
  /\ {g_audio_enable_flag, g_system_sub_state} \subseteq Rates
  /\ {g_dialogue_state, missed, g_scene_transition_flag, undrawn} \subseteq 0 .. Second
  /\ requests \in [0 .. NumRequests - 1 -> Transfers \cup {None}]
  /\ g_dma_pending_count \in 0 .. NumRequests
  /\ entries \in [0 .. NumEntries - 1 -> Lists \cup {None}]
  /\ g_render_entry_count \in 0 .. NumEntries
  /\ pc \in {"init", "check"} \cup Polls \cup Running    \* no "fault": a null callback
  /\ wait \in 0 .. MaxWait
  /\ scene \in Seq(Lists) /\ accepted \in Seq(Transfers)

(***************************************************************************)
(* MainInit up to the installation of the retrace callback.                *)
(***************************************************************************)
MainInit ==
  /\ g_vsync_flag = 0 /\ second_flag = FALSE
  /\ g_frame_rate_divisor = 0 /\ g_frame_skip_counter = 0
  /\ g_current_game_loop_index = 0
  /\ g_game_loop_callbacks = [i \in Indices |-> IF i = 0 THEN 1 ELSE None]
  /\ g_tick_counter_60hz = 0 /\ g_dialogue_state = 0
  /\ g_scene_transition_flag = 0 /\ g_frame_drop_flag = 0 /\ retrace = TRUE
  /\ requests = [i \in 0 .. NumRequests - 1 |-> None] /\ g_dma_pending_count = 0
  /\ entries = [i \in 0 .. NumEntries - 1 |-> None] /\ g_render_entry_count = 0
  /\ g_audio_enable_flag \in Rates /\ g_system_sub_state \in Rates /\ prompt \in Prompts
  /\ pc = "init" /\ wait = 0
  /\ accepted = <<>> /\ scene = <<>>
  /\ missed = 0 /\ undrawn = 0 /\ since = 0 /\ asked = 1

(***************************************************************************)
(* The retrace                                                             *)
(***************************************************************************)
\* The values of f on 0 .. n - 1 that are not None, in its order.
Present(f, n) ==
  LET on == {i \in 0 .. n - 1 : f[i] # None}
      Nth(k) == CHOOSE i \in on : Cardinality({j \in on : j < i}) = k - 1
  IN [k \in 1 .. Cardinality(on) |-> f[Nth(k)]]

\* fault: the entries beyond the count are not cleared
FaultDrawStale == Present(entries, NumEntries)

\* What RenderDrawEntries draws: the entries beyond the count are cleared first.
RenderDrawEntries == Present(entries, g_render_entry_count)

\* func_80026A98, the draw of the retrace callback, and the entries it leaves clear.
DrawGraphics ==
  /\ entries' = [i \in DOMAIN entries |-> None]
  /\ scene' = <<>>
  /\ UNCHANGED g_render_entry_count

\* The retraces that may draw, those that may begin a frame, and the one that ends a
\* second, which is the first of both kinds in the next.
DrawSlot == g_tick_counter_60hz % g_system_sub_state = 0
FrameSlot == g_tick_counter_60hz % g_audio_enable_flag = 0
SecondEnds == g_tick_counter_60hz >= Second
ThisSecond(count) == IF SecondEnds THEN 0 ELSE count

\* fault: a frame is drawn while the main thread works on it
FaultDraws(tasks) == DrawSlot /\ tasks < MaxTasks

Draws(tasks) == DrawSlot /\ tasks < MaxTasks /\ g_vsync_flag = 0

\* fault: the draws of a second are not reset at its end
FaultGraphicTiming(tasks) ==
  /\ IF Draws(tasks) THEN DrawGraphics ELSE UNCHANGED render
  /\ LET drawn == IF Draws(tasks) THEN 1 ELSE 0 IN
     IF DrawSlot THEN /\ g_scene_transition_flag' =
                           (g_scene_transition_flag + drawn) % (Second + 1)
                      /\ undrawn' = ThisSecond(undrawn) + (1 - drawn)
     ELSE UNCHANGED draws

UpdateGraphicTiming(tasks) ==
  /\ IF Draws(tasks) THEN DrawGraphics ELSE UNCHANGED render
  /\ LET drawn == IF Draws(tasks) THEN 1 ELSE 0 IN
     IF DrawSlot THEN /\ g_scene_transition_flag' = ThisSecond(g_scene_transition_flag) + drawn
                      /\ undrawn' = ThisSecond(undrawn) + (1 - drawn)
     ELSE UNCHANGED draws

\* What UpdateGraphicTiming leaves in g_frame_drop_flag for UpdateFrameTiming.
GraphicDrop ==
  IF SecondEnds /\ DrawSlot /\ g_scene_transition_flag < Second \div g_system_sub_state
    THEN 2 ELSE g_frame_drop_flag

\* fault: the frame that begins at the end of a second is counted in both
FaultFrameTiming ==
  /\ g_frame_drop_flag' =
       IF SecondEnds /\ FrameSlot /\ g_dialogue_state + 1 < Second \div g_audio_enable_flag
         THEN 1 ELSE GraphicDrop
  /\ IF FrameSlot
       THEN /\ g_dialogue_state' = ThisSecond(g_dialogue_state) + (1 - g_vsync_flag)
            /\ missed' = ThisSecond(missed) + g_vsync_flag
            /\ g_vsync_flag' = 1
       ELSE UNCHANGED <<g_vsync_flag, g_dialogue_state, missed>>

UpdateFrameTiming ==
  /\ g_frame_drop_flag' =
       IF SecondEnds /\ FrameSlot /\ g_dialogue_state < Second \div g_audio_enable_flag
         THEN 1 ELSE GraphicDrop
  /\ IF FrameSlot
       THEN /\ g_dialogue_state' = ThisSecond(g_dialogue_state) + (1 - g_vsync_flag)
            /\ missed' = ThisSecond(missed) + g_vsync_flag
            /\ g_vsync_flag' = 1
       ELSE UNCHANGED <<g_vsync_flag, g_dialogue_state, missed>>

\* The main thread is between a poll that will succeed and the one after it.
Polling == pc = "check" \/ (pc = "ready" /\ g_vsync_flag = 1)

\* fault: the flag of the second is cleared after it is set
FaultRetrace ==
  /\ retrace /\ (prompt => ~Polling)
  /\ \E tasks \in {0, MaxTasks} : UpdateGraphicTiming(tasks)
  /\ UpdateFrameTiming
  /\ g_tick_counter_60hz' = ThisSecond(g_tick_counter_60hz) + 1
  /\ second_flag' = FALSE
  /\ UNCHANGED <<loop, registry, dma, settings, retrace, pc, wait>>

\* UpdateFrameCounterAndTicks(tasks).
Retrace ==
  /\ retrace /\ (prompt => ~Polling)
  /\ \E tasks \in {0, MaxTasks} : UpdateGraphicTiming(tasks)
  /\ UpdateFrameTiming
  /\ g_tick_counter_60hz' = ThisSecond(g_tick_counter_60hz) + 1
  /\ second_flag' = SecondEnds
  /\ UNCHANGED <<loop, registry, dma, settings, retrace, pc, wait>>

(***************************************************************************)
(* The main thread: starting                                               *)
(***************************************************************************)
\* MainLoop up to WaitForSystemReady: g_main_loop_flags = 1 drops the second's flag.
StartLoop ==
  /\ pc = "init"
  /\ g_vsync_flag' = 0 /\ second_flag' = FALSE /\ pc' = "check"
  /\ UNCHANGED <<loop, registry, g_tick_counter_60hz, g_dialogue_state, g_frame_drop_flag,
                 missed, draws, dma, render, settings, retrace, wait>>

WaitForSystemReady ==
  /\ pc = "check"
  /\ IF second_flag
       THEN /\ pc' = "frame" /\ g_frame_rate_divisor' = 1 /\ g_frame_skip_counter' = 0
            /\ prompt' = TRUE
            /\ UNCHANGED <<g_vsync_flag, since, asked, g_audio_enable_flag, g_system_sub_state>>
       ELSE /\ pc' = "ready" /\ g_vsync_flag' = 0 /\ UNCHANGED <<loop, settings>>
  /\ UNCHANGED <<registry, clock, dma, render, retrace, wait>>

SeeRetrace ==
  /\ pc = "ready" /\ g_vsync_flag # 0 /\ pc' = "check"
  /\ UNCHANGED <<g_vsync_flag, loop, registry, clock, dma, render, settings, retrace, wait>>

(***************************************************************************)
(* The main thread: a frame                                                *)
(***************************************************************************)
\* fault: the callback does not set the divisor back
FaultCallCallback ==
  /\ pc' = IF g_game_loop_callbacks[g_current_game_loop_index] = None
             THEN "fault" ELSE "callback"
  /\ since' = 0 /\ asked' = 1 /\ UNCHANGED <<g_frame_rate_divisor, g_frame_skip_counter>>

CallCallback ==
  /\ g_frame_rate_divisor' = 1 /\ since' = 0 /\ asked' = 1
  /\ pc' = IF g_game_loop_callbacks[g_current_game_loop_index] = None
             THEN "fault" ELSE "callback"
  /\ UNCHANGED g_frame_skip_counter

\* RenderResetCount, after AudioUpdate.
RenderResetCount == g_render_entry_count' = 0 /\ scene' = <<>>

SkipFrame(counter) ==
  /\ g_frame_skip_counter' = (counter + U16 - 1) % U16
  /\ since' = since + 1 /\ pc' = "scene"
  /\ RenderResetCount

BeginFrame ==
  /\ pc = "frame" /\ g_vsync_flag # 0
  /\ IF g_frame_skip_counter = 0
       THEN CallCallback /\ UNCHANGED <<g_render_entry_count, scene>>
       ELSE SkipFrame(g_frame_skip_counter) /\ UNCHANGED <<g_frame_rate_divisor, asked>>
  /\ UNCHANGED <<g_vsync_flag, registry, clock, dma, entries, settings, retrace, wait>>

ReturnFromCallback ==
  /\ pc = "callback"
  /\ SkipFrame(g_frame_rate_divisor)
  /\ UNCHANGED <<g_vsync_flag, g_frame_rate_divisor, asked, registry, clock, dma, entries,
                 settings, retrace, wait>>

Transferred == Present(requests, NumRequests)

DmaProcessQueue ==
  /\ requests' = [i \in DOMAIN requests |-> None]
  /\ g_dma_pending_count' = 0 /\ accepted' = <<>>

\* The updates of the frame are over.
ProcessQueue ==
  /\ pc = "scene" /\ pc' = "finish" /\ DmaProcessQueue
  /\ UNCHANGED <<g_vsync_flag, loop, registry, clock, render, settings, retrace, wait>>

FinishFrame ==
  /\ pc = "finish" /\ pc' = "frame" /\ g_vsync_flag' = 0
  /\ UNCHANGED <<loop, registry, clock, dma, render, settings, retrace, wait>>

(***************************************************************************)
(* What the game's own code calls                                          *)
(***************************************************************************)
SetLoopCounter ==
  /\ pc = "callback" /\ g_frame_rate_divisor' \in Divisors
  /\ asked' = g_frame_rate_divisor'
  /\ UNCHANGED <<g_vsync_flag, g_frame_skip_counter, since, registry, clock, dma, render,
                 settings, retrace, pc, wait>>

\* fault: a callback that is not registered may become the current one
FaultSetCurrent(i) ==
  g_current_game_loop_index' = IF i < NumCallbacks THEN i ELSE g_current_game_loop_index

SetCurrentGameLoopCallback(i) ==
  g_current_game_loop_index' =
    IF i < NumCallbacks /\ g_game_loop_callbacks[i] # None THEN i
    ELSE g_current_game_loop_index

RegisterGameLoopCallback(i) ==
  g_game_loop_callbacks' =
    [j \in Indices |-> IF j = i THEN 1 ELSE g_game_loop_callbacks[j]]

UseRegistry ==
  /\ pc = "callback"
  /\ \E i \in 0 .. NumCallbacks :
       \/ SetCurrentGameLoopCallback(i) /\ UNCHANGED g_game_loop_callbacks
       \/ RegisterGameLoopCallback(i) /\ UNCHANGED g_current_game_loop_index
  /\ UNCHANGED <<g_vsync_flag, loop, clock, dma, render, settings, retrace, pc, wait>>

\* fault: the count is advanced past a request the queue has no room for
FaultQueueTransfer(t) ==
  /\ requests' = [requests EXCEPT ![g_dma_pending_count % NumRequests] = t]
  /\ g_dma_pending_count' = (g_dma_pending_count % NumRequests) + 1
  /\ accepted' = Append(accepted, t)

DmaQueueTransfer(t) ==
  IF g_dma_pending_count < NumRequests /\ requests[g_dma_pending_count] = None
    THEN /\ requests' = [requests EXCEPT ![g_dma_pending_count] = t]
         /\ g_dma_pending_count' = g_dma_pending_count + 1
         /\ accepted' = Append(accepted, t)
    ELSE UNCHANGED dma

QueueTransfer ==
  /\ pc \in {"callback", "scene"} /\ \E t \in Transfers : DmaQueueTransfer(t)
  /\ UNCHANGED <<g_vsync_flag, loop, registry, clock, render, settings, retrace, pc, wait>>

\* RenderAddEntry checks no limit: NumEntries bounds what the model adds.
RenderAddEntry ==
  /\ pc \in {"callback", "scene"} /\ g_render_entry_count < NumEntries
  /\ \E dl \in Lists :
       /\ entries' = [entries EXCEPT ![g_render_entry_count] = dl]
       /\ scene' = Append(scene, dl)
  /\ g_render_entry_count' = g_render_entry_count + 1
  /\ UNCHANGED <<g_vsync_flag, loop, registry, clock, dma, settings, retrace, pc, wait>>

\* WaitVsyncFrames(frame_count): frame_count waits, each from a cleared flag.
WaitVsyncFrames ==
  /\ pc = "callback" /\ wait' \in 1 .. MaxWait
  /\ pc' = "wait" /\ g_vsync_flag' = 0
  /\ UNCHANGED <<loop, registry, clock, dma, render, settings, retrace>>

Waited ==
  /\ pc = "wait" /\ g_vsync_flag # 0 /\ wait' = wait - 1
  /\ IF wait' = 0 THEN pc' = "callback" /\ UNCHANGED g_vsync_flag
     ELSE g_vsync_flag' = 0 /\ UNCHANGED pc
  /\ UNCHANGED <<loop, registry, clock, dma, render, settings, retrace>>

\* MainShutdown, on the thread of the reset button; it never returns.
MainShutdown ==
  /\ retrace /\ retrace' = FALSE
  /\ g_current_game_loop_index' =
       IF g_game_loop_callbacks[0] # None THEN 0 ELSE g_current_game_loop_index
  /\ UNCHANGED <<g_vsync_flag, loop, g_game_loop_callbacks, clock, dma, render, settings, pc, wait>>

GameCalls ==
  \/ SetLoopCounter \/ UseRegistry \/ QueueTransfer \/ RenderAddEntry \/ WaitVsyncFrames

LoopSteps ==
  \/ StartLoop \/ WaitForSystemReady \/ SeeRetrace \/ BeginFrame \/ ProcessQueue
  \/ FinishFrame \/ Waited

Next == Retrace \/ LoopSteps \/ ReturnFromCallback \/ GameCalls \/ MainShutdown

Init == MainInit

(***************************************************************************)
(* Retraces keep coming while the callback is installed, the main thread   *)
(* runs, and the game's own code returns from a callback it is run in      *)
(* again and again.                                                        *)
(***************************************************************************)
Fairness == WF_vars(Retrace) /\ WF_vars(LoopSteps) /\ SF_vars(ReturnFromCallback)

Spec == Init /\ [][Next]_vars /\ Fairness

(***************************************************************************)
(* Properties                                                              *)
(***************************************************************************)
\* The end of a second leaves 1 in the drop flag when a retrace that could have begun a
\* frame in that second found the last one unfinished, else 2 when one that could have
\* drawn did not, because of that or of the graphics tasks pending, else what was there.
DropsReported ==
  [][Retrace /\ SecondEnds =>
       g_frame_drop_flag' =
         IF missed > 0 THEN 1 ELSE IF undrawn > 0 THEN 2 ELSE g_frame_drop_flag]_vars

\* A draw shows every list added to the scene since the last draw and no other, and no
\* half of it: the main thread has finished its frame, or waits inside a callback.
DrawsWholeScene ==
  [][entries' # entries /\ pc' = pc /\ scene' = <<>> =>
       RenderDrawEntries = scene /\ pc \in Polls \cup {"init", "check"}]_vars

\* When a frame ends, each transfer that was accepted since the last one has been made,
\* once and in the order of acceptance, and the queue has room again.
TransfersMade ==
  [][ProcessQueue => Transferred = accepted /\ \A i \in DOMAIN requests : requests'[i] = None]_vars

\* A callback that asked for n runs again n frames later, one that asked for nothing on
\* the next frame; 0 wraps to the whole range of the counter.
SkipsDivisorFrames ==
  [][BeginFrame /\ pc' = "callback" /\ since > 0 =>
       since = IF asked = 0 THEN U16 ELSE asked]_vars

\* A main thread that polls in time starts the game, and one that has started it keeps
\* running callbacks, however it is scheduled, until the machine is shut down.
FramesGoOn == []<>(pc = "callback" \/ ~retrace \/ ~prompt)
=============================================================================
