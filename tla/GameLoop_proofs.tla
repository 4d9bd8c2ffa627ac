--------------------------- MODULE GameLoop_proofs ---------------------------
(***************************************************************************)
(* For every frame rate, queue length and divisor: the main loop's types,  *)
(* the counting of dropped frames, the drawing of whole scenes, the order  *)
(* of the transfers and the frames a callback sits out.  The invariant is  *)
(* one part for each piece of state, and each part is kept by a lemma.     *)
(***************************************************************************)
EXTENDS GameLoop, FiniteSetTheorems, TLAPS

-----------------------------------------------------------------------------
(***************************************************************************)
(* Present: when the values that are not None lie on lo .. hi - 1, they    *)
(* are read from there in order.                                           *)
(***************************************************************************)
LEMMA CountBelow ==
  ASSUME NEW lo \in Nat, NEW hi \in Nat, NEW i \in lo .. hi - 1
  PROVE  Cardinality({j \in lo .. hi - 1 : j < i}) = i - lo
<1>1. {j \in lo .. hi - 1 : j < i} = lo .. i - 1
  OBVIOUS
<1>2. Cardinality(lo .. i - 1) = IF lo > i - 1 THEN 0 ELSE (i - 1) - lo + 1
  <2>1. lo \in Int /\ i - 1 \in Int
    OBVIOUS
  <2> QED
    BY <2>1, FS_Interval
<1>3. (IF lo > i - 1 THEN 0 ELSE (i - 1) - lo + 1) = i - lo
  OBVIOUS
<1> QED
  BY <1>1, <1>2, <1>3

LEMMA PresentIs ==
  ASSUME NEW f, NEW lo \in Nat, NEW hi \in Nat, NEW n \in Nat, lo <= hi, hi <= n,
         \A i \in 0 .. n - 1 : f[i] # None <=> i \in lo .. hi - 1
  PROVE  Present(f, n) = [k \in 1 .. hi - lo |-> f[lo + k - 1]]
<1> DEFINE on == {i \in 0 .. n - 1 : f[i] # None}
           Nth(k) == CHOOSE i \in on : Cardinality({j \in on : j < i}) = k - 1
<1>1. on = lo .. hi - 1
  OBVIOUS
<1>2. Cardinality(on) = hi - lo
  <2>1. lo \in Int /\ hi - 1 \in Int
    OBVIOUS
  <2>2. Cardinality(lo .. hi - 1) = IF lo > hi - 1 THEN 0 ELSE (hi - 1) - lo + 1
    BY <2>1, FS_Interval
  <2>3. (IF lo > hi - 1 THEN 0 ELSE (hi - 1) - lo + 1) = hi - lo
    OBVIOUS
  <2> HIDE DEF on
  <2> QED
    BY <1>1, <2>2, <2>3
<1>3. Present(f, n) = [k \in 1 .. Cardinality(on) |-> f[Nth(k)]]
  BY DEF Present
<1> HIDE DEF on
<1>4. \A k \in 1 .. hi - lo : Nth(k) = lo + k - 1
  <2> TAKE k \in 1 .. hi - lo
  <2>1. lo + k - 1 \in lo .. hi - 1
    OBVIOUS
  <2>2. Cardinality({j \in on : j < lo + k - 1}) = k - 1
    <3>1. Cardinality({j \in lo .. hi - 1 : j < lo + k - 1}) = (lo + k - 1) - lo
      BY <2>1, CountBelow
    <3> QED
      BY <1>1, <3>1
  <2>3. \A i \in on : Cardinality({j \in on : j < i}) = k - 1 => i = lo + k - 1
    <3> TAKE i \in on
    <3>1. i \in lo .. hi - 1
      BY <1>1
    <3>2. Cardinality({j \in lo .. hi - 1 : j < i}) = i - lo
      BY <3>1, CountBelow
    <3> QED
      BY <1>1, <3>1, <3>2
  <2> QED
    BY <1>1, <2>1, <2>2, <2>3
<1> HIDE DEF Nth
<1> QED
  BY <1>2, <1>3, <1>4

LEMMA PresentPrefix ==
  ASSUME NEW f, NEW hi \in Nat, NEW n \in Nat, hi <= n,
         \A i \in 0 .. n - 1 : f[i] # None <=> i \in 0 .. hi - 1
  PROVE  Present(f, n) = [k \in 1 .. hi |-> f[k - 1]]
<1>1. PICK lo \in Nat : lo = 0
  OBVIOUS
<1>2. lo <= hi /\ \A i \in 0 .. n - 1 : f[i] # None <=> i \in lo .. hi - 1
  BY <1>1
<1>3. Present(f, n) = [k \in 1 .. hi - lo |-> f[lo + k - 1]]
  BY <1>2, PresentIs
<1>4. hi - lo = hi /\ \A k \in 1 .. hi : lo + k - 1 = k - 1
  BY <1>1
<1> QED
  BY <1>3, <1>4

-----------------------------------------------------------------------------
(***************************************************************************)
(* The parts of the invariant                                              *)
(***************************************************************************)
Busy == {"callback", "scene", "finish"}

\* The main thread works on a frame behind a raised flag.
FlagInv ==
  /\ g_vsync_flag \in 0 .. 1
  /\ pc \in {"init", "check"} \cup Polls \cup Running
  /\ pc \in Busy => g_vsync_flag = 1
  /\ wait \in 0 .. MaxWait /\ (pc = "wait" => wait > 0)

RegistryInv ==
  /\ g_current_game_loop_index \in Indices
  /\ g_game_loop_callbacks \in [Indices -> {None, 1}]
  /\ g_game_loop_callbacks[g_current_game_loop_index] # None

\* The frames since the callback ran and the frames to skip make up what it asked for.
Full == IF asked = 0 THEN U16 ELSE asked

SkipInv ==
  /\ {g_frame_rate_divisor, g_frame_skip_counter, asked} \subseteq 0 .. U16 - 1
  /\ since \in Nat
  /\ pc \in {"init", "check", "ready"} => since = 0
  /\ pc \in {"callback", "wait"} => since = 0 /\ g_frame_rate_divisor = asked
  /\ pc \in {"scene", "finish"} => since > 0
  /\ pc = "frame" /\ since = 0 => g_frame_skip_counter = 0
  /\ since > 0 => since + g_frame_skip_counter = Full

\* Every retrace of the second that could begin a frame did, or found one unfinished, and
\* every one that could draw did, or was counted: n slots at the rate r precede retrace t.
FrameSlots == g_dialogue_state + missed
DrawSlots == g_scene_transition_flag + undrawn

Placed(n, r, t) ==
  IF t = 0 THEN n = 0 ELSE n > 0 /\ (n - 1) * r < t /\ t <= n * r

ClockTypes ==
  /\ g_tick_counter_60hz \in 0 .. Second
  /\ g_dialogue_state \in Nat /\ missed \in Nat
  /\ g_scene_transition_flag \in Nat /\ undrawn \in Nat
  /\ g_audio_enable_flag \in Rates /\ g_system_sub_state \in Rates
  /\ g_frame_drop_flag \in 0 .. 2
  /\ second_flag \in BOOLEAN /\ retrace \in BOOLEAN /\ prompt \in BOOLEAN

ClockInv ==
  /\ ClockTypes
  /\ Placed(FrameSlots, g_audio_enable_flag, g_tick_counter_60hz)
  /\ Placed(DrawSlots, g_system_sub_state, g_tick_counter_60hz)

\* The queue holds what was accepted, from its first request on.
DmaInv ==
  /\ requests \in [0 .. NumRequests - 1 -> Transfers \cup {None}]
  /\ accepted \in Seq(Transfers) /\ g_dma_pending_count = Len(accepted)
  /\ g_dma_pending_count \in 0 .. NumRequests
  /\ \A i \in 0 .. NumRequests - 1 : requests[i] # None <=> i < g_dma_pending_count
  /\ \A k \in 1 .. Len(accepted) : accepted[k] = requests[k - 1]

\* The last of the entries in use hold the scene; those before them have been drawn.
RenderInv ==
  /\ entries \in [0 .. NumEntries - 1 -> Lists \cup {None}]
  /\ g_render_entry_count \in 0 .. NumEntries
  /\ scene \in Seq(Lists) /\ Len(scene) <= g_render_entry_count
  /\ \A i \in 0 .. g_render_entry_count - 1 :
       entries[i] # None <=> i >= g_render_entry_count - Len(scene)
  /\ \A k \in 1 .. Len(scene) : scene[k] = entries[g_render_entry_count - Len(scene) + k - 1]

LoopInv == FlagInv /\ RegistryInv /\ SkipInv /\ ClockInv /\ DmaInv /\ RenderInv

LEMMA Numbers ==
  /\ Second \in Nat \ {0} /\ U16 \in Nat /\ U16 > 1 /\ NumCallbacks \in Nat \ {0}
  /\ NumRequests \in Nat \ {0} /\ NumEntries \in Nat \ {0} /\ MaxWait \in Nat
  /\ Divisors \subseteq 0 .. U16 - 1 /\ None = 0
  /\ None \notin Transfers /\ None \notin Lists /\ Prompts \subseteq BOOLEAN
  BY LoopConstants DEF None

LEMMA LoopInit == Init => LoopInv
<1> SUFFICES ASSUME Init PROVE LoopInv
  OBVIOUS
<1>1. FlagInv /\ RegistryInv
  BY Numbers DEF Init, MainInit, FlagInv, RegistryInv, Polls, Running, Busy, Indices, None
<1>2. SkipInv
  BY Numbers DEF Init, MainInit, SkipInv
<1>5. ClockInv
  <2>1. ClockTypes
    <3>1. second_flag \in BOOLEAN /\ retrace \in BOOLEAN /\ prompt \in BOOLEAN
      BY Numbers DEF Init, MainInit
    <3> QED
      BY <3>1, Numbers DEF Init, MainInit, ClockTypes
  <2>2. g_tick_counter_60hz = 0 /\ FrameSlots = 0 /\ DrawSlots = 0
    BY DEF Init, MainInit, FrameSlots, DrawSlots
  <2> QED
    BY <2>1, <2>2 DEF ClockInv, Placed
<1>3. DmaInv
  BY Numbers DEF Init, MainInit, DmaInv
<1>4. RenderInv
  BY Numbers DEF Init, MainInit, RenderInv
<1> QED
  BY <1>1, <1>2, <1>3, <1>4, <1>5 DEF LoopInv

-----------------------------------------------------------------------------
(***************************************************************************)
(* Each part is kept                                                       *)
(***************************************************************************)
LEMMA FlagKept == LoopInv /\ [Next]_vars => FlagInv'
<1> SUFFICES ASSUME LoopInv, [Next]_vars PROVE FlagInv'
  OBVIOUS
<1>0. FlagInv /\ RegistryInv /\ MaxWait \in Nat
  BY Numbers DEF LoopInv
<1> USE DEF FlagInv, Polls, Running, Busy
<1>1. CASE Retrace
  BY <1>0, <1>1, Numbers DEF Retrace, UpdateFrameTiming, FrameSlot
<1>2. CASE StartLoop
  BY <1>0, <1>2 DEF StartLoop
<1>3. CASE WaitForSystemReady
  BY <1>0, <1>3 DEF WaitForSystemReady
<1>4. CASE SeeRetrace
  BY <1>0, <1>4 DEF SeeRetrace
<1>5. CASE BeginFrame
  BY <1>0, <1>5 DEF BeginFrame, CallCallback, SkipFrame, RegistryInv
<1>6. CASE ReturnFromCallback
  BY <1>0, <1>6 DEF ReturnFromCallback, SkipFrame
<1>7. CASE ProcessQueue
  BY <1>0, <1>7 DEF ProcessQueue
<1>8. CASE FinishFrame
  BY <1>0, <1>8 DEF FinishFrame
<1>9. CASE WaitVsyncFrames
  BY <1>0, <1>9 DEF WaitVsyncFrames
<1>10. CASE Waited
  BY <1>0, <1>10 DEF Waited
<1>11. CASE SetLoopCounter \/ UseRegistry \/ QueueTransfer \/ RenderAddEntry \/ MainShutdown
  BY <1>0, <1>11 DEF SetLoopCounter, UseRegistry, QueueTransfer, RenderAddEntry, MainShutdown
<1>12. CASE UNCHANGED vars
  BY <1>0, <1>12 DEF vars
<1> QED
  BY <1>1, <1>2, <1>3, <1>4, <1>5, <1>6, <1>7, <1>8, <1>9, <1>10, <1>11, <1>12
     DEF Next, LoopSteps, GameCalls

LEMMA RegistryKept == LoopInv /\ [Next]_vars => RegistryInv'
<1> SUFFICES ASSUME LoopInv, [Next]_vars PROVE RegistryInv'
  OBVIOUS
<1>0. RegistryInv
  BY DEF LoopInv
<1>1. CASE UseRegistry
  <2>1. PICK i \in 0 .. NumCallbacks :
          \/ SetCurrentGameLoopCallback(i) /\ UNCHANGED g_game_loop_callbacks
          \/ RegisterGameLoopCallback(i) /\ UNCHANGED g_current_game_loop_index
    BY <1>1 DEF UseRegistry
  <2>2. CASE SetCurrentGameLoopCallback(i) /\ UNCHANGED g_game_loop_callbacks
    <3>1. i < NumCallbacks => i \in Indices
      BY Numbers DEF Indices
    <3> QED
      BY <1>0, <2>2, <3>1 DEF SetCurrentGameLoopCallback, RegistryInv
  <2>3. CASE RegisterGameLoopCallback(i) /\ UNCHANGED g_current_game_loop_index
    BY <1>0, <2>3 DEF RegisterGameLoopCallback, RegistryInv, None
  <2> QED
    BY <2>1, <2>2, <2>3
<1>2. CASE MainShutdown
  BY <1>0, <1>2, Numbers DEF MainShutdown, RegistryInv, Indices
<1>3. ASSUME UNCHANGED registry PROVE RegistryInv'
  BY <1>0, <1>3 DEF RegistryInv, registry
<1>4. [Next]_vars => UseRegistry \/ MainShutdown \/ UNCHANGED registry
  BY DEF Next, LoopSteps, GameCalls, Retrace, StartLoop, WaitForSystemReady, SeeRetrace,
         BeginFrame, ReturnFromCallback, ProcessQueue, FinishFrame, WaitVsyncFrames, Waited,
         SetLoopCounter, QueueTransfer, RenderAddEntry, vars
<1> QED
  BY <1>1, <1>2, <1>3, <1>4

LEMMA Decrement ==
  ASSUME NEW n \in Nat, n > 1, NEW a \in 0 .. n - 1
  PROVE  (a + n - 1) % n = IF a = 0 THEN n - 1 ELSE a - 1
  OBVIOUS

LEMMA SkipKept == LoopInv /\ [Next]_vars => SkipInv'
<1> SUFFICES ASSUME LoopInv, [Next]_vars PROVE SkipInv'
  OBVIOUS
<1>0. SkipInv /\ FlagInv /\ U16 \in Nat /\ U16 > 1
  BY Numbers DEF LoopInv
<1> USE DEF SkipInv, Full
<1>1. CASE WaitForSystemReady
  BY <1>0, <1>1 DEF WaitForSystemReady, loop
<1>2. CASE BeginFrame
  <2>1. CASE g_frame_skip_counter = 0
    BY <1>0, <1>2, <2>1 DEF BeginFrame, CallCallback
  <2>2. CASE g_frame_skip_counter # 0
    <3>1. g_frame_skip_counter \in 0 .. U16 - 1 /\ since > 0
      BY <1>0, <1>2, <2>2 DEF BeginFrame
    <3>2. /\ g_frame_skip_counter' = g_frame_skip_counter - 1
          /\ since' = since + 1 /\ pc' = "scene" /\ UNCHANGED <<g_frame_rate_divisor, asked>>
      BY <1>0, <1>2, <2>2, <3>1, Decrement DEF BeginFrame, SkipFrame
    <3>3. since' + g_frame_skip_counter' = Full' /\ since' \in Nat /\ since' > 0
      <4>1. Full' = Full
        BY <3>2
      <4>2. /\ since + g_frame_skip_counter = Full /\ since \in Nat
            /\ g_frame_skip_counter \in Nat \ {0}
        <5> HIDE DEF Full
        <5>1. since > 0 => since + g_frame_skip_counter = Full
          BY <1>0
        <5>2. since \in Nat
          BY <1>0
        <5> QED
          BY <1>0, <2>2, <3>1, <5>1, <5>2
      <4> HIDE DEF Full
      <4> QED
        BY <3>2, <4>1, <4>2
    <3>4. g_frame_skip_counter' \in 0 .. U16 - 1
      BY <1>0, <2>2, <3>1, <3>2
    <3> QED
      BY <1>0, <3>2, <3>3, <3>4
  <2> QED
    BY <2>1, <2>2
<1>3. CASE ReturnFromCallback
  <2>1. since = 0 /\ g_frame_rate_divisor = asked /\ asked \in 0 .. U16 - 1
    BY <1>0, <1>3 DEF ReturnFromCallback
  <2>2. /\ g_frame_skip_counter' = IF asked = 0 THEN U16 - 1 ELSE asked - 1
        /\ since' = 1 /\ pc' = "scene" /\ UNCHANGED <<g_frame_rate_divisor, asked>>
    BY <1>0, <1>3, <2>1, Decrement DEF ReturnFromCallback, SkipFrame
  <2> QED
    BY <1>0, <2>1, <2>2
<1>4. CASE SetLoopCounter
  <2>1. g_frame_rate_divisor' \in 0 .. U16 - 1
    BY <1>4, Numbers DEF SetLoopCounter
  <2> QED
    BY <1>0, <1>4, <2>1 DEF SetLoopCounter
<1>5. CASE StartLoop \/ SeeRetrace \/ ProcessQueue \/ FinishFrame \/ WaitVsyncFrames \/ Waited
  BY <1>0, <1>5
     DEF StartLoop, SeeRetrace, ProcessQueue, FinishFrame, WaitVsyncFrames, Waited, loop
<1>6. CASE Retrace \/ UseRegistry \/ QueueTransfer \/ RenderAddEntry \/ MainShutdown
  BY <1>0, <1>6 DEF Retrace, UseRegistry, QueueTransfer, RenderAddEntry, MainShutdown, loop
<1>7. CASE UNCHANGED vars
  BY <1>0, <1>7 DEF vars, loop
<1> QED
  BY <1>1, <1>2, <1>3, <1>4, <1>5, <1>6, <1>7 DEF Next, LoopSteps, GameCalls

(***************************************************************************)
(* The slots of a second: with n of them up to the retrace t, the n-th is   *)
(* the last multiple of the rate below t.                                  *)
(***************************************************************************)
LEMMA Multiple ==
  ASSUME NEW k \in Nat, NEW r \in Nat \ {0}
  PROVE  k * r \in Nat /\ (k * r) % r = 0 /\ (k * r) \div r = k /\ (k + 1) * r = k * r + r
  OBVIOUS

LEMMA Monotonic ==
  ASSUME NEW a \in Nat, NEW b \in Nat, NEW n \in Nat, a <= b
  PROVE  a * n <= b * n
  OBVIOUS

LEMMA IsMultiple ==
  ASSUME NEW t \in Nat, NEW r \in Nat \ {0}, t % r = 0
  PROVE  \E k \in Nat : t = k * r
  OBVIOUS

LEMMA SlotCount ==
  ASSUME NEW r \in Nat \ {0}, NEW n \in Nat \ {0}, NEW t \in Nat \ {0},
         (n - 1) * r < t, t <= n * r
  PROVE  (t % r = 0 <=> t = n * r)
<1>0. n * r \in Nat /\ (n * r) % r = 0
  BY Multiple
<1>1. ASSUME t % r = 0 PROVE t = n * r
  <2>1. PICK k \in Nat : t = k * r
    BY <1>1, IsMultiple
  <2>2. k >= n
    <3> SUFFICES ASSUME k < n PROVE FALSE
      OBVIOUS
    <3>1. k <= n - 1 /\ n - 1 \in Nat
      OBVIOUS
    <3>2. k * r <= (n - 1) * r
      BY <3>1, Monotonic
    <3>3. (n - 1) * r \in Nat
      BY <3>1, Multiple
    <3> QED
      BY <2>1, <3>2, <3>3
  <2>3. n * r <= k * r
    BY <2>2, Monotonic
  <2> QED
    BY <1>0, <2>1, <2>3
<1> QED
  BY <1>0, <1>1

LEMMA RateIs == \A r \in Rates : r \in Nat \ {0} /\ r <= Second /\ Second % r = 0
  BY LoopConstants

\* A retrace counts one more slot at the multiples of the rate, the first of the second
\* at the end of the last.
NextSlots(n, r, t) == IF t % r = 0 THEN (IF t >= Second THEN 0 ELSE n) + 1 ELSE n

LEMMA SlotStep ==
  ASSUME NEW t \in 0 .. Second, NEW n \in Nat, NEW r \in Rates, Placed(n, r, t)
  PROVE  Placed(NextSlots(n, r, t), r, (IF t >= Second THEN 0 ELSE t) + 1)
<1>0. /\ Second \in Nat \ {0} /\ r \in Nat \ {0} /\ Second % r = 0 /\ t \in Nat
      /\ r <= Second
  BY RateIs, Numbers
<1> DEFINE u == (IF t >= Second THEN 0 ELSE t) + 1
           m == NextSlots(n, r, t)
<1>1. u \in Nat /\ u # 0
  BY <1>0
<1> SUFFICES m > 0 /\ (m - 1) * r < u /\ u <= m * r
  <2> HIDE DEF u, m
  <2>1. ASSUME m > 0 /\ (m - 1) * r < u /\ u <= m * r PROVE Placed(m, r, u)
    BY <1>1, <2>1 DEF Placed
  <2> QED
    BY <2>1 DEF u, m
<1>2. CASE t = 0 \/ t >= Second
  <2>1. t = 0 \/ t = Second
    BY <1>0, <1>2
  <2>2. t % r = 0 /\ u = 1
    <3>1. 0 % r = 0
      BY <1>0
    <3> QED
      BY <1>0, <2>1, <3>1
  <2>3. m = 1
    BY <1>0, <2>1, <2>2 DEF Placed, NextSlots
  <2>4. (1 - 1) * r = 0 /\ 1 * r = r
    BY <1>0
  <2> HIDE DEF u, m
  <2> QED
    BY <1>0, <2>2, <2>3, <2>4
<1>3. CASE t > 0 /\ t < Second
  <2>1. n > 0 /\ (n - 1) * r < t /\ t <= n * r /\ u = t + 1
    BY <1>0, <1>3 DEF Placed
  <2>2. t % r = 0 <=> t = n * r
    <3>1. n \in Nat \ {0} /\ t \in Nat \ {0}
      BY <1>0, <1>3, <2>1
    <3> QED
      BY <1>0, <2>1, <3>1, SlotCount
  <2>3. (n - 1) * r \in Nat /\ n * r \in Nat /\ (n + 1) * r = n * r + r
    BY <1>0, <2>1, Multiple
  <2>4. CASE t % r = 0
    <3>1. m = n + 1 /\ t = n * r
      BY <1>0, <1>3, <2>2, <2>4 DEF NextSlots
    <3>2. n + 1 - 1 = n
      OBVIOUS
    <3> HIDE DEF u, m
    <3> QED
      BY <1>0, <2>1, <2>3, <3>1, <3>2
  <2>5. CASE t % r # 0
    <3>1. m = n /\ t # n * r
      BY <2>2, <2>5 DEF NextSlots
    <3> HIDE DEF u, m
    <3> QED
      BY <1>0, <2>1, <2>3, <3>1
  <2> QED
    BY <2>4, <2>5
<1> QED
  BY <1>0, <1>2, <1>3

LEMMA RetraceCounts ==
  ClockTypes /\ g_vsync_flag \in 0 .. 1 /\ Retrace =>
    /\ g_dialogue_state' \in Nat /\ missed' \in Nat
    /\ g_scene_transition_flag' \in Nat /\ undrawn' \in Nat
    /\ FrameSlots' = NextSlots(FrameSlots, g_audio_enable_flag, g_tick_counter_60hz)
    /\ DrawSlots' = NextSlots(DrawSlots, g_system_sub_state, g_tick_counter_60hz)
<1> SUFFICES ASSUME ClockTypes, g_vsync_flag \in 0 .. 1, Retrace
             PROVE  /\ g_dialogue_state' \in Nat /\ missed' \in Nat
                    /\ g_scene_transition_flag' \in Nat /\ undrawn' \in Nat
                    /\ FrameSlots' =
                         NextSlots(FrameSlots, g_audio_enable_flag, g_tick_counter_60hz)
                    /\ DrawSlots' =
                         NextSlots(DrawSlots, g_system_sub_state, g_tick_counter_60hz)
  OBVIOUS
<1>1. /\ g_dialogue_state \in Nat /\ missed \in Nat
      /\ g_scene_transition_flag \in Nat /\ undrawn \in Nat
  BY DEF ClockTypes
<1>2. /\ g_dialogue_state' \in Nat /\ missed' \in Nat
      /\ FrameSlots' = NextSlots(FrameSlots, g_audio_enable_flag, g_tick_counter_60hz)
  <2>1. CASE FrameSlot
    <3>1. /\ g_dialogue_state' = ThisSecond(g_dialogue_state) + (1 - g_vsync_flag)
          /\ missed' = ThisSecond(missed) + g_vsync_flag
      BY <2>1 DEF Retrace, UpdateFrameTiming
    <3> QED
      BY <1>1, <2>1, <3>1 DEF FrameSlots, NextSlots, ThisSecond, SecondEnds, FrameSlot
  <2>2. CASE ~FrameSlot
    <3>1. UNCHANGED <<g_dialogue_state, missed>>
      BY <2>2 DEF Retrace, UpdateFrameTiming
    <3> QED
      BY <1>1, <2>2, <3>1 DEF FrameSlots, NextSlots, FrameSlot
  <2> QED
    BY <2>1, <2>2
<1>3. /\ g_scene_transition_flag' \in Nat /\ undrawn' \in Nat
      /\ DrawSlots' = NextSlots(DrawSlots, g_system_sub_state, g_tick_counter_60hz)
  <2>1. CASE DrawSlot
    <3>1. PICK drawn \in 0 .. 1 :
            /\ g_scene_transition_flag' = ThisSecond(g_scene_transition_flag) + drawn
            /\ undrawn' = ThisSecond(undrawn) + (1 - drawn)
      <4>1. PICK tasks \in {0, MaxTasks} : UpdateGraphicTiming(tasks)
        BY DEF Retrace
      <4>2. (IF Draws(tasks) THEN 1 ELSE 0) \in 0 .. 1
        OBVIOUS
      <4> QED
        BY <2>1, <4>1, <4>2 DEF UpdateGraphicTiming
    <3> QED
      BY <1>1, <2>1, <3>1 DEF DrawSlots, NextSlots, ThisSecond, SecondEnds, DrawSlot
  <2>2. CASE ~DrawSlot
    <3>1. UNCHANGED <<g_scene_transition_flag, undrawn>>
      BY <2>2 DEF Retrace, UpdateGraphicTiming, draws
    <3> QED
      BY <1>1, <2>2, <3>1 DEF DrawSlots, NextSlots, DrawSlot
  <2> QED
    BY <2>1, <2>2
<1> QED
  BY <1>2, <1>3

LEMMA ClockKept == LoopInv /\ [Next]_vars => ClockInv'
<1> SUFFICES ASSUME LoopInv, [Next]_vars PROVE ClockInv'
  OBVIOUS
<1>0. ClockInv /\ ClockTypes /\ g_vsync_flag \in 0 .. 1
  BY DEF LoopInv, ClockInv, FlagInv
<1>1. CASE Retrace
  <2>1. g_tick_counter_60hz' = (IF g_tick_counter_60hz >= Second THEN 0
                                ELSE g_tick_counter_60hz) + 1
    BY <1>1 DEF Retrace, SecondEnds, ThisSecond
  <2>2. UNCHANGED <<g_audio_enable_flag, g_system_sub_state, prompt, retrace>>
    BY <1>1 DEF Retrace, settings
  <2>3. /\ g_dialogue_state' \in Nat /\ missed' \in Nat
        /\ g_scene_transition_flag' \in Nat /\ undrawn' \in Nat
        /\ FrameSlots' = NextSlots(FrameSlots, g_audio_enable_flag, g_tick_counter_60hz)
        /\ DrawSlots' = NextSlots(DrawSlots, g_system_sub_state, g_tick_counter_60hz)
    BY <1>0, <1>1, RetraceCounts
  <2>4. ClockTypes'
    <3>1. g_tick_counter_60hz' \in 0 .. Second
      BY <1>0, <2>1, Numbers DEF ClockTypes
    <3>2. g_frame_drop_flag' \in {1, GraphicDrop} /\ GraphicDrop \in {2, g_frame_drop_flag}
      BY <1>1 DEF Retrace, UpdateFrameTiming, GraphicDrop
    <3>3. g_frame_drop_flag' \in 0 .. 2
      BY <1>0, <3>2 DEF ClockTypes
    <3>4. second_flag' \in BOOLEAN
      <4>1. (g_tick_counter_60hz >= Second) \in BOOLEAN
        OBVIOUS
      <4>2. second_flag' = (g_tick_counter_60hz >= Second)
        BY <1>1 DEF Retrace, SecondEnds
      <4> QED
        BY <4>1, <4>2
    <3> QED
      BY <1>0, <2>2, <2>3, <3>1, <3>3, <3>4 DEF ClockTypes
  <2>5. FrameSlots \in Nat /\ DrawSlots \in Nat
    BY <1>0 DEF ClockTypes, FrameSlots, DrawSlots
  <2>6. Placed(NextSlots(FrameSlots, g_audio_enable_flag, g_tick_counter_60hz),
               g_audio_enable_flag,
               (IF g_tick_counter_60hz >= Second THEN 0 ELSE g_tick_counter_60hz) + 1)
    BY <1>0, <2>5, SlotStep DEF ClockInv, ClockTypes
  <2>7. Placed(NextSlots(DrawSlots, g_system_sub_state, g_tick_counter_60hz),
               g_system_sub_state,
               (IF g_tick_counter_60hz >= Second THEN 0 ELSE g_tick_counter_60hz) + 1)
    BY <1>0, <2>5, SlotStep DEF ClockInv, ClockTypes
  <2>8. Placed(FrameSlots', g_audio_enable_flag', g_tick_counter_60hz')
    BY <2>1, <2>2, <2>3, <2>6
  <2>9. Placed(DrawSlots', g_system_sub_state', g_tick_counter_60hz')
    BY <2>1, <2>2, <2>3, <2>7
  <2> QED
    BY <2>4, <2>8, <2>9 DEF ClockInv
<1>2. ASSUME UNCHANGED <<g_tick_counter_60hz, g_dialogue_state, missed, draws,
                         g_audio_enable_flag, g_system_sub_state, g_frame_drop_flag>>,
             second_flag' \in BOOLEAN, retrace' \in BOOLEAN, prompt' \in BOOLEAN
      PROVE  ClockInv'
  <2>1. ClockTypes'
    BY <1>0, <1>2 DEF ClockTypes, draws
  <2>2. UNCHANGED <<FrameSlots, DrawSlots>>
    BY <1>2 DEF FrameSlots, DrawSlots, draws
  <2> QED
    BY <1>0, <1>2, <2>1, <2>2 DEF ClockInv
<1>3. [Next]_vars => \/ Retrace
                     \/ /\ UNCHANGED <<g_tick_counter_60hz, g_dialogue_state, missed, draws,
                                       g_audio_enable_flag, g_system_sub_state,
                                       g_frame_drop_flag>>
                        /\ second_flag' \in BOOLEAN /\ retrace' \in BOOLEAN
                        /\ prompt' \in BOOLEAN
  BY <1>0 DEF ClockTypes, Next, LoopSteps, GameCalls, StartLoop, WaitForSystemReady,
         SeeRetrace, BeginFrame, ReturnFromCallback, ProcessQueue, FinishFrame,
         WaitVsyncFrames, Waited, SetLoopCounter, QueueTransfer, RenderAddEntry, UseRegistry,
         MainShutdown, vars, clock, settings
<1> QED
  BY <1>1, <1>2, <1>3

LEMMA DmaKept == LoopInv /\ [Next]_vars => DmaInv'
<1> SUFFICES ASSUME LoopInv, [Next]_vars PROVE DmaInv'
  OBVIOUS
<1>0. DmaInv /\ NumRequests \in Nat \ {0}
  BY Numbers DEF LoopInv
<1>1. ASSUME NEW t \in Transfers, DmaQueueTransfer(t) PROVE DmaInv'
  <2>1. CASE UNCHANGED dma
    BY <1>0, <2>1 DEF DmaInv, dma
  <2>2. CASE ~UNCHANGED dma
    <3> DEFINE c == g_dma_pending_count
    <3>0. /\ c < NumRequests /\ c \in Nat /\ c' = c + 1 /\ c = Len(accepted)
          /\ requests' = [requests EXCEPT ![c] = t] /\ accepted' = Append(accepted, t)
          /\ accepted \in Seq(Transfers) /\ t # None
          /\ requests \in [0 .. NumRequests - 1 -> Transfers \cup {None}]
      BY <1>0, <1>1, <2>2, Numbers DEF DmaInv, DmaQueueTransfer
    <3>1. /\ requests' \in [0 .. NumRequests - 1 -> Transfers \cup {None}]
          /\ requests'[c] = t /\ \A i \in 0 .. NumRequests - 1 : i # c => requests'[i] = requests[i]
      BY <1>0, <3>0
    <3>2. /\ accepted' \in Seq(Transfers) /\ Len(accepted') = c + 1 /\ accepted'[c + 1] = t
          /\ \A k \in 1 .. c : accepted'[k] = accepted[k]
      BY <3>0
    <3>3. \A i \in 0 .. NumRequests - 1 : requests'[i] # None <=> i < c'
      BY <1>0, <3>0, <3>1 DEF DmaInv
    <3>5. 0 .. NumRequests - 1 = DOMAIN requests /\ c \in 0 .. NumRequests - 1
      BY <1>0, <3>0
    <3>4. \A k \in 1 .. c + 1 : accepted'[k] = requests'[k - 1]
      <4> TAKE k \in 1 .. c + 1
      <4>1. CASE k = c + 1
        BY <3>0, <3>1, <3>2, <4>1
      <4>2. CASE k # c + 1
        <5>1. k \in 1 .. c /\ k - 1 \in 0 .. NumRequests - 1 /\ k - 1 # c
          <6>1. c \in Nat /\ NumRequests \in Nat /\ c < NumRequests
            BY <1>0, <3>0
          <6> HIDE DEF c
          <6> QED
            BY <4>2, <6>1
        <5> QED
          BY <1>0, <3>0, <3>1, <3>2, <5>1 DEF DmaInv
      <4> QED
        BY <4>1, <4>2
    <3> QED
      BY <1>0, <3>0, <3>1, <3>2, <3>3, <3>4 DEF DmaInv
  <2> QED
    BY <2>1, <2>2
<1>2. CASE QueueTransfer
  BY <1>1, <1>2 DEF QueueTransfer
<1>3. CASE ProcessQueue
  <2>1. /\ requests' = [i \in 0 .. NumRequests - 1 |-> None]
        /\ g_dma_pending_count' = 0 /\ accepted' = <<>>
    BY <1>0, <1>3 DEF ProcessQueue, DmaProcessQueue, DmaInv
  <2> QED
    BY <1>0, <2>1 DEF DmaInv
<1>4. ASSUME UNCHANGED dma PROVE DmaInv'
  BY <1>0, <1>4 DEF DmaInv, dma
<1>5. [Next]_vars => QueueTransfer \/ ProcessQueue \/ UNCHANGED dma
  BY DEF Next, LoopSteps, GameCalls, Retrace, StartLoop, WaitForSystemReady, SeeRetrace,
         BeginFrame, ReturnFromCallback, FinishFrame, WaitVsyncFrames, Waited,
         SetLoopCounter, UseRegistry, RenderAddEntry, MainShutdown, vars
<1> QED
  BY <1>2, <1>3, <1>4, <1>5

LEMMA RenderKept == LoopInv /\ [Next]_vars => RenderInv'
<1> SUFFICES ASSUME LoopInv, [Next]_vars PROVE RenderInv'
  OBVIOUS
<1>0. RenderInv /\ NumEntries \in Nat \ {0}
  BY Numbers DEF LoopInv
<1>1. ASSUME UNCHANGED render PROVE RenderInv'
  BY <1>0, <1>1 DEF RenderInv, render
<1>2. CASE Retrace
  <2>1. CASE UNCHANGED render
    BY <1>1, <2>1
  <2>2. CASE DrawGraphics
    <3>1. /\ entries' = [i \in 0 .. NumEntries - 1 |-> None] /\ scene' = <<>>
          /\ g_render_entry_count' = g_render_entry_count
      BY <1>0, <2>2 DEF DrawGraphics, RenderInv
    <3>2. \A i \in 0 .. g_render_entry_count - 1 :
            entries'[i] # None <=> i >= g_render_entry_count - 0
      BY <1>0, <3>1 DEF RenderInv
    <3> QED
      BY <1>0, <3>1, <3>2 DEF RenderInv
  <2> QED
    BY <1>2, <2>1, <2>2 DEF Retrace, UpdateGraphicTiming
<1>3. ASSUME RenderResetCount, UNCHANGED entries PROVE RenderInv'
  BY <1>0, <1>3 DEF RenderResetCount, RenderInv
<1>4. CASE RenderAddEntry
  <2> DEFINE c == g_render_entry_count
             n == Len(scene)
  <2>0. PICK dl \in Lists : /\ entries' = [entries EXCEPT ![c] = dl]
                            /\ scene' = Append(scene, dl)
    BY <1>4 DEF RenderAddEntry
  <2>1. /\ c \in Nat /\ c < NumEntries /\ c' = c + 1 /\ n \in Nat /\ n <= c
        /\ scene \in Seq(Lists) /\ dl # None
        /\ entries \in [0 .. NumEntries - 1 -> Lists \cup {None}]
    BY <1>0, <1>4, Numbers DEF RenderAddEntry, RenderInv
  <2>2. /\ entries' \in [0 .. NumEntries - 1 -> Lists \cup {None}]
        /\ entries'[c] = dl /\ \A i \in 0 .. NumEntries - 1 : i # c => entries'[i] = entries[i]
    BY <1>0, <2>0, <2>1
  <2>3. /\ scene' \in Seq(Lists) /\ Len(scene') = n + 1 /\ scene'[n + 1] = dl
        /\ \A k \in 1 .. n : scene'[k] = scene[k]
    BY <2>0, <2>1
  <2>4. \A i \in 0 .. c - 1 : entries[i] # None <=> i >= c - n
    BY <1>0 DEF RenderInv
  <2>5. \A k \in 1 .. n : scene[k] = entries[c - n + k - 1]
    BY <1>0 DEF RenderInv
  <2> HIDE DEF n
  <2>6. \A i \in 0 .. c' - 1 : entries'[i] # None <=> i >= c' - (n + 1)
    BY <1>0, <2>1, <2>2, <2>4
  <2>7. \A k \in 1 .. n + 1 : scene'[k] = entries'[c' - (n + 1) + k - 1]
    <3> TAKE k \in 1 .. n + 1
    <3>0. c' - (n + 1) + k - 1 = c - n + k - 1
      BY <2>1
    <3>1. CASE k = n + 1
      <4>1. c - n + k - 1 = c
        BY <2>1, <3>1
      <4> QED
        BY <2>2, <2>3, <3>0, <3>1, <4>1
    <3>2. CASE k # n + 1
      <4>1. k \in 1 .. n /\ c - n + k - 1 \in 0 .. NumEntries - 1 /\ c - n + k - 1 # c
        BY <1>0, <2>1, <3>2
      <4> QED
        BY <2>2, <2>3, <2>5, <3>0, <4>1
    <3> QED
      BY <3>1, <3>2
  <2> QED
    BY <1>0, <2>1, <2>2, <2>3, <2>6, <2>7 DEF RenderInv
<1>5. CASE BeginFrame
  BY <1>1, <1>3, <1>5 DEF BeginFrame, SkipFrame, render
<1>6. CASE ReturnFromCallback
  BY <1>3, <1>6 DEF ReturnFromCallback, SkipFrame
<1>7. [Next]_vars => \/ Retrace \/ RenderAddEntry \/ BeginFrame \/ ReturnFromCallback
                     \/ UNCHANGED render
  BY DEF Next, LoopSteps, GameCalls, StartLoop, WaitForSystemReady, SeeRetrace,
         ProcessQueue, FinishFrame, WaitVsyncFrames, Waited,
         SetLoopCounter, UseRegistry, QueueTransfer, MainShutdown, vars
<1> QED
  BY <1>1, <1>2, <1>4, <1>5, <1>6, <1>7

-----------------------------------------------------------------------------
(***************************************************************************)
(* The theorems                                                            *)
(***************************************************************************)
\* The invariant of the loop, all its parts at once.
THEOREM LoopInvariance == Spec => []LoopInv
<1>1. LoopInv /\ [Next]_vars => LoopInv'
  BY FlagKept, RegistryKept, SkipKept, ClockKept, DmaKept, RenderKept DEF LoopInv
<1> QED
  BY <1>1, LoopInit, PTL DEF Spec

\* A second has at most as many slots as retraces.
LEMMA SlotsBounded ==
  ASSUME NEW t \in 0 .. Second, NEW n \in Nat, NEW r \in Rates, Placed(n, r, t)
  PROVE  n <= Second
<1>1. Second \in Nat /\ r \in Nat \ {0}
  BY RateIs, Numbers
<1>2. CASE t = 0
  BY <1>1, <1>2 DEF Placed
<1>3. CASE t # 0
  <2>1. n > 0 /\ (n - 1) * r < t
    BY <1>3 DEF Placed
  <2>2. n - 1 <= (n - 1) * r /\ (n - 1) * r \in Nat
    <3>1. \A a \in Nat, b \in Nat \ {0} : a <= a * b /\ a * b \in Nat
      OBVIOUS
    <3>2. n - 1 \in Nat
      BY <2>1
    <3> QED
      BY <1>1, <3>1, <3>2
  <2> QED
    BY <1>1, <2>1, <2>2
<1> QED
  BY <1>2, <1>3

\* Types, and with them that the main loop never calls a callback that is null: the
\* registry keeps the current index at a registered routine.
THEOREM TypeCorrect == Spec => []TypeOK
<1>1. LoopInv => TypeOK
  <2> SUFFICES ASSUME LoopInv PROVE TypeOK
    OBVIOUS
  <2>1. since \in 0 .. U16
    BY Numbers DEF LoopInv, SkipInv, Full
  <2>2. g_vsync_flag \in 0 .. U16
    BY Numbers DEF LoopInv, FlagInv
  <2>3. {g_dialogue_state, missed, g_scene_transition_flag, undrawn} \subseteq 0 .. Second
    <3>1. ClockInv /\ ClockTypes
      BY DEF LoopInv, ClockInv
    <3>2. FrameSlots \in Nat /\ DrawSlots \in Nat
      BY <3>1 DEF ClockTypes, FrameSlots, DrawSlots
    <3>3. FrameSlots <= Second
      BY <3>1, <3>2, SlotsBounded DEF ClockInv, ClockTypes
    <3>4. DrawSlots <= Second
      BY <3>1, <3>2, SlotsBounded DEF ClockInv, ClockTypes
    <3> QED
      BY <3>1, <3>3, <3>4, Numbers DEF ClockTypes, FrameSlots, DrawSlots
  <2>4. /\ {second_flag, retrace, prompt} \subseteq BOOLEAN /\ g_frame_drop_flag \in 0 .. 2
        /\ {g_audio_enable_flag, g_system_sub_state} \subseteq Rates
    BY DEF LoopInv, ClockInv, ClockTypes
  <2>5. g_tick_counter_60hz \in 0 .. Second
    BY DEF LoopInv, ClockInv, ClockTypes
  <2>6. {g_frame_rate_divisor, g_frame_skip_counter, asked} \subseteq 0 .. U16 - 1
    BY DEF LoopInv, SkipInv
  <2> QED
    BY <2>1, <2>2, <2>3, <2>4, <2>5, <2>6
       DEF TypeOK, LoopInv, FlagInv, RegistryInv, DmaInv, RenderInv
<1> QED
  BY <1>1, LoopInvariance, PTL

\* At the end of a second every slot of it has been counted.
LEMMA FullSecond ==
  ASSUME NEW n \in Nat, NEW r \in Rates, Placed(n, r, Second)
  PROVE  Second % r = 0 /\ Second \div r = n
<1>1. Second \in Nat \ {0} /\ r \in Nat \ {0} /\ Second % r = 0
  BY RateIs, Numbers
<1>2. n \in Nat \ {0} /\ (n - 1) * r < Second /\ Second <= n * r
  BY <1>1 DEF Placed
<1>3. Second = n * r
  BY <1>1, <1>2, SlotCount
<1> QED
  BY <1>1, <1>2, <1>3, Multiple

\* At the end of a second the drop flag tells whether a retrace of it found a frame
\* unfinished, else whether one left out a draw, at every frame rate and draw rate: the
\* frame and the draw of the retrace that ends it are counted in the next.
THEOREM DropsAreReported == Spec => DropsReported
<1> DEFINE Reported ==
      g_frame_drop_flag' =
        IF missed > 0 THEN 1 ELSE IF undrawn > 0 THEN 2 ELSE g_frame_drop_flag
<1>1. LoopInv /\ [Next]_vars => [Retrace /\ SecondEnds => Reported]_vars
  <2> SUFFICES ASSUME LoopInv, Retrace, SecondEnds PROVE Reported
    OBVIOUS
  <2>0. ClockInv /\ ClockTypes
    BY DEF LoopInv, ClockInv
  <2>1. g_tick_counter_60hz = Second
    BY <2>0, Numbers DEF SecondEnds, ClockTypes
  <2>2. FrameSlots \in Nat /\ DrawSlots \in Nat
    BY <2>0 DEF ClockTypes, FrameSlots, DrawSlots
  <2>3. Second % g_audio_enable_flag = 0 /\ Second \div g_audio_enable_flag = FrameSlots
    BY <2>0, <2>1, <2>2, FullSecond DEF ClockInv, ClockTypes
  <2>4. Second % g_system_sub_state = 0 /\ Second \div g_system_sub_state = DrawSlots
    BY <2>0, <2>1, <2>2, FullSecond DEF ClockInv, ClockTypes
  <2>5. g_frame_drop_flag' = IF g_dialogue_state < FrameSlots THEN 1 ELSE GraphicDrop
    BY <2>1, <2>3 DEF Retrace, UpdateFrameTiming, FrameSlot
  <2>6. GraphicDrop = IF g_scene_transition_flag < DrawSlots THEN 2 ELSE g_frame_drop_flag
    BY <2>1, <2>4 DEF GraphicDrop, DrawSlot
  <2>7. /\ g_dialogue_state < FrameSlots <=> missed > 0
        /\ g_scene_transition_flag < DrawSlots <=> undrawn > 0
    BY <2>0 DEF ClockTypes, FrameSlots, DrawSlots
  <2> QED
    BY <2>5, <2>6, <2>7
<1> QED
  BY <1>1, LoopInvariance, PTL DEF Spec, DropsReported

\* The retrace draws only between frames, and then exactly the lists of the scene: none
\* left from a frame that was not drawn, none drawn twice, in the order they were added.
THEOREM WholeScenes == Spec => DrawsWholeScene
<1>1. LoopInv /\ [Next]_vars
        => [entries' # entries /\ pc' = pc /\ scene' = <<>> =>
              RenderDrawEntries = scene /\ pc \in Polls \cup {"init", "check"}]_vars
  <2> SUFFICES ASSUME LoopInv, [Next]_vars, entries' # entries, scene' = <<>>
               PROVE  RenderDrawEntries = scene /\ pc \in Polls \cup {"init", "check"}
    OBVIOUS
  <2>1. Retrace \/ RenderAddEntry
    BY DEF Next, LoopSteps, GameCalls, StartLoop, WaitForSystemReady, SeeRetrace, BeginFrame,
           ReturnFromCallback, ProcessQueue, FinishFrame, WaitVsyncFrames, Waited,
           SetLoopCounter, UseRegistry, QueueTransfer, MainShutdown, vars, render
  <2>2. ~RenderAddEntry
    <3>1. scene \in Seq(Lists) /\ Len(scene') = 0
      BY DEF LoopInv, RenderInv
    <3> SUFFICES ASSUME RenderAddEntry PROVE FALSE
      OBVIOUS
    <3>2. PICK dl \in Lists : scene' = Append(scene, dl)
      BY DEF RenderAddEntry
    <3>3. Len(scene') = Len(scene) + 1 /\ Len(scene) \in Nat
      BY <3>1, <3>2
    <3> QED
      BY <3>1, <3>3
  <2>3. g_vsync_flag = 0
    BY <2>1, <2>2 DEF Retrace, UpdateGraphicTiming, Draws, render
  <2>4. pc \in Polls \cup {"init", "check"}
    BY <2>3 DEF LoopInv, FlagInv, Polls, Running, Busy
  <2> DEFINE c == g_render_entry_count
             n == Len(scene)
  <2>5. /\ c \in Nat /\ n \in Nat /\ c - n \in Nat /\ c - n <= c /\ scene \in Seq(Lists)
        /\ \A i \in 0 .. c - 1 : entries[i] # None <=> i >= c - n
        /\ \A k \in 1 .. n : scene[k] = entries[c - n + k - 1]
    BY Numbers DEF LoopInv, RenderInv
  <2> DEFINE lo == c - n
  <2>6. lo \in Nat /\ lo <= c /\ c - lo = n /\ c <= c
    BY <2>5
  <2>7. \A i \in 0 .. c - 1 : entries[i] # None <=> i \in lo .. c - 1
    BY <2>5
  <2>8. scene = [k \in 1 .. n |-> entries[lo + k - 1]]
    <3>1. scene = [k \in 1 .. n |-> scene[k]]
      BY <2>5
    <3> QED
      BY <2>5, <3>1
  <2>9. RenderDrawEntries = Present(entries, c)
    BY DEF RenderDrawEntries
  <2>10. c \in Nat
    BY <2>5
  <2> HIDE DEF lo, c, n
  <2>11. Present(entries, c) = [k \in 1 .. c - lo |-> entries[lo + k - 1]]
    BY <2>6, <2>7, <2>10, PresentIs
  <2> QED
    BY <2>4, <2>6, <2>8, <2>9, <2>11
<1> QED
  BY <1>1, LoopInvariance, PTL DEF Spec, DrawsWholeScene

\* At the end of a frame every accepted transfer is made, in the order of acceptance,
\* and the queue is empty: a full queue refuses, it never overwrites or reorders.
THEOREM TransfersAreMade == Spec => TransfersMade
<1>1. LoopInv /\ [Next]_vars
        => [ProcessQueue => /\ Transferred = accepted
                            /\ \A i \in DOMAIN requests : requests'[i] = None]_vars
  <2> SUFFICES ASSUME LoopInv, ProcessQueue
               PROVE  /\ Transferred = accepted
                      /\ \A i \in DOMAIN requests : requests'[i] = None
    OBVIOUS
  <2> DEFINE c == g_dma_pending_count
  <2>1. /\ c \in Nat /\ NumRequests \in Nat /\ c <= NumRequests /\ c = Len(accepted)
        /\ accepted \in Seq(Transfers)
        /\ \A i \in 0 .. NumRequests - 1 : requests[i] # None <=> i < c
        /\ \A k \in 1 .. c : accepted[k] = requests[k - 1]
    BY Numbers DEF LoopInv, DmaInv
  <2>2. \A i \in 0 .. NumRequests - 1 : requests[i] # None <=> i \in 0 .. c - 1
    BY <2>1
  <2>3. accepted = [k \in 1 .. c |-> requests[k - 1]]
    <3>1. accepted = [k \in 1 .. c |-> accepted[k]]
      BY <2>1
    <3> QED
      BY <2>1, <3>1
  <2>4. c \in Nat /\ NumRequests \in Nat /\ c <= NumRequests
    BY <2>1
  <2>5. Transferred = accepted
    <3> HIDE DEF c
    <3>1. Present(requests, NumRequests) = [k \in 1 .. c |-> requests[k - 1]]
      BY <2>2, <2>4, PresentPrefix
    <3> QED
      BY <2>3, <3>1 DEF Transferred
  <2>6. \A i \in DOMAIN requests : requests'[i] = None
    BY DEF ProcessQueue, DmaProcessQueue
  <2> QED
    BY <2>5, <2>6
<1> QED
  BY <1>1, LoopInvariance, PTL DEF Spec, TransfersMade

\* A callback runs again exactly as many frames later as it asked for, and after the
\* counter's whole range when it asked for 0.
THEOREM FramesAreSkipped == Spec => SkipsDivisorFrames
<1>1. LoopInv /\ [Next]_vars
        => [BeginFrame /\ pc' = "callback" /\ since > 0 =>
              since = IF asked = 0 THEN U16 ELSE asked]_vars
  <2> SUFFICES ASSUME LoopInv, BeginFrame, pc' = "callback", since > 0
               PROVE  since = Full
    BY DEF Full
  <2>1. g_frame_skip_counter = 0
    BY DEF BeginFrame, SkipFrame
  <2>2. since + g_frame_skip_counter = Full /\ since \in Nat
    BY DEF LoopInv, SkipInv
  <2> QED
    BY <2>1, <2>2
<1> QED
  BY <1>1, LoopInvariance, PTL DEF Spec, SkipsDivisorFrames
=============================================================================
