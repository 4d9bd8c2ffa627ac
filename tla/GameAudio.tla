----------------------------- MODULE GameAudio ------------------------------
(***************************************************************************)
(* The sounds of harvest-moon-64: the channels and voices of audio.c, that *)
(* sound.c's calls fill and mark and AudioUpdate, once a frame, turns into *)
(* calls of the sound library.  The library is external: a handle names    *)
(* one sound for good, and a sound ends when it is stopped, when its fade  *)
(* is over, or by itself.  The envelopes of the channels are left out.     *)
(***************************************************************************)
EXTENDS Naturals, FiniteSets

CONSTANTS
  NumChannels, NumVoices,    \* 4 and 4
  Bgm,                       \* sequences of the background music
  Effects,                   \* indices of SoundPlayEffect
  EffectChannel,             \* g_sound_sfx_channels, AnyVoice for 0xFF
  AnyVoice,
  EffectVolume,              \* g_sound_sfx_params
  NumHandles                 \* bound: handles a state can tell apart

Channels == 0 .. NumChannels - 1
Voices == NumChannels .. NumChannels + NumVoices - 1
Slots == Channels \cup Voices
Handles == 1 .. NumHandles
NoHandle == 0
NoSound == "none"
Volumes == {0} \cup {EffectVolume[e] : e \in Effects}

ASSUME AudioConstants ==
  /\ NumChannels \in Nat \ {0} /\ NumVoices \in Nat \ {0}
  /\ NumHandles \in Nat /\ NumHandles > 2 * (NumChannels + NumVoices)
  /\ EffectChannel \in [Effects -> Channels \cup {AnyVoice}] /\ AnyVoice \notin Channels
  /\ EffectVolume \in [Effects -> Nat \ {0}]

VARIABLES
  slots,       \* g_audio_channels and g_audio_voices
  sounding,    \* the library: handles whose sound is heard
  fading       \* of those, the ones it fades out

audio == <<slots, sounding, fading>>

\* flags: "used" for 1, "start" for 2, "stop" for 4.  sound: the sequence or sfx_id.
Slot == [flags : SUBSET {"used", "start", "stop"}, handle : Handles \cup {NoHandle},
         sound : Bgm \cup Effects \cup {NoSound}, volume : Volumes]

AudioTypeOK ==
  /\ slots \in [Slots -> Slot]
  /\ sounding \subseteq Handles /\ fading \subseteq sounding

AudioInit ==
  /\ slots = [s \in Slots |-> [flags |-> {}, handle |-> NoHandle, sound |-> NoSound, volume |-> 0]]
  /\ sounding = {} /\ fading = {}

Used(s) == "used" \in slots[s].flags
Starts(s) == Used(s) /\ "start" \in slots[s].flags
Stops(s) == Used(s) /\ "stop" \in slots[s].flags

(***************************************************************************)
(* The sound library                                                       *)
(***************************************************************************)
FreeHandles == Handles \ (sounding \cup {slots[s].handle : s \in Slots})
NthFree(n) == CHOOSE h \in FreeHandles : Cardinality({g \in FreeHandles : g < h}) = n

\* The handles func_800F2704 and func_800F2740 return to the slots that start, each the
\* next new one, or none when the library has no room for the sound.
NewHandles ==
  LET starting == {s \in Slots : Starts(s)}
      Next(s) == NthFree(Cardinality({r \in starting : r < s}))
  IN {[s \in Slots |-> CASE s \in heard -> Next(s)
                        [] s \in starting \ heard -> NoHandle
                        [] OTHER -> slots[s].handle] : heard \in SUBSET starting}

SoundEnds(h) ==
  /\ sounding' = sounding \ {h} /\ fading' = fading \ {h}
  /\ UNCHANGED slots

FadeEnds == \E h \in fading : SoundEnds(h)
SequenceEnds == \E h \in sounding \ fading : SoundEnds(h)

(***************************************************************************)
(* audio.c                                                                 *)
(***************************************************************************)
\* fault: a slot whose sound has ended is not freed
FaultAudioUpdate ==
  \E h \in NewHandles :
    LET on == sounding \cup {h[s] : s \in {r \in Slots : Starts(r)}}
        cut == {h[s] : s \in {v \in Voices : Stops(v)}}
        heard == on \ (cut \cup {NoHandle})
    IN /\ sounding' = heard
       /\ fading' = (fading \cup {h[c] : c \in {d \in Channels : Stops(d)}}) \cap heard
       /\ slots' = [s \in Slots |->
            [slots[s] EXCEPT !.handle = h[s], !.flags = @ \ {"start", "stop"}]]

\* Every slot in use: a pending start, then a pending stop (a fade on a channel), then
\* the slot is free when its sound is not heard any more.
AudioUpdate ==
  \E h \in NewHandles :
    LET on == sounding \cup {h[s] : s \in {r \in Slots : Starts(r)}}
        cut == {h[s] : s \in {v \in Voices : Stops(v)}}
        heard == on \ (cut \cup {NoHandle})
    IN /\ sounding' = heard
       /\ fading' = (fading \cup {h[c] : c \in {d \in Channels : Stops(d)}}) \cap heard
       /\ slots' = [s \in Slots |->
            [slots[s] EXCEPT !.handle = h[s],
                             !.flags = IF Used(s) /\ h[s] \in heard THEN {"used"} ELSE {}]]

AudioChannelInit(c, music) ==
  IF Used(c) THEN UNCHANGED slots
  ELSE slots' = [slots EXCEPT ![c].flags = {"used", "start"}, ![c].sound = music]

\* With fade_speed, one speed for all: the channel is faded out by the next update.
AudioChannelSetSpeed(c) ==
  slots' = IF Used(c) THEN [slots EXCEPT ![c].flags = @ \cup {"stop"}] ELSE slots

\* fault: a channel whose sound is stopping already is only freed
FaultChannelStop(c) ==
  IF Used(c)
    THEN /\ slots' = [slots EXCEPT ![c].flags = {}]
         /\ sounding' = IF slots[c].handle \in fading THEN sounding
                        ELSE sounding \ {slots[c].handle}
         /\ fading' = fading \cap sounding'
    ELSE UNCHANGED audio

AudioChannelStop(c) ==
  IF Used(c)
    THEN /\ slots' = [slots EXCEPT ![c].flags = {}]
         /\ sounding' = sounding \ {slots[c].handle} /\ fading' = fading \ {slots[c].handle}
    ELSE UNCHANGED audio

FreeVoices == {v \in Voices : ~Used(v)}

AudioVoiceAllocate(sl, e) ==
  IF FreeVoices = {} THEN sl
  ELSE LET v == CHOOSE w \in FreeVoices : \A x \in FreeVoices : w <= x
       IN [sl EXCEPT ![v].flags = {"used", "start"}, ![v].sound = e]

Playing(sl, e) == {v \in Voices : "used" \in sl[v].flags /\ sl[v].sound = e}

AudioVoiceSetVolume(sl, e, volume) ==
  [s \in Slots |-> IF s \in Playing(sl, e) THEN [sl[s] EXCEPT !.volume = volume] ELSE sl[s]]

AudioVoiceStop(e) ==
  /\ slots' = [s \in Slots |-> IF s \in Playing(slots, e)
                                 THEN [slots[s] EXCEPT !.flags = @ \cup {"stop"}] ELSE slots[s]]
  /\ UNCHANGED <<sounding, fading>>

(***************************************************************************)
(* sound.c: what the game's own code calls                                 *)
(***************************************************************************)
SoundPlayBgm(music) == AudioChannelInit(0, music) /\ UNCHANGED <<sounding, fading>>
SoundFadeBgm == AudioChannelSetSpeed(0) /\ UNCHANGED <<sounding, fading>>
SoundStopBgm == AudioChannelStop(0)
SoundIsBgmStopped == slots[0].flags = {}
SoundAreVoicesInactive == \A v \in Voices : slots[v].flags = {}

\* fault: the volume is set before there is a voice to have it
FaultPlayEffect(e) ==
  /\ IF EffectChannel[e] = AnyVoice
       THEN slots' = AudioVoiceAllocate(AudioVoiceSetVolume(slots, e, EffectVolume[e]), e)
       ELSE AudioChannelInit(EffectChannel[e], e)
  /\ UNCHANGED <<sounding, fading>>

SoundPlayEffect(e) ==
  /\ IF EffectChannel[e] = AnyVoice
       THEN slots' = AudioVoiceSetVolume(AudioVoiceAllocate(slots, e), e, EffectVolume[e])
       ELSE AudioChannelInit(EffectChannel[e], e)
  /\ UNCHANGED <<sounding, fading>>

(***************************************************************************)
(* Properties                                                              *)
(***************************************************************************)
\* Every sound that is heard belongs to one slot that is in use and has started it, so
\* that a track or an effect can always be stopped, and SoundIsBgmStopped and
\* SoundAreVoicesInactive are not told of a silence that is not there.
Owners(h) == {s \in Slots : Used(s) /\ ~Starts(s) /\ slots[s].handle = h}
SoundsAreOwned == \A h \in sounding : Cardinality(Owners(h)) = 1

\* A voice plays at the volume of its own effect: AudioVoiceAllocate leaves the volume
\* of whatever the voice played before.
OwnVolume == \A v \in Voices : Used(v) => slots[v].volume = EffectVolume[slots[v].sound]

\* A background track that is faded ends, and its channel can play another.
FadesEnd == Stops(0) ~> SoundIsBgmStopped
=============================================================================
