------------------------- MODULE MipsEmulator_proofs -------------------------
(***************************************************************************)
(* The delay-slot flags of the emulator are a pipeline: type correctness,  *)
(* the invariant that ties the flags to the transfer they were set for,    *)
(* and the implementation of MipsPipeline, for every code and memory.      *)
(***************************************************************************)
EXTENDS MipsEmulator, TLAPS

(***************************************************************************)
(* Outside a delay slot no flag is set.                                    *)
(***************************************************************************)
Clear == /\ delayed_branch_target = {}
         /\ ~delay_slot_is_return
         /\ ~delay_slot_is_call
         /\ ~delay_slot_is_indirect_call

(***************************************************************************)
(* In one, they say where the transfer before it goes, and whether that is *)
(* a call that the environment may answer.                                 *)
(***************************************************************************)
Going(t) ==
  /\ delayed_branch_target = {t}
  /\ word.op = "jr" => t # Sentinel
  /\ delay_slot_is_call =>
       Pipeline!Taken(word) /\ call_link_reg = Pipeline!LinkRegister(word)
  /\ Pipeline!Taken(word) /\ (IsExternalCallTarget(t) \/ word.op = "jalr") =>
       delay_slot_is_call

Returning == /\ delay_slot_is_return /\ word.op = "jr"
             /\ delayed_branch_target = {}

Pending == /\ word \in Pipeline!Transfers
           /\ delay_slot_is_indirect_call <=> word.op = "jalr"
           /\ \/ Returning
              \/ ~delay_slot_is_return /\ \E t \in Nat : Going(t)

FlagsInv == Running => (in_delay_slot => Pending) /\ (~in_delay_slot => Clear)

IInv == TypeOK /\ FlagsInv

-----------------------------------------------------------------------------
(***************************************************************************)
(* What the fields of an instruction are.                                  *)
(***************************************************************************)
LEMMA TransferForm ==
  ASSUME NEW w \in Pipeline!Transfers
  PROVE  /\ w.op \in {"branch", "likely", "bal", "ball"} =>
              w.taken \in BOOLEAN /\ w.target \in Targets
         /\ w.op \in {"j", "jal"} => w.target \in Targets
         /\ w.op \in {"jr", "jalr"} => w.reg \in Pipeline!Registers
         /\ w.op = "jalr" => w.link \in Pipeline!Registers
         /\ w.op \in {"branch", "likely", "bal", "ball", "j", "jal", "jr", "jalr"}
  BY DEF Pipeline!Transfers, Pipeline!Branches, Pipeline!Jumps,
         Pipeline!RegisterJumps, Pipeline!Registers

LEMMA SimpleForm ==
  ASSUME NEW w \in Pipeline!Simple
  PROVE  /\ w.op \in {"plain", "load"}
         /\ w.op = "load" => w.reg \in Pipeline!Registers /\ w.value \in Nat
  BY EmulatorConstants DEF Pipeline!Simple, Pipeline!Registers

LEMMA TrapForm ==
  ASSUME NEW w \in Pipeline!Traps
  PROVE  /\ w.op \in {"trap", "eret"}
         /\ w.op = "trap" =>
              w.status \in {"overflow", "break", "invalid", "fault"}
  BY DEF Pipeline!Traps

LEMMA WordsOf ==
  /\ Pipeline!Simple \subseteq Pipeline!Words
  /\ Pipeline!Transfers \subseteq Pipeline!Words
  /\ Pipeline!Traps \subseteq Pipeline!Words
  BY DEF Pipeline!Words

(***************************************************************************)
(* The second program counter, by what the flags say.                      *)
(***************************************************************************)
LEMMA NextPcStraight == Running /\ ~in_delay_slot => NextPc = pc + 1
  BY DEF NextPc

LEMMA NextPcGoing ==
  ASSUME Running, in_delay_slot, ~delay_slot_is_return,
         NEW t, delayed_branch_target = {t}
  PROVE  NextPc = t
  BY DEF NextPc

LEMMA NextPcReturning ==
  Running /\ in_delay_slot /\ delay_slot_is_return => NextPc = Sentinel
  BY DEF NextPc

-----------------------------------------------------------------------------
(***************************************************************************)
(* Setting up a delay slot, the part all transfers share.                  *)
(***************************************************************************)
LEMMA SlotRefines ==
  ASSUME IInv, NEW w \in Pipeline!Transfers, NEW t \in Nat,
         NEW c \in BOOLEAN, Slot(w, t, c),
         ~delay_slot_is_return',
         delay_slot_is_indirect_call' <=> w.op = "jalr",
         w.op = "jr" => t # Sentinel,
         c => Pipeline!Taken(w) /\ call_link_reg' = Pipeline!LinkRegister(w),
         Pipeline!Taken(w) /\ (IsExternalCallTarget(t) \/ w.op = "jalr") => c,
         t = IF Pipeline!Taken(w) THEN Pipeline!Destination(w, gpr) ELSE pc + 2,
         ~Pipeline!Annuls(w),
         gpr' = IF Pipeline!Links(w)
                THEN [gpr EXCEPT ![Pipeline!LinkRegister(w)] = pc + 2] ELSE gpr
  PROVE  FlagsInv' /\ Pipeline!Next
<1>0. /\ Running /\ ~in_delay_slot /\ pc \in Memory /\ pc \in Nat
      /\ status' = status /\ call_log' = call_log
      /\ word' = w /\ pc' = pc + 1 /\ in_delay_slot'
      /\ delayed_branch_target' = {t} /\ delay_slot_is_call' = c
  BY DEF Slot, Fetch, Tick, IInv, TypeOK
<1>1. Running'
  BY <1>0 DEF Running
<1>2. Going(t)'
  BY <1>0 DEF Going, IsExternalCallTarget
<1>3. FlagsInv'
  BY <1>0, <1>1, <1>2 DEF FlagsInv, Pending
<1>4. /\ FetchPc = pc /\ NextPc = pc + 1 /\ ~AtSlot
      /\ FetchPc' = pc + 1 /\ AtSlot'
  BY <1>0, <1>1, NextPcStraight DEF FetchPc, AtSlot
<1>5. NextPc' = t
  BY <1>0, <1>1 DEF NextPc
<1>6. NextPc + 1 = pc + 2
  BY <1>0, <1>4
<1>7. Pipeline!Transfer(w)
  BY <1>0, <1>4, <1>5, <1>6 DEF Pipeline!Transfer, Running
<1> QED
  BY <1>3, <1>7 DEF Pipeline!Next

LEMMA DestinationNat ==
  ASSUME IInv, NEW w \in Pipeline!Transfers
  PROVE  Pipeline!Destination(w, gpr) \in Nat
  BY TransferForm, EmulatorConstants DEF IInv, TypeOK, Pipeline!Destination

(***************************************************************************)
(* A likely branch that is not taken leaves no flag.                       *)
(***************************************************************************)
LEMMA AnnulRefines ==
  ASSUME IInv, NEW w \in Pipeline!Transfers, Annul(w), Pipeline!Annuls(w),
         gpr' = IF Pipeline!Links(w)
                THEN [gpr EXCEPT ![Pipeline!LinkRegister(w)] = pc + 2] ELSE gpr
  PROVE  FlagsInv' /\ Pipeline!Next
<1>0. /\ Running /\ ~in_delay_slot /\ pc \in Memory /\ pc \in Nat
      /\ status' = status /\ call_log' = call_log
      /\ word' = w /\ pc' = pc + 2 /\ ~in_delay_slot'
      /\ Clear /\ Clear'
  BY DEF Annul, Fetch, Tick, IInv, TypeOK, FlagsInv, Clear
<1>1. Running'
  BY <1>0 DEF Running
<1>2. FlagsInv'
  BY <1>0, <1>1 DEF FlagsInv
<1>3. /\ FetchPc = pc /\ NextPc = pc + 1 /\ ~AtSlot
      /\ FetchPc' = pc + 2 /\ ~AtSlot'
  BY <1>0, <1>1, NextPcStraight DEF FetchPc, AtSlot
<1>4. NextPc' = pc + 2 + 1
  BY <1>0, <1>1 DEF NextPc
<1>5. NextPc + 1 = pc + 2 /\ NextPc + 2 = pc + 2 + 1
  BY <1>0, <1>3
<1>6. Pipeline!Transfer(w)
  BY <1>0, <1>3, <1>4, <1>5 DEF Pipeline!Transfer, Running
<1> QED
  BY <1>2, <1>6 DEF Pipeline!Next

(***************************************************************************)
(* The flags a transfer finds: none.                                       *)
(***************************************************************************)
LEMMA BranchStarts ==
  ASSUME IInv, NEW w, NEW t, NEW c, Slot(w, t, c)
  PROVE  Clear /\ pc + 2 \in Nat
<1>1. Running /\ ~in_delay_slot /\ pc \in Nat
  BY DEF Slot, Fetch, Tick, IInv, TypeOK
<1>2. pc + 2 \in Nat
  BY <1>1
<1> QED
  BY <1>1, <1>2 DEF IInv, FlagsInv

LEMMA JumpRefines ==
  ASSUME IInv, NEW w \in Pipeline!Transfers, Jump(w)
  PROVE  FlagsInv' /\ Pipeline!Next
<1> DEFINE t == w.target
           c == IsExternalCallTarget(t)
<1>1. t \in Nat /\ t # Sentinel /\ c \in BOOLEAN
  BY TransferForm, EmulatorConstants DEF Jump, IsExternalCallTarget
<1>2. /\ w.op = "j" /\ Slot(w, t, c) /\ Clear
      /\ gpr' = gpr
      /\ ~delay_slot_is_return' /\ ~delay_slot_is_indirect_call'
      /\ c => call_link_reg' = "ra"
  BY BranchStarts DEF Jump, CallsThrough, Clear
<1>3. /\ Pipeline!Taken(w) /\ ~Pipeline!Annuls(w) /\ ~Pipeline!Links(w)
      /\ Pipeline!LinkRegister(w) = "ra"
      /\ Pipeline!Destination(w, gpr) = t
  BY <1>2 DEF Pipeline!Taken, Pipeline!Annuls, Pipeline!Links,
              Pipeline!LinkRegister, Pipeline!Destination
<1> HIDE DEF t, c
<1>4. Pipeline!Taken(w) /\ (IsExternalCallTarget(t) \/ w.op = "jalr") => c
  BY <1>2 DEF c
<1> QED
  BY <1>1, <1>2, <1>3, <1>4, SlotRefines

LEMMA JumpAndLinkRefines ==
  ASSUME IInv, NEW w \in Pipeline!Transfers, JumpAndLink(w)
  PROVE  FlagsInv' /\ Pipeline!Next
<1> DEFINE t == w.target
<1>1. t \in Nat /\ t # Sentinel
  BY TransferForm, EmulatorConstants DEF JumpAndLink
<1>2. /\ w.op = "jal" /\ Slot(w, t, TRUE) /\ Clear
      /\ gpr' = [gpr EXCEPT !["ra"] = pc + 2]
      /\ ~delay_slot_is_return' /\ ~delay_slot_is_indirect_call'
      /\ call_link_reg' = "ra"
  BY BranchStarts DEF JumpAndLink, CallsThrough, Link, Clear
<1>3. /\ Pipeline!Taken(w) /\ ~Pipeline!Annuls(w) /\ Pipeline!Links(w)
      /\ Pipeline!LinkRegister(w) = "ra"
      /\ Pipeline!Destination(w, gpr) = t
  BY <1>2 DEF Pipeline!Taken, Pipeline!Annuls, Pipeline!Links,
              Pipeline!LinkRegister, Pipeline!Destination
<1> HIDE DEF t
<1> QED
  BY <1>1, <1>2, <1>3, SlotRefines

LEMMA JumpAndLinkRegisterRefines ==
  ASSUME IInv, NEW w \in Pipeline!Transfers, JumpAndLinkRegister(w)
  PROVE  FlagsInv' /\ Pipeline!Next
<1>1. PICK t \in Nat : t = gpr[w.reg]
  BY TransferForm DEF JumpAndLinkRegister, IInv, TypeOK
<1>2. /\ w.op = "jalr" /\ Slot(w, t, TRUE) /\ Clear
      /\ gpr' = [gpr EXCEPT ![w.link] = pc + 2]
      /\ ~delay_slot_is_return' /\ delay_slot_is_indirect_call'
      /\ call_link_reg' = w.link
  BY <1>1, BranchStarts DEF JumpAndLinkRegister, CallsThrough, Link, Clear
<1>3. /\ Pipeline!Taken(w) /\ ~Pipeline!Annuls(w) /\ Pipeline!Links(w)
      /\ Pipeline!LinkRegister(w) = w.link
      /\ Pipeline!Destination(w, gpr) = t
  BY <1>1, <1>2 DEF Pipeline!Taken, Pipeline!Annuls, Pipeline!Links,
              Pipeline!LinkRegister, Pipeline!Destination
<1> QED
  BY <1>1, <1>2, <1>3, SlotRefines

LEMMA JumpRegisterRefines ==
  ASSUME IInv, NEW w \in Pipeline!Transfers, JumpRegister(w)
  PROVE  FlagsInv' /\ Pipeline!Next
<1>1. PICK t \in Nat : t = gpr[w.reg]
  BY TransferForm DEF JumpRegister, IInv, TypeOK
<1>2. w.op = "jr" /\ gpr' = gpr
  BY DEF JumpRegister
<1>3. /\ Pipeline!Taken(w) /\ ~Pipeline!Annuls(w) /\ ~Pipeline!Links(w)
      /\ Pipeline!LinkRegister(w) = "ra"
      /\ Pipeline!Destination(w, gpr) = t
  BY <1>1, <1>2 DEF Pipeline!Taken, Pipeline!Annuls, Pipeline!Links,
                    Pipeline!LinkRegister, Pipeline!Destination
<1>4. CASE t = Sentinel
  <2>1. /\ Running /\ ~in_delay_slot /\ pc \in Memory /\ pc \in Nat
        /\ status' = status /\ call_log' = call_log
        /\ word' = w /\ pc' = pc + 1
        /\ in_delay_slot' /\ delay_slot_is_return' /\ ~delay_slot_is_call'
        /\ delayed_branch_target' = delayed_branch_target
        /\ delay_slot_is_indirect_call' = delay_slot_is_indirect_call
    BY <1>1, <1>4 DEF JumpRegister, Fetch, Tick, IInv, TypeOK
  <2>2. Clear /\ Running'
    BY <2>1 DEF IInv, FlagsInv, Running
  <2>3. Returning' /\ ~delay_slot_is_indirect_call'
    BY <1>2, <2>1, <2>2 DEF Returning, Clear
  <2>4. FlagsInv'
    BY <1>2, <2>1, <2>3 DEF FlagsInv, Pending
  <2>5. /\ FetchPc = pc /\ NextPc = pc + 1 /\ ~AtSlot
        /\ FetchPc' = pc + 1 /\ AtSlot' /\ NextPc' = Sentinel
    BY <2>1, <2>2, NextPcStraight DEF FetchPc, AtSlot, NextPc
  <2>6. Pipeline!Transfer(w)
    BY <1>2, <1>3, <1>4, <2>1, <2>5 DEF Pipeline!Transfer, Running
  <2> QED
    BY <2>4, <2>6 DEF Pipeline!Next
<1>5. CASE t # Sentinel
  <2> DEFINE c == IsExternalCallTarget(t)
  <2>1. /\ Slot(w, t, c) /\ c \in BOOLEAN
        /\ ~delay_slot_is_return'
        /\ delay_slot_is_indirect_call' = delay_slot_is_indirect_call
        /\ c => call_link_reg' = "ra"
    BY <1>1, <1>5, EmulatorConstants
       DEF JumpRegister, CallsThrough, IsExternalCallTarget
  <2>2. ~delay_slot_is_indirect_call'
    BY <2>1, BranchStarts DEF Clear
  <2>3. Pipeline!Taken(w) /\ (IsExternalCallTarget(t) \/ w.op = "jalr") => c
    BY <1>2
  <2> HIDE DEF c
  <2> QED
    BY <1>2, <1>3, <1>5, <2>1, <2>2, <2>3, SlotRefines
<1> QED
  BY <1>4, <1>5

LEMMA SetupBranchRefines ==
  ASSUME IInv, NEW w \in Pipeline!Transfers, SetupBranch(w)
  PROVE  FlagsInv' /\ Pipeline!Next
<1>1. w.op = "branch" /\ w.taken \in BOOLEAN /\ w.target \in Nat
  BY TransferForm, EmulatorConstants DEF SetupBranch
<1>2. PICK t : t = IF w.taken THEN w.target ELSE pc + 2
  OBVIOUS
<1> DEFINE c == w.taken /\ IsExternalCallTarget(w.target)
<1>3. Slot(w, t, c) /\ c \in BOOLEAN /\ gpr' = gpr
  BY <1>2 DEF SetupBranch, IsExternalCallTarget
<1>4. Clear /\ t \in Nat
  BY <1>1, <1>2, <1>3, BranchStarts
<1>5. /\ ~delay_slot_is_return' /\ ~delay_slot_is_indirect_call'
      /\ c => call_link_reg' = "ra"
  BY <1>4 DEF SetupBranch, CallsThrough, Clear
<1>6. /\ Pipeline!Taken(w) = w.taken /\ ~Pipeline!Annuls(w)
      /\ ~Pipeline!Links(w) /\ Pipeline!LinkRegister(w) = "ra"
      /\ Pipeline!Destination(w, gpr) = w.target
  BY <1>1 DEF Pipeline!Taken, Pipeline!Annuls, Pipeline!Links,
              Pipeline!LinkRegister, Pipeline!Destination
<1>7. /\ Pipeline!Taken(w) /\ (IsExternalCallTarget(t) \/ w.op = "jalr") => c
      /\ c => Pipeline!Taken(w)
  BY <1>1, <1>2, <1>6
<1> HIDE DEF c
<1> QED
  BY <1>1, <1>2, <1>3, <1>4, <1>5, <1>6, <1>7, SlotRefines

LEMMA SetupBranchLikelyRefines ==
  ASSUME IInv, NEW w \in Pipeline!Transfers, SetupBranchLikely(w)
  PROVE  FlagsInv' /\ Pipeline!Next
<1>1. /\ w.op = "likely" /\ w.taken \in BOOLEAN /\ w.target \in Nat
      /\ gpr' = gpr
  BY TransferForm, EmulatorConstants DEF SetupBranchLikely
<1>2. /\ Pipeline!Taken(w) = w.taken /\ Pipeline!Annuls(w) = ~w.taken
      /\ ~Pipeline!Links(w) /\ Pipeline!LinkRegister(w) = "ra"
      /\ Pipeline!Destination(w, gpr) = w.target
  BY <1>1 DEF Pipeline!Taken, Pipeline!Annuls, Pipeline!Links,
              Pipeline!LinkRegister, Pipeline!Destination
<1>3. CASE w.taken
  <2> DEFINE t == w.target
             c == IsExternalCallTarget(t)
  <2>1. Slot(w, t, c) /\ c \in BOOLEAN
    BY <1>3, EmulatorConstants DEF SetupBranchLikely, IsExternalCallTarget
  <2>2. /\ ~delay_slot_is_return' /\ ~delay_slot_is_indirect_call'
        /\ c => call_link_reg' = "ra"
    BY <1>3, <2>1, BranchStarts DEF SetupBranchLikely, CallsThrough, Clear
  <2>3. Pipeline!Taken(w) /\ (IsExternalCallTarget(t) \/ w.op = "jalr") => c
    BY <1>1
  <2>4. t \in Nat /\ t = w.target
    BY <1>1
  <2> HIDE DEF c, t
  <2> QED
    BY <1>1, <1>2, <1>3, <2>1, <2>2, <2>3, <2>4, SlotRefines
<1>4. CASE ~w.taken
  BY <1>1, <1>2, <1>4, AnnulRefines DEF SetupBranchLikely
<1> QED
  BY <1>1, <1>3, <1>4

LEMMA BranchAndLinkRefines ==
  ASSUME IInv, NEW w \in Pipeline!Transfers, BranchAndLink(w)
  PROVE  FlagsInv' /\ Pipeline!Next
<1>1. w.op = "bal" /\ w.taken \in BOOLEAN /\ w.target \in Nat
  BY TransferForm, EmulatorConstants DEF BranchAndLink
<1>2. PICK t : t = IF w.taken THEN w.target ELSE pc + 2
  OBVIOUS
<1>3. Slot(w, t, w.taken) /\ gpr' = [gpr EXCEPT !["ra"] = pc + 2]
  BY <1>2 DEF BranchAndLink, Link
<1>4. Clear /\ t \in Nat
  BY <1>1, <1>2, <1>3, BranchStarts
<1>5. /\ ~delay_slot_is_return' /\ ~delay_slot_is_indirect_call'
      /\ call_link_reg' = "ra"
  BY <1>4 DEF BranchAndLink, CallsThrough, Clear
<1>6. /\ Pipeline!Taken(w) = w.taken /\ ~Pipeline!Annuls(w)
      /\ Pipeline!Links(w) /\ Pipeline!LinkRegister(w) = "ra"
      /\ Pipeline!Destination(w, gpr) = w.target
  BY <1>1 DEF Pipeline!Taken, Pipeline!Annuls, Pipeline!Links,
              Pipeline!LinkRegister, Pipeline!Destination
<1> QED
  BY <1>1, <1>2, <1>3, <1>4, <1>5, <1>6, SlotRefines

LEMMA BranchAndLinkLikelyRefines ==
  ASSUME IInv, NEW w \in Pipeline!Transfers, BranchAndLinkLikely(w)
  PROVE  FlagsInv' /\ Pipeline!Next
<1>1. /\ w.op = "ball" /\ w.taken \in BOOLEAN /\ w.target \in Nat
      /\ gpr' = [gpr EXCEPT !["ra"] = pc + 2]
      /\ call_link_reg' = "ra"
  BY TransferForm, EmulatorConstants DEF BranchAndLinkLikely, Link, CallsThrough
<1>2. /\ Pipeline!Taken(w) = w.taken /\ Pipeline!Annuls(w) = ~w.taken
      /\ Pipeline!Links(w) /\ Pipeline!LinkRegister(w) = "ra"
      /\ Pipeline!Destination(w, gpr) = w.target
  BY <1>1 DEF Pipeline!Taken, Pipeline!Annuls, Pipeline!Links,
              Pipeline!LinkRegister, Pipeline!Destination
<1>3. CASE w.taken
  <2>1. PICK t \in Nat : t = w.target
    BY <1>1
  <2>2. Slot(w, t, TRUE)
    BY <1>3, <2>1 DEF BranchAndLinkLikely
  <2>3. ~delay_slot_is_return' /\ ~delay_slot_is_indirect_call'
    BY <1>3, <2>2, BranchStarts DEF BranchAndLinkLikely, Clear
  <2> QED
    BY <1>1, <1>2, <1>3, <2>1, <2>2, <2>3, SlotRefines
<1>4. CASE ~w.taken
  BY <1>1, <1>2, <1>4, AnnulRefines DEF BranchAndLinkLikely
<1> QED
  BY <1>1, <1>3, <1>4

-----------------------------------------------------------------------------
(***************************************************************************)
(* The end of a run: nothing is fetched any more.                          *)
(***************************************************************************)
LEMMA EndRefines == ~Running' => FlagsInv' /\ Pipeline!Stopped
  BY DEF FlagsInv, Pipeline!Stopped, FetchPc, NextPc, AtSlot

LEMMA MemoryFaultRefines ==
  ASSUME MemoryFault
  PROVE  FlagsInv' /\ Pipeline!Next
<1>1. /\ Running /\ pc \notin Memory /\ status' = "fault" /\ ~Running'
      /\ UNCHANGED <<gpr, call_log, word>>
  BY DEF MemoryFault, Tick, End, Running
<1>2. Pipeline!Stop
  BY <1>1, EndRefines DEF Pipeline!Stop, Pipeline!Ends, FetchPc, Running
<1> QED
  BY <1>1, <1>2, EndRefines DEF Pipeline!Next

LEMMA OutOfStepsRefines ==
  ASSUME OutOfSteps
  PROVE  FlagsInv' /\ Pipeline!Next
<1>1. /\ Running /\ status' = "max steps" /\ ~Running'
      /\ UNCHANGED <<gpr, call_log, word>>
  BY DEF OutOfSteps, End, Running
<1>2. Pipeline!Stop
  BY <1>1, EndRefines DEF Pipeline!Stop, Pipeline!Ends, Running
<1> QED
  BY <1>1, <1>2, EndRefines DEF Pipeline!Next

LEMMA BranchInSlotRefines ==
  ASSUME NEW w \in Pipeline!Transfers, BranchInSlot(w)
  PROVE  FlagsInv' /\ Pipeline!Next
<1>1. /\ Running /\ pc \in Memory /\ in_delay_slot
      /\ status' = "invalid" /\ ~Running' /\ word' = w
      /\ UNCHANGED <<gpr, call_log>>
  BY DEF BranchInSlot, Fetch, Tick, End, Running
<1>2. Pipeline!Fetched(w) /\ AtSlot
  BY <1>1 DEF Pipeline!Fetched, FetchPc, AtSlot, Running
<1>3. Pipeline!Stop
  BY <1>1, <1>2, EndRefines DEF Pipeline!Stop, Pipeline!Ends
<1> QED
  BY <1>1, <1>3, EndRefines DEF Pipeline!Next

LEMMA TrapRefines ==
  ASSUME NEW w \in Pipeline!Traps, Trap(w) \/ ERet(w)
  PROVE  FlagsInv' /\ Pipeline!Next
<1>1. /\ Running /\ pc \in Memory /\ word' = w
      /\ status' = (IF w.op = "eret" THEN "returned" ELSE w.status)
      /\ UNCHANGED <<gpr, call_log>>
  BY DEF Trap, ERet, Fetch, Tick, End
<1>2. ~Running'
  BY <1>1, TrapForm DEF Running
<1>3. Pipeline!Fetched(w)
  BY <1>1 DEF Pipeline!Fetched, FetchPc, Running
<1>4. Pipeline!Stop
  BY <1>1, <1>2, <1>3, EndRefines DEF Pipeline!Stop, Pipeline!Ends
<1> QED
  BY <1>2, <1>4, EndRefines DEF Pipeline!Next

(***************************************************************************)
(* A run starts with no flag set, whatever the last one left.              *)
(***************************************************************************)
LEMMA RunFunctionRefines ==
  ASSUME IInv, RunFunction
  PROVE  FlagsInv' /\ Pipeline!Next
<1>1. /\ status # "running" /\ status' = "running"
      /\ pc' \in Starts /\ ~in_delay_slot'
      /\ call_log' = << >> /\ word' = Pipeline!NoWord /\ Clear'
      /\ Running'
  BY DEF RunFunction, Entered, Running, Clear
<1>2. FlagsInv'
  BY <1>1 DEF FlagsInv
<1>3. FetchPc' = pc' /\ NextPc' = FetchPc' + 1 /\ AtSlot' = FALSE
  BY <1>1 DEF FetchPc, NextPc, AtSlot
<1>4. Pipeline!Enter
  BY <1>1, <1>3 DEF Pipeline!Enter, RunFunction, ReturnAddress
<1> QED
  BY <1>2, <1>4 DEF Pipeline!Next

-----------------------------------------------------------------------------
(***************************************************************************)
(* Any other instruction, outside a delay slot and in one.                 *)
(***************************************************************************)
LEMMA ExecuteForm ==
  ASSUME NEW w, Execute(w)
  PROVE  /\ Running /\ pc \in Memory /\ word' = w
         /\ gpr' = Pipeline!Effect(w, gpr)
         /\ FetchPc = pc /\ (AtSlot <=> in_delay_slot)
  BY DEF Execute, Fetch, Tick, FetchPc, AtSlot

LEMMA StraightRefines ==
  ASSUME IInv, NEW w \in Pipeline!Simple, Straight(w)
  PROVE  FlagsInv' /\ Pipeline!Next
<1>1. /\ Execute(w) /\ ~in_delay_slot /\ ~in_delay_slot' /\ pc' = pc + 1
      /\ status' = status /\ call_log' = call_log
      /\ Clear => Clear'
  BY DEF Straight, flags, Clear
<1>2. Running /\ Running' /\ Clear
  BY <1>1, ExecuteForm DEF Running, IInv, FlagsInv
<1>3. FlagsInv'
  BY <1>1, <1>2 DEF FlagsInv
<1>4. /\ FetchPc' = pc' /\ NextPc' = FetchPc' + 1 /\ AtSlot' = FALSE
      /\ NextPc = pc + 1 /\ AtSlot = FALSE
  BY <1>1, <1>2, NextPcStraight DEF FetchPc, NextPc, AtSlot
<1>5. Pipeline!Advance(w)
  BY <1>1, <1>2, <1>4, ExecuteForm
     DEF Pipeline!Advance, Pipeline!Answered, Running
<1> QED
  BY <1>3, <1>5 DEF Pipeline!Next

LEMMA SlotReturnsRefines ==
  ASSUME IInv, NEW w \in Pipeline!Simple, SlotReturns(w)
  PROVE  FlagsInv' /\ Pipeline!Next
<1>1. /\ Execute(w) /\ in_delay_slot /\ delay_slot_is_return
      /\ status' = "returned" /\ call_log' = call_log /\ ~Running'
  BY DEF SlotReturns, Running
<1>2. Returning /\ Running
  BY <1>1, ExecuteForm DEF IInv, FlagsInv, Pending
<1>3. word.op = "jr" /\ NextPc = Sentinel /\ AtSlot
  BY <1>1, <1>2, NextPcReturning DEF Returning, AtSlot
<1>4. Pipeline!Advance(w)
  BY <1>1, <1>2, <1>3, ExecuteForm, EndRefines
     DEF Pipeline!Advance, Running
<1> QED
  BY <1>1, <1>4, EndRefines DEF Pipeline!Next

(***************************************************************************)
(* The call is intercepted exactly when the environment answers it.        *)
(***************************************************************************)
LEMMA InterceptedAnswered ==
  ASSUME NEW t, Going(t), Running, in_delay_slot, ~delay_slot_is_return,
         delay_slot_is_indirect_call <=> word.op = "jalr"
  PROVE  Pipeline!Answered <=> delay_slot_is_call /\ Intercepted(t)
<1>1. NextPc = t /\ AtSlot
  BY NextPcGoing DEF Going, AtSlot
<1> QED
  BY <1>1 DEF Pipeline!Answered, Intercepted, IsExternalCallTarget, Going

LEMMA SlotArrivesRefines ==
  ASSUME IInv, NEW w \in Pipeline!Simple, SlotArrives(w)
  PROVE  FlagsInv' /\ Pipeline!Next
<1>1. /\ Execute(w) /\ in_delay_slot /\ ~delay_slot_is_return
      /\ ~in_delay_slot' /\ Clear'
  BY DEF SlotArrives, LeaveSlot, Clear
<1>2. Running /\ pc \in Memory
  BY <1>1, ExecuteForm
<1>3. PICK t \in Nat : Going(t)
  BY <1>1, <1>2 DEF IInv, FlagsInv, Pending, Returning
<1>4. /\ delay_slot_is_indirect_call <=> word.op = "jalr"
  BY <1>1, <1>2 DEF IInv, FlagsInv, Pending
<1>5. /\ NextPc = t /\ AtSlot
      /\ ~(word.op = "jr" /\ NextPc = Sentinel)
  BY <1>1, <1>2, <1>3, NextPcGoing DEF Going, AtSlot
<1>6. Pipeline!Answered <=> delay_slot_is_call /\ Intercepted(t)
  BY <1>1, <1>2, <1>3, <1>4, InterceptedAnswered
<1>7. IF delay_slot_is_call /\ Intercepted(t)
      THEN HandleCallTarget(t, gpr')
      ELSE pc' = t /\ UNCHANGED <<status, call_log>>
  BY <1>3 DEF SlotArrives, Going
<1>8. FlagsInv'
  BY <1>1 DEF FlagsInv
<1>9. Running' => /\ FetchPc' = pc' /\ NextPc' = FetchPc' + 1
                  /\ AtSlot' = FALSE
  BY <1>1 DEF FetchPc, NextPc, AtSlot
<1>10. CASE Pipeline!Answered
  <2>1. /\ HandleCallTarget(t, gpr')
        /\ call_link_reg = Pipeline!LinkRegister(word)
    BY <1>3, <1>6, <1>7, <1>10 DEF Going
  <2> DEFINE back == gpr'[Pipeline!LinkRegister(word)]
  <2>2. /\ call_log' = Append(call_log, <<NextPc, gpr'["a0"]>>)
        /\ back = Sentinel => status' = "returned"
        /\ back # Sentinel => pc' = back /\ status' = status
    BY <1>5, <2>1 DEF HandleCallTarget
  <2>3. /\ back = Sentinel => Pipeline!Stopped
        /\ back # Sentinel => /\ FetchPc' = back /\ NextPc' = back + 1
                              /\ AtSlot' = FALSE
    BY <1>2, <1>9, <2>2, EndRefines DEF Running
  <2>4. Pipeline!Advance(w)
    BY <1>1, <1>2, <1>10, <2>2, <2>3, ExecuteForm
       DEF Pipeline!Advance, Running
  <2> QED
    BY <1>8, <2>4 DEF Pipeline!Next
<1>11. CASE ~Pipeline!Answered
  <2>1. pc' = t /\ status' = status /\ call_log' = call_log
    BY <1>6, <1>7, <1>11
  <2>2. FetchPc' = NextPc /\ NextPc' = NextPc + 1 /\ AtSlot' = FALSE
    BY <1>2, <1>5, <1>9, <2>1 DEF Running
  <2>3. Pipeline!Advance(w)
    BY <1>1, <1>2, <1>5, <1>11, <2>1, <2>2, ExecuteForm
       DEF Pipeline!Advance, Running
  <2> QED
    BY <1>8, <2>3 DEF Pipeline!Next
<1> QED
  BY <1>10, <1>11

-----------------------------------------------------------------------------
(***************************************************************************)
(* Type correctness of the parts of an action.                             *)
(***************************************************************************)
LEMMA TickType ==
  ASSUME TypeOK, Tick
  PROVE  total_steps' \in 0 .. MaxSteps
<1>1. /\ total_steps \in 0 .. MaxSteps /\ MaxSteps \in Nat
      /\ total_steps < MaxSteps /\ total_steps' = total_steps + 1
  BY EmulatorConstants DEF TypeOK, Tick
<1> QED
  BY <1>1

LEMMA FetchType ==
  ASSUME TypeOK, NEW w \in Pipeline!Words, Fetch(w)
  PROVE  /\ total_steps' \in 0 .. MaxSteps
         /\ word' \in Pipeline!Words \union {Pipeline!NoWord}
         /\ status = "running" /\ pc + 1 \in Nat /\ pc + 2 \in Nat
  BY TickType DEF TypeOK, Fetch, Tick, Running

LEMMA EndType ==
  ASSUME TypeOK, NEW how, End(how),
         how \in {"fault", "invalid", "overflow", "break", "max steps"},
         total_steps' \in 0 .. MaxSteps,
         word' \in Pipeline!Words \union {Pipeline!NoWord}
  PROVE  TypeOK'
<1>1. UNCHANGED <<pc, gpr, in_delay_slot, delayed_branch_target,
                  delay_slot_is_return, delay_slot_is_call,
                  delay_slot_is_indirect_call, call_link_reg>>
  BY DEF End, flags
<1>2. status' = how
  BY DEF End
<1> QED
  BY <1>1, <1>2 DEF TypeOK

LEMMA SlotType ==
  ASSUME TypeOK, NEW w \in Pipeline!Words, NEW t \in Nat, NEW c \in BOOLEAN,
         Slot(w, t, c),
         gpr' \in [Pipeline!Registers -> Nat],
         delay_slot_is_return' \in BOOLEAN,
         delay_slot_is_indirect_call' \in BOOLEAN,
         call_link_reg' \in Pipeline!Registers
  PROVE  TypeOK'
<1>1. Fetch(w)
  BY DEF Slot
<1> QED
  BY <1>1, FetchType DEF TypeOK, Slot

LEMMA AnnulType ==
  ASSUME TypeOK, NEW w \in Pipeline!Words, Annul(w),
         gpr' \in [Pipeline!Registers -> Nat],
         call_link_reg' \in Pipeline!Registers
  PROVE  TypeOK'
<1>1. Fetch(w)
  BY DEF Annul
<1> QED
  BY <1>1, FetchType DEF TypeOK, Annul

LEMMA LinkType ==
  ASSUME TypeOK, NEW r \in Pipeline!Registers
  PROVE  [gpr EXCEPT ![r] = pc + 2] \in [Pipeline!Registers -> Nat]
<1>1. pc \in Nat /\ gpr \in [Pipeline!Registers -> Nat]
  BY DEF TypeOK
<1>2. pc + 2 \in Nat
  BY <1>1
<1> QED
  BY <1>1, <1>2

LEMMA RaRegister == "ra" \in Pipeline!Registers /\ "a0" \in Pipeline!Registers
  BY DEF Pipeline!Registers

(***************************************************************************)
(* Type correctness, action by action.                                     *)
(***************************************************************************)
LEMMA BranchTypes ==
  ASSUME TypeOK, NEW w \in Pipeline!Transfers, Branch(w)
  PROVE  TypeOK'
<1>1. w \in Pipeline!Words
  BY WordsOf
<1>2. /\ w.op \in {"branch", "likely", "bal", "ball"} => w.taken \in BOOLEAN
      /\ w.op \in {"branch", "likely", "bal", "ball", "j", "jal"} =>
           w.target \in Nat
      /\ w.op \in {"jr", "jalr"} => gpr[w.reg] \in Nat
      /\ w.op = "jalr" => w.link \in Pipeline!Registers
      /\ pc + 2 \in Nat
      /\ gpr \in [Pipeline!Registers -> Nat]
      /\ call_link_reg \in Pipeline!Registers
      /\ delay_slot_is_return \in BOOLEAN
      /\ delay_slot_is_indirect_call \in BOOLEAN
  <2>1. /\ pc \in Nat
        /\ gpr \in [Pipeline!Registers -> Nat]
        /\ call_link_reg \in Pipeline!Registers
        /\ delay_slot_is_return \in BOOLEAN
        /\ delay_slot_is_indirect_call \in BOOLEAN
    BY DEF TypeOK
  <2>2. pc + 2 \in Nat
    BY <2>1
  <2> QED
    BY <2>1, <2>2, TransferForm, EmulatorConstants
<1>3. CASE Jump(w)
  <2>1. IsExternalCallTarget(w.target) \in BOOLEAN
    BY EmulatorConstants DEF IsExternalCallTarget
  <2>2. /\ w.op = "j" /\ Slot(w, w.target, IsExternalCallTarget(w.target))
        /\ call_link_reg' \in {"ra", call_link_reg}
        /\ UNCHANGED <<gpr, delay_slot_is_return, delay_slot_is_indirect_call>>
    BY <1>3 DEF Jump, CallsThrough
  <2> QED
    BY <1>1, <1>2, <2>1, <2>2, SlotType, RaRegister
<1>4. CASE JumpAndLink(w)
  <2>1. /\ w.op = "jal" /\ Slot(w, w.target, TRUE)
        /\ call_link_reg' = "ra" /\ gpr' = [gpr EXCEPT !["ra"] = pc + 2]
        /\ UNCHANGED <<delay_slot_is_return, delay_slot_is_indirect_call>>
    BY <1>4 DEF JumpAndLink, CallsThrough, Link
  <2> QED
    BY <1>1, <1>2, <2>1, SlotType, LinkType, RaRegister
<1>5. CASE JumpRegister(w)
  <2>1. PICK t \in Nat : t = gpr[w.reg]
    BY <1>2, <1>5 DEF JumpRegister
  <2>2. IsExternalCallTarget(t) \in BOOLEAN
    BY EmulatorConstants DEF IsExternalCallTarget
  <2>3. CASE t = Sentinel
    <3>1. /\ Fetch(w) /\ pc' = pc + 1
          /\ in_delay_slot' = TRUE
          /\ delay_slot_is_return' = TRUE /\ delay_slot_is_call' = FALSE
          /\ UNCHANGED <<status, delayed_branch_target, call_link_reg, gpr,
                         delay_slot_is_indirect_call>>
      BY <1>5, <2>1, <2>3 DEF JumpRegister
    <3> QED
      BY <1>1, <3>1, FetchType DEF TypeOK
  <2>4. CASE t # Sentinel
    <3>1. /\ Slot(w, t, IsExternalCallTarget(t))
          /\ delay_slot_is_return' = FALSE
          /\ call_link_reg' \in {"ra", call_link_reg}
          /\ UNCHANGED <<gpr, delay_slot_is_indirect_call>>
      BY <1>5, <2>1, <2>4 DEF JumpRegister, CallsThrough
    <3> QED
      BY <1>1, <1>2, <2>2, <3>1, SlotType, RaRegister
  <2> QED
    BY <2>3, <2>4
<1>6. CASE JumpAndLinkRegister(w)
  <2>1. PICK t \in Nat : t = gpr[w.reg]
    BY <1>2, <1>6 DEF JumpAndLinkRegister
  <2>2. /\ w.op = "jalr" /\ Slot(w, t, TRUE)
        /\ delay_slot_is_indirect_call' = TRUE
        /\ call_link_reg' = w.link /\ gpr' = [gpr EXCEPT ![w.link] = pc + 2]
        /\ UNCHANGED delay_slot_is_return
    BY <1>6, <2>1 DEF JumpAndLinkRegister, CallsThrough, Link
  <2> QED
    BY <1>1, <1>2, <2>2, SlotType, LinkType
<1>7. CASE SetupBranch(w)
  <2>1. w.op = "branch"
    BY <1>7 DEF SetupBranch
  <2>2. PICK t \in Nat : t = IF w.taken THEN w.target ELSE pc + 2
    BY <1>2, <2>1
  <2>3. PICK c \in BOOLEAN : c = (w.taken /\ IsExternalCallTarget(w.target))
    OBVIOUS
  <2>4. /\ Slot(w, t, c)
        /\ call_link_reg' \in {"ra", call_link_reg}
        /\ UNCHANGED <<gpr, delay_slot_is_return, delay_slot_is_indirect_call>>
    BY <1>7, <2>2, <2>3 DEF SetupBranch, CallsThrough
  <2> QED
    BY <1>1, <1>2, <2>4, SlotType, RaRegister
<1>8. CASE SetupBranchLikely(w)
  <2>1. w.op = "likely" /\ gpr' = gpr
    BY <1>8 DEF SetupBranchLikely
  <2>2. IsExternalCallTarget(w.target) \in BOOLEAN
    BY EmulatorConstants DEF IsExternalCallTarget
  <2>3. CASE w.taken
    <3>1. /\ Slot(w, w.target, IsExternalCallTarget(w.target))
          /\ call_link_reg' \in {"ra", call_link_reg}
          /\ UNCHANGED <<delay_slot_is_return, delay_slot_is_indirect_call>>
      BY <1>8, <2>3 DEF SetupBranchLikely, CallsThrough
    <3> QED
      BY <1>1, <1>2, <2>1, <2>2, <3>1, SlotType, RaRegister
  <2>4. CASE ~w.taken
    <3>1. Annul(w) /\ call_link_reg' = call_link_reg
      BY <1>8, <2>4 DEF SetupBranchLikely
    <3> QED
      BY <1>1, <1>2, <2>1, <3>1, AnnulType
  <2> QED
    BY <2>3, <2>4
<1>9. CASE BranchAndLink(w)
  <2>1. w.op = "bal" /\ call_link_reg' = "ra"
        /\ gpr' = [gpr EXCEPT !["ra"] = pc + 2]
        /\ UNCHANGED <<delay_slot_is_return, delay_slot_is_indirect_call>>
    BY <1>9 DEF BranchAndLink, CallsThrough, Link
  <2>2. PICK t \in Nat : t = IF w.taken THEN w.target ELSE pc + 2
    BY <1>2, <2>1
  <2>3. Slot(w, t, w.taken)
    BY <1>9, <2>2 DEF BranchAndLink
  <2> QED
    BY <1>1, <1>2, <2>1, <2>3, SlotType, LinkType, RaRegister
<1>10. CASE BranchAndLinkLikely(w)
  <2>1. /\ w.op = "ball" /\ call_link_reg' = "ra"
        /\ gpr' = [gpr EXCEPT !["ra"] = pc + 2]
    BY <1>10 DEF BranchAndLinkLikely, CallsThrough, Link
  <2>2. CASE w.taken
    <3>1. /\ Slot(w, w.target, TRUE)
          /\ UNCHANGED <<delay_slot_is_return, delay_slot_is_indirect_call>>
      BY <1>10, <2>2 DEF BranchAndLinkLikely
    <3> QED
      BY <1>1, <1>2, <2>1, <3>1, SlotType, LinkType, RaRegister
  <2>3. CASE ~w.taken
    <3>1. Annul(w)
      BY <1>10, <2>3 DEF BranchAndLinkLikely
    <3> QED
      BY <1>1, <2>1, <3>1, AnnulType, LinkType, RaRegister
  <2> QED
    BY <2>2, <2>3
<1>11. CASE BranchInSlot(w)
  BY <1>1, <1>11, FetchType, EndType DEF BranchInSlot
<1> QED
  BY <1>3, <1>4, <1>5, <1>6, <1>7, <1>8, <1>9, <1>10, <1>11 DEF Branch

LEMMA RunFunctionType ==
  ASSUME TypeOK, RunFunction
  PROVE  TypeOK'
<1>1. PICK regs \in {gpr, [r \in Pipeline!Registers |-> 0]} :
        gpr' = IF regs["ra"] = 0 THEN [regs EXCEPT !["ra"] = Sentinel] ELSE regs
  BY DEF RunFunction, ReturnAddress
<1>2. regs \in [Pipeline!Registers -> Nat] /\ Sentinel \in Nat
  <2>1. gpr \in [Pipeline!Registers -> Nat]
    BY DEF TypeOK
  <2>2. [r \in Pipeline!Registers |-> 0] \in [Pipeline!Registers -> Nat]
    OBVIOUS
  <2> QED
    BY <1>1, <2>1, <2>2, EmulatorConstants
<1>3. gpr' \in [Pipeline!Registers -> Nat]
  BY <1>1, <1>2
<1>4. /\ status' = "running" /\ pc' \in Nat
      /\ in_delay_slot' = FALSE /\ delayed_branch_target' = {}
      /\ delay_slot_is_return' = FALSE /\ delay_slot_is_call' = FALSE
      /\ delay_slot_is_indirect_call' = FALSE
      /\ call_link_reg' = "ra" /\ total_steps' = 0
      /\ word' = Pipeline!NoWord
  BY EmulatorConstants DEF RunFunction, Entered
<1>5. total_steps' \in 0 .. MaxSteps
  BY <1>4, EmulatorConstants
<1> QED
  BY <1>3, <1>4, <1>5, RaRegister DEF TypeOK

LEMMA SimpleTypes ==
  ASSUME TypeOK, NEW w \in Pipeline!Simple,
         Straight(w) \/ SlotReturns(w) \/ SlotArrives(w)
  PROVE  TypeOK'
<1>1. w \in Pipeline!Words /\ Fetch(w) /\ gpr' = Pipeline!Effect(w, gpr)
  BY WordsOf DEF Straight, SlotReturns, SlotArrives, Execute
<1>2. gpr \in [Pipeline!Registers -> Nat]
  BY DEF TypeOK
<1>3. gpr' \in [Pipeline!Registers -> Nat]
  BY <1>1, <1>2, SimpleForm DEF Pipeline!Effect
<1>4. CASE Straight(w)
  <2>1. /\ pc' = pc + 1 /\ status' = status
        /\ UNCHANGED <<in_delay_slot, delayed_branch_target,
                       delay_slot_is_return, delay_slot_is_call,
                       delay_slot_is_indirect_call, call_link_reg>>
    BY <1>4 DEF Straight, flags
  <2> QED
    BY <1>1, <1>3, <2>1, FetchType DEF TypeOK
<1>5. CASE SlotReturns(w)
  <2>1. /\ pc' = pc /\ status' = "returned" /\ delay_slot_is_return' = FALSE
        /\ LeaveSlot
    BY <1>5 DEF SlotReturns
  <2> QED
    BY <1>1, <1>3, <2>1, FetchType DEF TypeOK, LeaveSlot
<1>6. CASE SlotArrives(w)
  <2>1. LeaveSlot /\ delay_slot_is_return' = delay_slot_is_return
    BY <1>6 DEF SlotArrives
  <2>2. PICK t \in delayed_branch_target :
          IF delay_slot_is_call /\ Intercepted(t)
          THEN HandleCallTarget(t, gpr')
          ELSE pc' = t /\ UNCHANGED <<status, call_log>>
    BY <1>6 DEF SlotArrives
  <2>3. t \in Nat /\ gpr'[call_link_reg] \in Nat /\ pc \in Nat
    BY <1>3, <2>2 DEF TypeOK
  <2>4. pc' \in Nat /\ status' \in {status, "returned"}
    BY <2>2, <2>3 DEF HandleCallTarget
  <2> QED
    BY <1>1, <1>3, <2>1, <2>4, FetchType DEF TypeOK, LeaveSlot
<1> QED
  BY <1>4, <1>5, <1>6

LEMMA TrapTypes ==
  ASSUME TypeOK, NEW w \in Pipeline!Traps, Trap(w) \/ ERet(w)
  PROVE  TypeOK'
<1>1. w \in Pipeline!Words /\ Fetch(w)
  BY WordsOf DEF Trap, ERet
<1>2. CASE Trap(w)
  BY <1>1, <1>2, FetchType, EndType, TrapForm DEF Trap
<1>3. CASE ERet(w)
  <2>1. /\ pc' \in IF delayed_branch_target = {} THEN {pc}
                   ELSE delayed_branch_target
        /\ status' = "returned"
        /\ UNCHANGED <<gpr, in_delay_slot, delayed_branch_target,
                       delay_slot_is_return, delay_slot_is_call,
                       delay_slot_is_indirect_call, call_link_reg>>
    BY <1>3 DEF ERet, flags
  <2>2. pc' \in Nat
    BY <2>1 DEF TypeOK
  <2> QED
    BY <1>1, <2>1, <2>2, FetchType DEF TypeOK
<1> QED
  BY <1>2, <1>3

LEMMA CutOffTypes ==
  ASSUME TypeOK, MemoryFault \/ OutOfSteps
  PROVE  TypeOK'
<1>1. CASE MemoryFault
  <2>1. Tick /\ End("fault") /\ word' = word
    BY <1>1 DEF MemoryFault
  <2>2. word' \in Pipeline!Words \union {Pipeline!NoWord}
    BY <2>1 DEF TypeOK
  <2> QED
    BY <2>1, <2>2, TickType, EndType
<1>2. CASE OutOfSteps
  <2>1. End("max steps") /\ word' = word /\ total_steps' = total_steps
    BY <1>2 DEF OutOfSteps
  <2>2. /\ word' \in Pipeline!Words \union {Pipeline!NoWord}
        /\ total_steps' \in 0 .. MaxSteps
    BY <2>1 DEF TypeOK
  <2> QED
    BY <2>1, <2>2, EndType
<1> QED
  BY <1>1, <1>2

-----------------------------------------------------------------------------
LEMMA InitIInv == Init => IInv /\ Pipeline!Init
<1> SUFFICES ASSUME Init
             PROVE  IInv /\ Pipeline!Init
  OBVIOUS
<1>1. total_steps \in 0 .. MaxSteps
  BY EmulatorConstants DEF Init
<1>2. TypeOK
  BY <1>1, RaRegister DEF Init, TypeOK
<1>3. ~Running
  BY DEF Init, Running
<1>4. Pipeline!Init
  BY <1>3 DEF Init, Pipeline!Init, FetchPc, NextPc, AtSlot
<1> QED
  BY <1>2, <1>3, <1>4 DEF IInv, FlagsInv

(***************************************************************************)
(* Every step keeps the invariant and is a step of the pipeline.           *)
(***************************************************************************)
LEMMA NextRefines ==
  ASSUME IInv, Next
  PROVE  IInv' /\ Pipeline!Next
<1>1. TypeOK
  BY DEF IInv
<1>2. CASE RunFunction
  BY <1>1, <1>2, RunFunctionRefines, RunFunctionType DEF IInv
<1>3. CASE MemoryFault
  BY <1>1, <1>3, MemoryFaultRefines, CutOffTypes DEF IInv
<1>4. ASSUME NEW w \in Pipeline!Transfers, Branch(w)
      PROVE  IInv' /\ Pipeline!Next
  <2>1. TypeOK'
    BY <1>1, <1>4, BranchTypes
  <2>2. FlagsInv' /\ Pipeline!Next
    BY <1>4, JumpRefines, JumpAndLinkRefines, JumpRegisterRefines,
       JumpAndLinkRegisterRefines, SetupBranchRefines,
       SetupBranchLikelyRefines, BranchAndLinkRefines,
       BranchAndLinkLikelyRefines, BranchInSlotRefines DEF Branch
  <2> QED
    BY <2>1, <2>2 DEF IInv
<1>5. ASSUME NEW w \in Pipeline!Traps, Trap(w) \/ ERet(w)
      PROVE  IInv' /\ Pipeline!Next
  BY <1>1, <1>5, TrapRefines, TrapTypes DEF IInv
<1>6. ASSUME NEW w \in Pipeline!Simple,
             Straight(w) \/ SlotReturns(w) \/ SlotArrives(w)
      PROVE  IInv' /\ Pipeline!Next
  <2>1. TypeOK'
    BY <1>1, <1>6, SimpleTypes
  <2>2. FlagsInv' /\ Pipeline!Next
    BY <1>6, StraightRefines, SlotReturnsRefines, SlotArrivesRefines
  <2> QED
    BY <2>1, <2>2 DEF IInv
<1>7. CASE OutOfSteps
  BY <1>1, <1>7, OutOfStepsRefines, CutOffTypes DEF IInv
<1> QED
  BY <1>2, <1>3, <1>4, <1>5, <1>6, <1>7 DEF Next, Step

LEMMA StutterRefines ==
  ASSUME UNCHANGED vars
  PROVE  (IInv => IInv') /\ UNCHANGED Pipeline!vars
<1>1. UNCHANGED <<status, pc, gpr, call_log, in_delay_slot,
                  delayed_branch_target, delay_slot_is_return,
                  delay_slot_is_call, delay_slot_is_indirect_call,
                  call_link_reg, total_steps, word>>
  BY DEF vars, flags
<1>2. TypeOK => TypeOK'
  BY <1>1 DEF TypeOK
<1>3. FlagsInv => FlagsInv'
  BY <1>1 DEF FlagsInv, Running, Pending, Returning, Going, Clear,
              IsExternalCallTarget
<1>4. UNCHANGED Pipeline!vars
  BY <1>1 DEF Pipeline!vars, FetchPc, NextPc, AtSlot, Running
<1> QED
  BY <1>2, <1>3, <1>4 DEF IInv

(***************************************************************************)
(* In every state the flags describe the transfer they were set for.       *)
(***************************************************************************)
THEOREM Invariance == Spec => []IInv
<1>1. Init => IInv
  BY InitIInv
<1>2. IInv /\ [Next]_vars => IInv'
  BY NextRefines, StutterRefines
<1> QED
  BY <1>1, <1>2, PTL DEF Spec

(***************************************************************************)
(* Every variable keeps its type; no run takes more than max_steps steps.  *)
(***************************************************************************)
THEOREM TypeCorrect == Spec => []TypeOK
<1>1. IInv => TypeOK
  BY DEF IInv
<1> QED
  BY <1>1, Invariance, PTL

(***************************************************************************)
(* For every code, memory and step limit, and any number of runs on one    *)
(* emulator, Step and RunFunction go where the processor would.            *)
(***************************************************************************)
THEOREM Implementation == Spec => ImplementsPipeline
<1>1. Init => Pipeline!Init
  BY InitIInv
<1>2. IInv /\ [Next]_vars => [Pipeline!Next]_(Pipeline!vars)
  BY NextRefines, StutterRefines
<1> QED
  BY <1>1, <1>2, Invariance, PTL DEF Spec, ImplementsPipeline, Pipeline!Spec
=============================================================================
