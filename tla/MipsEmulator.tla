---------------------------- MODULE MipsEmulator ----------------------------
(***************************************************************************)
(* The control flow of fuzzer/mips_emulator.cc: Step keeps one program     *)
(* counter and a set of flags about the delay slot it is in, and           *)
(* RunFunction steps until the function returns or its steps run out.      *)
(* Instructions and registers are those of MipsPipeline; what they compute *)
(* is left out but for the registers that control depends on.              *)
(***************************************************************************)
EXTENDS Integers, Sequences

CONSTANTS
  Memory, Code, Sentinel, Intercept,   \* see MipsPipeline
  Values, Targets, Starts,             \* bounds, see MipsPipeline
  MaxSteps,   \* max_steps
  MaxRuns     \* bound: functions run on one emulator

ASSUME EmulatorConstants ==
  /\ Memory \subseteq Nat \ {0} /\ Sentinel \in Nat \ (Memory \union {0})
  /\ Code \subseteq Memory /\ Intercept \in BOOLEAN
  /\ Values \subseteq Nat /\ Starts \subseteq Nat
  /\ Targets \subseteq Nat \ {Sentinel}
  /\ MaxSteps \in Nat /\ MaxRuns \in Nat

VARIABLES
  status,                       \* what RunFunction has returned, or "running"
  pc, gpr, call_log,
  in_delay_slot,
  delayed_branch_target,        \* a set: empty for nullopt
  delay_slot_is_return, delay_slot_is_call, delay_slot_is_indirect_call,
  call_link_reg,
  total_steps,
  word,                         \* the last instruction decoded
  runs

flags == <<in_delay_slot, delayed_branch_target, delay_slot_is_return,
           delay_slot_is_call, delay_slot_is_indirect_call, call_link_reg>>

vars == <<status, pc, gpr, call_log, flags, total_steps, word, runs>>

Running == status = "running"

(***************************************************************************)
(* The flags as a pipeline: what is executed, and what after it.           *)
(***************************************************************************)
FetchPc == IF Running THEN pc ELSE 0

NextPc == IF ~Running THEN 0
          ELSE IF ~in_delay_slot THEN pc + 1
          ELSE IF delay_slot_is_return THEN Sentinel
          ELSE CHOOSE t \in delayed_branch_target : TRUE

AtSlot == Running /\ in_delay_slot

Pipeline == INSTANCE MipsPipeline WITH pc <- FetchPc, npc <- NextPc,
                                       slot <- AtSlot

(***************************************************************************)
(* Reset.                                                                  *)
(***************************************************************************)
Init == /\ status = "idle"
        /\ pc = 0
        /\ gpr = [r \in Pipeline!Registers |-> 0]
        /\ call_log = << >>
        /\ in_delay_slot = FALSE
        /\ delayed_branch_target = {}
        /\ delay_slot_is_return = FALSE
        /\ delay_slot_is_call = FALSE
        /\ delay_slot_is_indirect_call = FALSE
        /\ call_link_reg = "ra"
        /\ total_steps = 0
        /\ word = Pipeline!NoWord
        /\ runs = 0

Entered ==
  /\ ~Running /\ runs < MaxRuns
  /\ status' = "running" /\ runs' = runs + 1
  /\ pc' \in Starts
  /\ in_delay_slot' = FALSE /\ delayed_branch_target' = {}
  /\ call_link_reg' = "ra"
  /\ call_log' = << >> /\ total_steps' = 0 /\ word' = Pipeline!NoWord

(***************************************************************************)
(* RunFunction.  Its caller may have reset the registers, or not.          *)
(***************************************************************************)
ReturnAddress ==
  \E regs \in {gpr, [r \in Pipeline!Registers |-> 0]} :
    gpr' = IF regs["ra"] = 0 THEN [regs EXCEPT !["ra"] = Sentinel] ELSE regs

FaultRunFunction ==    \* fault: flags of a run cut off in a slot are kept
  /\ Entered /\ ReturnAddress
  /\ UNCHANGED <<delay_slot_is_return, delay_slot_is_call,
                 delay_slot_is_indirect_call>>

RunFunction ==
  /\ Entered /\ ReturnAddress
  /\ delay_slot_is_return' = FALSE /\ delay_slot_is_call' = FALSE
  /\ delay_slot_is_indirect_call' = FALSE

-----------------------------------------------------------------------------
FaultTick ==    \* fault: the steps are not counted
  Running /\ total_steps < MaxSteps /\ UNCHANGED <<total_steps, runs>>

(***************************************************************************)
(* Another step of the loop: total_steps++, and Step fetches at pc.        *)
(***************************************************************************)
Tick == /\ Running /\ total_steps < MaxSteps
        /\ total_steps' = total_steps + 1
        /\ UNCHANGED runs

IsExternalCallTarget(t) == Intercept /\ t \notin Code

Fetch(w) == Tick /\ pc \in Memory /\ word' = w

(***************************************************************************)
(* A branch in a delay slot is kInvalidOpcode, a trap its own status.      *)
(***************************************************************************)
End(how) == status' = how /\ UNCHANGED <<pc, gpr, call_log, flags>>

MemoryFault == /\ Tick /\ pc \notin Memory
               /\ End("fault")
               /\ UNCHANGED word

BranchInSlot(w) == Fetch(w) /\ in_delay_slot /\ End("invalid")

Trap(w) == Fetch(w) /\ w.op = "trap" /\ End(w.status)

ERet(w) ==
  /\ Fetch(w) /\ w.op = "eret"
  /\ pc' \in IF delayed_branch_target = {} THEN {pc} ELSE delayed_branch_target
  /\ status' = "returned"
  /\ UNCHANGED <<gpr, call_log, flags>>

(***************************************************************************)
(* The instruction sets up a delay slot.                                   *)
(***************************************************************************)
Slot(w, target, isCall) ==
  /\ Fetch(w) /\ ~in_delay_slot
  /\ pc' = pc + 1
  /\ in_delay_slot' = TRUE
  /\ delayed_branch_target' = {target}
  /\ delay_slot_is_call' = isCall
  /\ UNCHANGED <<status, call_log>>

CallsThrough(reg, isCall) == call_link_reg' = IF isCall THEN reg ELSE call_link_reg

Link(reg) == gpr' = [gpr EXCEPT ![reg] = pc + 2]

Jump(w) ==    \* J
  /\ w.op = "j"
  /\ Slot(w, w.target, IsExternalCallTarget(w.target))
  /\ CallsThrough("ra", IsExternalCallTarget(w.target))
  /\ UNCHANGED <<gpr, delay_slot_is_return, delay_slot_is_indirect_call>>

JumpAndLink(w) ==    \* JAL
  /\ w.op = "jal"
  /\ Slot(w, w.target, TRUE)
  /\ CallsThrough("ra", TRUE) /\ Link("ra")
  /\ UNCHANGED <<delay_slot_is_return, delay_slot_is_indirect_call>>

JumpRegister(w) ==    \* JR
  /\ w.op = "jr"
  /\ LET t == gpr[w.reg] IN
     IF t = Sentinel
     THEN /\ Fetch(w) /\ ~in_delay_slot
          /\ pc' = pc + 1
          /\ in_delay_slot' = TRUE
          /\ delay_slot_is_return' = TRUE /\ delay_slot_is_call' = FALSE
          /\ UNCHANGED <<status, call_log, delayed_branch_target, call_link_reg>>
     ELSE /\ Slot(w, t, IsExternalCallTarget(t))
          /\ delay_slot_is_return' = FALSE
          /\ CallsThrough("ra", IsExternalCallTarget(t))
  /\ UNCHANGED <<gpr, delay_slot_is_indirect_call>>

JumpAndLinkRegister(w) ==    \* JALR
  /\ w.op = "jalr"
  /\ Slot(w, gpr[w.reg], TRUE)
  /\ delay_slot_is_indirect_call' = TRUE
  /\ CallsThrough(w.link, TRUE) /\ Link(w.link)
  /\ UNCHANGED delay_slot_is_return

(***************************************************************************)
(* A likely branch that is not taken passes its delay slot over.           *)
(***************************************************************************)
Annul(w) ==
  /\ Fetch(w) /\ ~in_delay_slot
  /\ pc' = pc + 2
  /\ in_delay_slot' = FALSE /\ delay_slot_is_call' = FALSE
  /\ UNCHANGED <<status, call_log, delayed_branch_target, delay_slot_is_return,
                 delay_slot_is_indirect_call>>

SetupBranch(w) ==    \* BEQ, BC1T, ...
  /\ w.op = "branch"
  /\ LET t == IF w.taken THEN w.target ELSE pc + 2
         isCall == w.taken /\ IsExternalCallTarget(w.target)
     IN  Slot(w, t, isCall) /\ CallsThrough("ra", isCall)
  /\ UNCHANGED <<gpr, delay_slot_is_return, delay_slot_is_indirect_call>>

SetupBranchLikely(w) ==    \* BEQL, BC1TL, ...
  /\ w.op = "likely"
  /\ IF w.taken
     THEN LET isCall == IsExternalCallTarget(w.target)
          IN  /\ Slot(w, w.target, isCall)
              /\ CallsThrough("ra", isCall)
              /\ UNCHANGED <<delay_slot_is_return, delay_slot_is_indirect_call>>
     ELSE Annul(w) /\ UNCHANGED call_link_reg
  /\ UNCHANGED gpr

BranchAndLink(w) ==    \* BLTZAL, BGEZAL
  /\ w.op = "bal"
  /\ Slot(w, IF w.taken THEN w.target ELSE pc + 2, w.taken)
  /\ CallsThrough("ra", TRUE) /\ Link("ra")
  /\ UNCHANGED <<delay_slot_is_return, delay_slot_is_indirect_call>>

BranchAndLinkLikely(w) ==    \* BLTZALL, BGEZALL
  /\ w.op = "ball"
  /\ CallsThrough("ra", TRUE) /\ Link("ra")
  /\ IF w.taken
     THEN /\ Slot(w, w.target, TRUE)
          /\ UNCHANGED <<delay_slot_is_return, delay_slot_is_indirect_call>>
     ELSE Annul(w)

-----------------------------------------------------------------------------
(***************************************************************************)
(* HandleCallTarget: the call is logged with its arguments, and control    *)
(* goes back to the link register.  regs: after the slot's instruction.    *)
(***************************************************************************)
Intercepted(t) == /\ \/ IsExternalCallTarget(t)
                     \/ delay_slot_is_indirect_call /\ Intercept
                  /\ t \in Memory

HandleCallTarget(t, regs) ==
  /\ call_log' = Append(call_log, <<t, regs["a0"]>>)
  /\ IF regs[call_link_reg] = Sentinel
     THEN status' = "returned" /\ UNCHANGED pc
     ELSE pc' = regs[call_link_reg] /\ UNCHANGED status

LeaveSlot ==
  /\ in_delay_slot' = FALSE /\ delayed_branch_target' = {}
  /\ delay_slot_is_call' = FALSE /\ delay_slot_is_indirect_call' = FALSE
  /\ UNCHANGED call_link_reg

Execute(w) == Fetch(w) /\ gpr' = Pipeline!Effect(w, gpr)

(***************************************************************************)
(* An instruction that is no branch, outside a delay slot and in one.      *)
(***************************************************************************)
Straight(w) == /\ Execute(w) /\ ~in_delay_slot
               /\ pc' = pc + 1
               /\ UNCHANGED <<status, call_log, flags>>

SlotReturns(w) ==
  /\ Execute(w) /\ in_delay_slot /\ delay_slot_is_return
  /\ LeaveSlot /\ delay_slot_is_return' = FALSE
  /\ status' = "returned"
  /\ UNCHANGED <<pc, call_log>>

SlotArrives(w) ==
  /\ Execute(w) /\ in_delay_slot /\ ~delay_slot_is_return
  /\ LeaveSlot /\ UNCHANGED delay_slot_is_return
  /\ \E t \in delayed_branch_target :
       IF delay_slot_is_call /\ Intercepted(t)
       THEN HandleCallTarget(t, gpr')
       ELSE pc' = t /\ UNCHANGED <<status, call_log>>

-----------------------------------------------------------------------------
OutOfSteps == /\ Running /\ total_steps >= MaxSteps
              /\ End("max steps")
              /\ UNCHANGED <<total_steps, word, runs>>

Branch(w) == \/ Jump(w) \/ JumpAndLink(w)
             \/ JumpRegister(w) \/ JumpAndLinkRegister(w)
             \/ SetupBranch(w) \/ SetupBranchLikely(w)
             \/ BranchAndLink(w) \/ BranchAndLinkLikely(w)
             \/ BranchInSlot(w)

Step == \/ MemoryFault
        \/ \E w \in Pipeline!Transfers : Branch(w)
        \/ \E w \in Pipeline!Traps : Trap(w) \/ ERet(w)
        \/ \E w \in Pipeline!Simple : Straight(w) \/ SlotReturns(w) \/ SlotArrives(w)

Next == RunFunction \/ Step \/ OutOfSteps

(***************************************************************************)
(* RunFunction is one loop in one thread.                                  *)
(***************************************************************************)
Spec == Init /\ [][Next]_vars

FairSpec == Spec /\ WF_vars(Step \/ OutOfSteps)
-----------------------------------------------------------------------------
TypeOK ==
  /\ status \in {"idle", "running", "returned", "max steps", "fault",
                 "overflow", "break", "invalid"}
  /\ pc \in Nat
  /\ gpr \in [Pipeline!Registers -> Nat]
  /\ {in_delay_slot, delay_slot_is_return, delay_slot_is_call,
      delay_slot_is_indirect_call} \subseteq BOOLEAN
  /\ delayed_branch_target \subseteq Nat
  /\ call_link_reg \in Pipeline!Registers
  /\ total_steps \in 0 .. MaxSteps
  /\ word \in Pipeline!Words \union {Pipeline!NoWord}

(***************************************************************************)
(* Whatever a function does, and whatever earlier runs left in the flags,  *)
(* the emulator goes where the processor would: one delay slot after each  *)
(* transfer, none after a likely branch not taken, a call for each         *)
(* transfer out of the code, and a return only to the caller.              *)
(***************************************************************************)
ImplementsPipeline == Pipeline!Spec

(***************************************************************************)
(* RunFunction returns, from an endless loop too.                          *)
(***************************************************************************)
Returns == Running ~> ~Running
=============================================================================
