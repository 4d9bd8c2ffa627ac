---------------------------- MODULE MipsPipeline ----------------------------
(***************************************************************************)
(* The control flow a MIPS III processor promises: the instruction after a *)
(* branch, its delay slot, is executed before the branch arrives; a likely *)
(* branch that is not taken passes its slot over.  It is written with two  *)
(* program counters, pc and npc.  Functions outside the code are answered  *)
(* by the environment: a transfer of control to one is a call that comes   *)
(* back at once.                                                           *)
(*                                                                         *)
(* Addresses count words; 0 is null, and an address outside Memory is      *)
(* unmapped or not aligned.  Data is abstracted to the two registers that  *)
(* control can depend on.                                                  *)
(***************************************************************************)
EXTENDS Integers, Sequences

CONSTANTS
  Memory,      \* addresses that can be fetched or called
  Code,        \* code_bounds_
  Sentinel,    \* kReturnAddressSentinel
  Intercept,   \* intercept_external_calls_
  Values,      \* bound: what is loaded into a register
  Targets,     \* bound: where instructions branch to
  Starts       \* bound: functions that are run

Registers == {"ra", "a0"}

(***************************************************************************)
(* An instruction, and the condition a branch finds: BEQ, BC1T and the     *)
(* like, the same "likely", BGEZAL and BGEZALL ("and link").               *)
(***************************************************************************)
Simple == [op : {"plain"}] \union [op : {"load"}, reg : Registers, value : Values]

Branches == [op : {"branch", "likely", "bal", "ball"},
             taken : BOOLEAN, target : Targets]

Jumps == [op : {"j", "jal"}, target : Targets]

RegisterJumps == [op : {"jr"}, reg : Registers]
                 \union {[op |-> "jalr", reg |-> "ra", link |-> "a0"],
                         [op |-> "jalr", reg |-> "a0", link |-> "ra"]}

Traps == [op : {"trap"}, status : {"overflow", "break", "invalid", "fault"}]
         \union [op : {"eret"}]

Transfers == Branches \union Jumps \union RegisterJumps

Words == Simple \union Transfers \union Traps

NoWord == [op |-> "none"]

Taken(w) == w.op \in {"branch", "likely", "bal", "ball"} => w.taken

Links(w) == w.op \in {"jal", "jalr", "bal", "ball"}

LinkRegister(w) == IF w.op = "jalr" THEN w.link ELSE "ra"

Annuls(w) == w.op \in {"likely", "ball"} /\ ~w.taken

VARIABLES
  status,    \* "running", or how the run ended
  pc, npc,   \* the instruction to execute, and the one after it
  slot,      \* pc is the delay slot of word
  gpr,
  call_log,
  word       \* the last instruction executed

vars == <<status, pc, npc, slot, gpr, call_log, word>>

Stopped == pc' = 0 /\ npc' = 0 /\ slot' = FALSE

Init == /\ status = "idle"
        /\ pc = 0 /\ npc = 0 /\ slot = FALSE
        /\ gpr = [r \in Registers |-> 0]
        /\ call_log = << >>
        /\ word = NoWord

(***************************************************************************)
(* A function is called.  Without a caller it returns to the sentinel.     *)
(***************************************************************************)
Enter ==
  /\ status # "running"
  /\ status' = "running"
  /\ pc' \in Starts /\ npc' = pc' + 1 /\ slot' = FALSE
  /\ \E regs \in {gpr, [r \in Registers |-> 0]} :
       gpr' = IF regs["ra"] = 0 THEN [regs EXCEPT !["ra"] = Sentinel] ELSE regs
  /\ call_log' = << >> /\ word' = NoWord

Destination(w, regs) == IF w.op \in {"jr", "jalr"} THEN regs[w.reg] ELSE w.target

(***************************************************************************)
(* An instruction that transfers control: npc is where.                    *)
(***************************************************************************)
Transfer(w) ==
  /\ status = "running" /\ pc \in Memory /\ w \in Transfers /\ ~slot
  /\ gpr' = IF Links(w) THEN [gpr EXCEPT ![LinkRegister(w)] = pc + 2] ELSE gpr
  /\ IF Annuls(w)
     THEN pc' = npc + 1 /\ npc' = npc + 2 /\ slot' = FALSE
     ELSE /\ pc' = npc /\ slot' = TRUE
          /\ npc' = IF Taken(w) THEN Destination(w, gpr) ELSE npc + 1
  /\ word' = w
  /\ UNCHANGED <<status, call_log>>

Effect(w, regs) == IF w.op = "load" THEN [regs EXCEPT ![w.reg] = w.value] ELSE regs

(***************************************************************************)
(* npc is a call that the environment answers: a function outside the      *)
(* code, or any function called through a pointer.                         *)
(***************************************************************************)
Answered == /\ Intercept /\ slot /\ Taken(word)
            /\ npc \in Memory
            /\ npc \notin Code \/ word.op = "jalr"

(***************************************************************************)
(* Any other instruction.  In a delay slot the transfer then arrives: at   *)
(* the caller, at a function that returns at once to the link register, or *)
(* at the instruction npc.                                                 *)
(***************************************************************************)
Advance(w) ==
  /\ status = "running" /\ pc \in Memory /\ w \in Simple
  /\ gpr' = Effect(w, gpr)
  /\ word' = w
  /\ LET back == gpr'[LinkRegister(word)] IN
     \/ /\ slot /\ word.op = "jr" /\ npc = Sentinel
        /\ status' = "returned" /\ Stopped
        /\ UNCHANGED call_log
     \/ /\ Answered
        /\ call_log' = Append(call_log, <<npc, gpr'["a0"]>>)
        /\ IF back = Sentinel
           THEN status' = "returned" /\ Stopped
           ELSE /\ pc' = back /\ npc' = back + 1 /\ slot' = FALSE
                /\ UNCHANGED status
     \/ /\ ~(slot /\ word.op = "jr" /\ npc = Sentinel) /\ ~Answered
        /\ pc' = npc /\ npc' = npc + 1 /\ slot' = FALSE
        /\ UNCHANGED <<status, call_log>>

(***************************************************************************)
(* The run is cut off: an instruction that traps, a branch in a delay      *)
(* slot, an address that cannot be fetched, or the end of patience.        *)
(***************************************************************************)
Fetched(w) == status = "running" /\ pc \in Memory /\ word' = w

Ends(how) == /\ status' = how /\ Stopped
             /\ UNCHANGED <<gpr, call_log>>

Stop == \/ \E w \in Traps :
             /\ Fetched(w)
             /\ Ends(IF w.op = "eret" THEN "returned" ELSE w.status)
        \/ \E w \in Transfers : Fetched(w) /\ slot /\ Ends("invalid")
        \/ status = "running" /\ pc \notin Memory /\ Ends("fault") /\ UNCHANGED word
        \/ status = "running" /\ Ends("max steps") /\ UNCHANGED word

Next == \/ Enter
        \/ \E w \in Transfers : Transfer(w)
        \/ \E w \in Simple : Advance(w)
        \/ Stop

Spec == Init /\ [][Next]_vars
=============================================================================
