----------------------------- MODULE FuzzBattery -----------------------------
(***************************************************************************)
(* fuzzer/differential_fuzzer.cc: RunBattery runs two functions, the       *)
(* target and the candidate, on one test vector after the other in two     *)
(* emulators (fuzzer/mips_emulator.cc) and compares what they did.  The    *)
(* emulators outlive the vectors and the battery: what one run leaves in   *)
(* memory or registers, the next one sees.                                 *)
(*                                                                         *)
(* A function is abstracted to what its run does: it returns a value that  *)
(* tells everything it can read apart, makes some stores, may call other   *)
(* functions, ends in one of several ways, and may need more steps than a  *)
(* first or a second try is given.  Memory is one cell of each kind.  The  *)
(* decoding of instructions, callee-saved registers, the call log and the  *)
(* mapping of the candidate's addresses are left out.                      *)
(***************************************************************************)
EXTENDS Integers, Sequences, FiniteSetsExt

CONSTANTS
  MaxStores,     \* bound: stores of a run
  Batteries,     \* bound: how many vectors a battery has, which cells its
                 \* functions store to, how they end, whether the two may
                 \* do otherwise
  WithData,      \* emulators that are given initial memory
  Returns,       \* what the target returns: "int", "float" or "void"
  Calls          \* functions may call others

Emus == {"target", "candidate"}

Cells == {"code", "data", "buffer", "stack", "heap"}

(***************************************************************************)
(* ExecutionStatus of a run that ends by itself, a trap standing for break *)
(* and syscall; and how long it takes: no more than max_steps_per_run, up  *)
(* to five times as many, or more.                                         *)
(***************************************************************************)
Ends == {"return", "fault", "overflow", "trap", "invalid"}

Paces == {"fast", "slow", "endless"}

ASSUME BatteryConstants ==
  /\ MaxStores \in Nat
  /\ Batteries \subseteq [vectors : Nat \ {0}, cells : SUBSET Cells,
                         ends : SUBSET Ends, differ : BOOLEAN]
  /\ WithData \subseteq Emus
  /\ Returns \in {"int", "float", "void"}
  /\ Calls \in BOOLEAN

Zero == <<"zero", 0>>
Word == <<"word", 0>>           \* the instructions
Data == <<"data", 0>>           \* the ROM's data
Args(v) == <<"args", v>>        \* stack arguments of vector v
Payload(v) == <<"payload", v>>  \* what v's pointer points to
Stored(k) == <<"stored", k>>

Store(cells) == [cell : cells, value : {Stored(1), Stored(2)}]

VARIABLES
  battery,   \* one of Batteries
  step,      \* where RunBattery is
  vector,    \* the test case
  pointer,   \* it has initial_memory
  does,      \* what a run of each function does
  mem, regs, log,   \* of each emulator; log is write_log_
  entry,     \* what each emulator's last run started from
  status,    \* how it ended
  verdict    \* comp.result

batteryVars == <<battery, step, vector, pointer, does, mem, regs, log, entry,
                 status, verdict>>

Behaviour(cells) ==
  [stores : UNION {[1 .. n -> Store(cells)] : n \in 0 .. MaxStores},
   ends : Ends, calls : {FALSE, Calls}, pace : Paces]

Idle == [stores |-> << >>, ends |-> "return", calls |-> FALSE, pace |-> "fast"]

Both(x) == [e \in Emus |-> x]

Blank == [c \in Cells |-> Zero]
ResetRegs == [ra |-> "zero", temps |-> "zero", args |-> 0]
NoRun == [mem |-> Blank, regs |-> ResetRegs, log |-> << >>, run |-> 0]

BatteryInit ==
  /\ battery \in Batteries
  /\ step = "idle" /\ vector = 0 /\ pointer = FALSE
  /\ does = Both(Idle)
  /\ mem = Both(Blank) /\ regs = Both(ResetRegs) /\ log = Both(<< >>)
  /\ entry = Both(NoRun)
  /\ status = Both("none")
  /\ verdict = "none"

-----------------------------------------------------------------------------
(***************************************************************************)
(* Reset, LoadWords and the initial memory; either load may fail.          *)
(***************************************************************************)
Begin ==
  /\ step = "idle"
  /\ step' = "setup"
  /\ regs' = Both(ResetRegs) /\ log' = Both(<< >>)
  /\ mem' = [e \in Emus |->
              [mem[e] EXCEPT !["code"] = Word,
                             !["data"] = IF e \in WithData THEN Data ELSE @]]
  /\ vector' = 1 /\ verdict' = "none"
  /\ UNCHANGED <<battery, pointer, does, entry, status>>

BeginFails ==
  /\ step = "idle"
  /\ regs' = Both(ResetRegs) /\ log' = Both(<< >>)
  /\ mem' = [mem EXCEPT !["target"]["code"] = Zero]
  /\ verdict' = "error"
  /\ UNCHANGED <<battery, step, vector, pointer, does, entry, status>>

(***************************************************************************)
(* SetupEmulator: arguments and their stack slots, and the payload.  The   *)
(* return address and the temporaries it does not touch are not reset.     *)
(***************************************************************************)
SetupRegs(r) == [r EXCEPT !.args = vector]

SetupMem(m, withPayload) ==
  [m EXCEPT !["stack"] = Args(vector),
            !["buffer"] = IF withPayload THEN Payload(vector) ELSE @]

Faults == {"fault", "overflow"}

Alike(b, c) == /\ b.stores = c.stores /\ b.calls = c.calls
               /\ b.ends = c.ends \/ {b.ends, c.ends} \subseteq Faults

Setup ==
  /\ step = "setup"
  /\ step' = "run"
  /\ pointer' \in BOOLEAN
  /\ \E b \in Behaviour(battery.cells), c \in Behaviour(battery.cells) :
       /\ {b.ends, c.ends} \subseteq battery.ends
       /\ battery.differ \/ Alike(b, c)
       /\ does' = [e \in Emus |-> IF e = "target" THEN b ELSE c]
  /\ mem' = [e \in Emus |-> SetupMem(mem[e], pointer')]
  /\ regs' = [e \in Emus |-> SetupRegs(regs[e])]
  /\ UNCHANGED <<battery, vector, log, entry, status, verdict>>

-----------------------------------------------------------------------------
(***************************************************************************)
(* RunFunction.  It makes up the return address only when it is zero: with *)
(* another one, jr $ra goes on inside the function, to no known end.       *)
(***************************************************************************)
RanFrom(ra) == IF ra = "zero" THEN "sentinel" ELSE ra

Logged(m, stores) ==
  [i \in DOMAIN stores |->
     LET c == stores[i].cell
         before == {j \in 1 .. i - 1 : stores[j].cell = c}
     IN  [cell |-> c, value |-> stores[i].value,
          prev |-> IF before = {} THEN m[c] ELSE stores[Max(before)].value]]

After(m, stores) ==
  [c \in Cells |-> LET hits == {i \in DOMAIN stores : stores[i].cell = c}
                   IN  IF hits = {} THEN m[c] ELSE stores[Max(hits)].value]

RunsOut(b, run) == b.pace = "endless" \/ (b.pace = "slow" /\ run = 1)

Outcomes(e, r, run) ==
  LET b == does[e]
      cut == {SubSeq(b.stores, 1, n) : n \in 0 .. Len(b.stores)}
  IN  IF RunsOut(b, run) THEN cut \X {"max steps"}
      ELSE IF r.ra # "sentinel" THEN {b.stores} \X (Ends \union {"max steps"})
      ELSE {b.stores} \X {b.ends}

(***************************************************************************)
(* The emulators in es run from memory m and registers r, their logs l.    *)
(***************************************************************************)
RunFunction(es, m, r, l, run) ==
  LET start == [e \in es |-> [r[e] EXCEPT !.ra = RanFrom(@)]]
  IN  \E ends \in [es -> UNION {Outcomes(e, start[e], run) : e \in es}] :
        /\ \A e \in es : ends[e] \in Outcomes(e, start[e], run)
        /\ entry' = [e \in Emus |->
                      IF e \in es THEN [mem |-> m[e], regs |-> start[e],
                                        log |-> l[e], run |-> run]
                      ELSE entry[e]]
        /\ mem' = [e \in Emus |-> IF e \in es THEN After(m[e], ends[e][1])
                                  ELSE m[e]]
        /\ log' = [e \in Emus |-> IF e \in es
                                  THEN l[e] \o Logged(m[e], ends[e][1])
                                  ELSE l[e]]
        /\ regs' = [e \in Emus |->
                     IF e \notin es THEN r[e]
                     ELSE [args |-> vector, temps |-> "used",
                           ra |-> IF does[e].calls THEN "inside"
                                  ELSE start[e].ra]]
        /\ status' = [e \in Emus |-> IF e \in es THEN ends[e][2]
                                     ELSE status[e]]

Run ==
  /\ step = "run"
  /\ step' = "retry"
  /\ RunFunction(Emus, mem, regs, log, 1)
  /\ UNCHANGED <<battery, vector, pointer, does, verdict>>

(***************************************************************************)
(* RollbackWrites restores the cells in the reverse of the log's order, so *)
(* that each is left as before its first store.                            *)
(***************************************************************************)
FaultRolledBack(m, l) ==    \* fault: restored in the order of the log
  [c \in Cells |-> LET hits == {i \in DOMAIN l : l[i].cell = c}
                   IN  IF hits = {} THEN m[c] ELSE l[Max(hits)].prev]

RolledBack(m, l) ==
  [c \in Cells |-> LET hits == {i \in DOMAIN l : l[i].cell = c}
                   IN  IF hits = {} THEN m[c]
                       ELSE IF c = "code" THEN Word
                       ELSE l[Min(hits)].prev]

FaultClearPayload(m) == m    \* fault: the payload stays

ClearPayload(m) == IF pointer THEN [m EXCEPT !["buffer"] = Zero] ELSE m

TimedOut == {e \in Emus : status[e] = "max steps"}

FaultRetry ==    \* fault: the writes are not rolled back
  /\ step = "retry"
  /\ step' = "compare"
  /\ IF Cardinality(TimedOut) = 1
     THEN LET e == CHOOSE x \in TimedOut : TRUE
          IN  RunFunction({e}, mem, regs, log, 2)
     ELSE UNCHANGED <<mem, regs, log, entry, status>>
  /\ UNCHANGED <<battery, vector, pointer, does, verdict>>

(***************************************************************************)
(* When only one of them used up its steps it is run again with five times *)
(* as many, from memory and arguments that are set up again.               *)
(***************************************************************************)
Retry ==
  /\ step = "retry"
  /\ step' = "compare"
  /\ IF Cardinality(TimedOut) = 1
     THEN LET e == CHOOSE x \in TimedOut : TRUE
              cleared == ClearPayload(RolledBack(mem[e], log[e]))
          IN  RunFunction({e},
                          [mem EXCEPT ![e] = SetupMem(cleared, pointer)],
                          [regs EXCEPT ![e] = SetupRegs(@)],
                          [log EXCEPT ![e] = << >>], 2)
     ELSE UNCHANGED <<mem, regs, log, entry, status>>
  /\ UNCHANGED <<battery, vector, pointer, does, verdict>>

-----------------------------------------------------------------------------
(***************************************************************************)
(* CompareMemoryWrites: the same final bytes, which the same stores have,  *)
(* or as many stores that are the same once sorted.  Stores to the stack   *)
(* are local; the others keep their place in the log.                      *)
(***************************************************************************)
Stores(e) ==
  [i \in {j \in DOMAIN log[e] : log[e][j].cell # "stack"} |->
     <<log[e][i].cell, log[e][i].value>>]

Bytes(w) == [c \in {w[i][1] : i \in DOMAIN w} |->
               w[Max({i \in DOMAIN w : w[i][1] = c})][2]]

Count(w) == Cardinality(DOMAIN w)

FaultWritesMatch(t, c) ==    \* fault: only the number of stores
  Count(t) = Count(c)

Times(x, w) == Cardinality({i \in DOMAIN w : w[i] = x})

WritesMatch(t, c) ==
  \/ Bytes(t) = Bytes(c)
  \/ Count(t) = Count(c) /\ \A i \in DOMAIN t : Times(t[i], t) = Times(t[i], c)

(***************************************************************************)
(* What a function returns tells apart all it can read.                    *)
(***************************************************************************)
Value(e) == entry[e].mem

BothFaulted == \A e \in Emus : status[e] \in Faults

FaultStatusDiffers ==    \* fault: what faulted has to be the same
  \/ \E e \in Emus : status[e] = "invalid"
  \/ status["target"] # status["candidate"]

(***************************************************************************)
(* An invalid opcode is never accepted, even if both functions meet it.    *)
(***************************************************************************)
StatusDiffers ==
  \/ \E e \in Emus : status[e] = "invalid"
  \/ status["target"] # status["candidate"] /\ ~BothFaulted

Compared ==
  IF StatusDiffers THEN "status"
  ELSE IF status["target"] # "return" THEN "equivalent"
  ELSE IF Returns # "void" /\ Value("target") # Value("candidate") THEN "value"
  ELSE IF Returns = "float" THEN "equivalent"
  ELSE IF WritesMatch(Stores("target"), Stores("candidate")) THEN "equivalent"
  ELSE "writes"

Compare ==
  /\ step = "compare"
  /\ step' = "rollback"
  /\ verdict' = Compared
  /\ UNCHANGED <<battery, vector, pointer, does, mem, regs, log, entry, status>>

(***************************************************************************)
(* RollbackWrites of both emulators.                                       *)
(***************************************************************************)
Rollback ==
  /\ step = "rollback"
  /\ step' = "clear"
  /\ mem' = [e \in Emus |-> RolledBack(mem[e], log[e])]
  /\ log' = Both(<< >>)
  /\ UNCHANGED <<battery, vector, pointer, does, regs, entry, status, verdict>>

ClearAnd(cleared) ==
  /\ step = "clear"
  /\ mem' = [e \in Emus |-> ClearPayload(mem[e])]
  /\ regs' = cleared
  /\ does' = Both(Idle) /\ pointer' = FALSE
  /\ entry' = Both(NoRun) /\ status' = Both("none")
  /\ IF verdict = "equivalent" /\ vector < battery.vectors
     THEN step' = "setup" /\ vector' = vector + 1
     ELSE step' = "end" /\ UNCHANGED vector
  /\ UNCHANGED <<battery, log, verdict>>

FaultClear == ClearAnd(regs)    \* fault: no Reset between vectors

(***************************************************************************)
(* The payload is cleared, the emulators are reset, and the next vector is *)
(* run unless this one diverged.                                           *)
(***************************************************************************)
Clear == ClearAnd(Both(ResetRegs))

(***************************************************************************)
(* The initial memory, the code and the stack arguments are cleared.       *)
(***************************************************************************)
Finish ==
  /\ step = "end"
  /\ step' = "idle"
  /\ mem' = [e \in Emus |->
              [mem[e] EXCEPT !["code"] = Zero, !["stack"] = Zero,
                             !["data"] = IF e \in WithData THEN Zero ELSE @]]
  /\ UNCHANGED <<battery, vector, pointer, does, regs, log, entry, status, verdict>>

BatteryNext == \/ Begin \/ BeginFails \/ Setup \/ Run \/ Retry
        \/ Compare \/ Rollback \/ Clear \/ Finish

BatterySpec == BatteryInit /\ [][BatteryNext]_batteryVars

-----------------------------------------------------------------------------
BatteryTypeOK ==
  /\ step \in {"idle", "setup", "run", "retry", "compare", "rollback",
                "clear", "end"}
  /\ vector \in 0 .. battery.vectors
  /\ \A e \in Emus : /\ does[e] \in Behaviour(battery.cells)
                     /\ regs[e].ra \in {"zero", "sentinel", "inside"}
                     /\ DOMAIN mem[e] = Cells
                     /\ Len(log[e]) <= MaxStores
  /\ verdict \in {"none", "error", "equivalent", "status", "value", "writes"}

(***************************************************************************)
(* What a vector's runs have to start from, in a new emulator.             *)
(***************************************************************************)
Fresh(e) == [c \in Cells |->
               CASE c = "code" -> Word
                 [] c = "data" -> IF e \in WithData THEN Data ELSE Zero
                 [] c = "buffer" -> IF pointer THEN Payload(vector) ELSE Zero
                 [] c = "stack" -> Args(vector)
                 [] c = "heap" -> Zero]

(***************************************************************************)
(* Vectors do not see one another: whatever the earlier ones stored, into  *)
(* their own code even, both functions start from a new emulator's state,  *)
(* and a second try from the memory and arguments the first had.           *)
(***************************************************************************)
RunsStartFresh ==
  \A e \in Emus :
    /\ entry[e].run \in {1, 2} =>
         /\ entry[e].mem = Fresh(e) /\ entry[e].log = << >>
         /\ entry[e].regs.args = vector
    /\ entry[e].run = 1 =>
         entry[e].regs.ra = "sentinel" /\ entry[e].regs.temps = "zero"

(***************************************************************************)
(* A candidate that does what the target does, if faster or slower, is not *)
(* reported as divergent, unless both meet an invalid opcode, which is     *)
(* never accepted, or one is so much slower that five times the steps do   *)
(* not suffice where the other needs few.                                  *)
(***************************************************************************)
TooSlow == {does[e].pace : e \in Emus} = {"fast", "endless"}

NoFalseAlarm ==
  step \in {"rollback", "clear"} /\ Alike(does["target"], does["candidate"])
                                /\ does["target"].ends # "invalid" /\ ~TooSlow
    => verdict = "equivalent"

BothReturned == \A e \in Emus : status[e] = "return"

Touched(e) == {log[e][i].cell : i \in DOMAIN log[e]} \ {"stack"}

(***************************************************************************)
(* Functions that are reported to be equivalent leave the same memory.     *)
(* Two kinds are exempt: stores of a function that returns a float are not *)
(* compared at all, and stores to one cell match in any order.             *)
(***************************************************************************)
StoredOnce(e) == \A i, j \in DOMAIN log[e] :
                   log[e][i].cell = log[e][j].cell => i = j

FinalMemoryCompared ==
  step = "rollback" /\ BothReturned /\ verdict = "equivalent"
                     /\ Returns # "float"
    => /\ Touched("target") = Touched("candidate")
       /\ (\A e \in Emus : StoredOnce(e)) =>
            \A c \in Cells \ {"stack"} :
              mem["target"][c] = mem["candidate"][c]

(***************************************************************************)
(* A battery leaves nothing behind for the next function.                  *)
(***************************************************************************)
BatteryLeavesNothing ==
  step = "idle" => /\ mem = Both(Blank)
                   /\ regs = Both(ResetRegs) /\ log = Both(<< >>)
=============================================================================
