-------------------------- MODULE RunProcess_proofs --------------------------
(***************************************************************************)
(* For every pipe capacity, amount of output, timeout and behaviour of the *)
(* processes.  A result that says the process exited holds everything that *)
(* the group wrote; it says that the program was not found exactly when it *)
(* was not started; a deadline leaves no process of the group running; and *)
(* every path reaps the child and closes each descriptor.                  *)
(***************************************************************************)
EXTENDS RunProcess, TLAPS

(***************************************************************************)
(* A stream has ended when nothing is left in it and nobody can add to it. *)
(***************************************************************************)
Ended(s) == held[s] = 0 /\ writers[s] = {}

Types ==
  /\ captured \in [Streams -> Nat]
  /\ held \in [Streams -> Nat]
  /\ wrote \in [Streams -> Nat]
  /\ writers \in [Pipes -> SUBSET (Procs \union {"parent"})]
  /\ polled \subseteq Streams
  /\ result \in {"none", "internal", "not found", "deadline", "exited"}
  /\ parent \in {"start", "forked", "handshake", "failing", "loop", "poll",
                 "read stdout", "read stderr", "kill", "reap killed", "reap",
                 "returned"}

(***************************************************************************)
(* No piece is lost or made up on its way through a pipe.                  *)
(***************************************************************************)
Conserved == \A s \in Streams : captured[s] + held[s] = wrote[s]

(***************************************************************************)
(* A stream is closed only when it has ended; one that poll has reported   *)
(* stays readable until it is read.                                        *)
(***************************************************************************)
Reading ==
  /\ parent \in {"loop", "poll", "read stdout", "read stderr", "reap"} =>
       \A s \in Streams \ Open : Ended(s)
  /\ parent = "read stdout" => \A s \in polled : Readable(s)
  /\ parent = "read stderr" => ("stderr" \in polled => Readable("stderr"))
  /\ parent = "reap" => Open = {}
  /\ parent \in {"forked", "handshake"} => \A s \in Streams : <<s, "r">> \in fds
  /\ result = "exited" => \A s \in Streams : Ended(s)
  /\ result # "none" => parent = "returned"
  /\ parent = "start" => \A q \in Pipes : writers[q] = {}

PInv == Types /\ Conserved /\ Reading

LEMMA ProcessInit == Init => PInv
  BY DEF Init, PInv, Types, Conserved, Reading, Open, Ended, Readable, Streams,
         Pipes, Procs, Group

(***************************************************************************)
(* Steps of the processes: what they add to a stream is held in it, and a  *)
(* stream nobody holds is never held again.                                *)
(***************************************************************************)
LEMMA ProcessSteps ==
  ASSUME PInv,
         \/ Exec \/ ExecFails \/ StrangerExec \/ Spawn \/ Tick
         \/ \E p \in Group : Output(p) \/ CloseOutput(p) \/ Exit(p)
  PROVE  PInv'
<1>1. UNCHANGED parentVars
  BY DEF Exec, ExecFails, StrangerExec, StrangerKeeps, Spawn, Tick, Output,
         CloseOutput, Exit
<1>2. /\ writers' \in [Pipes -> SUBSET (Procs \union {"parent"})]
      /\ \A q \in Pipes : writers[q] = {} => writers'[q] = {}
  <2> DEFINE Shrunk == /\ writers' \in [Pipes -> SUBSET (Procs \union {"parent"})]
                       /\ \A q \in Pipes : writers'[q] \subseteq writers[q]
  <2>1. writers \in [Pipes -> SUBSET (Procs \union {"parent"})]
    BY DEF PInv, Types
  <2>2. ASSUME Exec PROVE Shrunk
    BY <2>1, <2>2 DEF Exec
  <2>3. ASSUME ExecFails \/ StrangerExec PROVE Shrunk
    BY <2>1, <2>3 DEF ExecFails, StrangerExec, StrangerKeeps
  <2>4. ASSUME Tick PROVE Shrunk
    BY <2>1, <2>4 DEF Tick, procVars
  <2>5. ASSUME NEW p \in Group, Output(p) PROVE Shrunk
    BY <2>1, <2>5 DEF Output
  <2>6. ASSUME NEW p \in Group, CloseOutput(p) PROVE Shrunk
    <3>1. PICK s \in Streams : writers' = [writers EXCEPT ![s] = @ \ {p}]
      BY <2>6 DEF CloseOutput
    <3> QED
      BY <2>1, <3>1
  <2>7. ASSUME NEW p \in Group, Exit(p) PROVE Shrunk
    BY <2>1, <2>7 DEF Exit
  <2>8. CASE Spawn
    BY <2>1, <2>8 DEF Spawn, Procs, Group
  <2> QED
    BY <2>2, <2>3, <2>4, <2>5, <2>6, <2>7, <2>8
<1>3. /\ held' \in [Streams -> Nat] /\ wrote' \in [Streams -> Nat]
      /\ \A s \in Streams : /\ captured[s] + held'[s] = wrote'[s]
                            /\ held'[s] >= held[s]
                            /\ writers[s] = {} => held'[s] = held[s]
  <2>0. /\ captured \in [Streams -> Nat] /\ held \in [Streams -> Nat]
        /\ wrote \in [Streams -> Nat]
        /\ \A s \in Streams : captured[s] + held[s] = wrote[s]
    BY DEF PInv, Types, Conserved
  <2>1. CASE UNCHANGED <<held, wrote>>
    <3>1. held' = held /\ wrote' = wrote
      BY <2>1
    <3> QED
      BY <2>0, <3>1
  <2>2. ASSUME NEW p \in Group, Output(p)
        PROVE  /\ held' \in [Streams -> Nat] /\ wrote' \in [Streams -> Nat]
               /\ \A s \in Streams : /\ captured[s] + held'[s] = wrote'[s]
                                     /\ held'[s] >= held[s]
                                     /\ writers[s] = {} => held'[s] = held[s]
    <3>1. PICK s \in Streams : /\ p \in writers[s]
                              /\ held' = [held EXCEPT ![s] = @ + 1]
                              /\ wrote' = [wrote EXCEPT ![s] = @ + 1]
      BY <2>2 DEF Output
    <3>2. held' \in [Streams -> Nat] /\ wrote' \in [Streams -> Nat]
      BY <2>0, <3>1
    <3>3. ASSUME NEW r \in Streams
          PROVE  /\ captured[r] + held'[r] = wrote'[r]
                 /\ held'[r] >= held[r]
                 /\ writers[r] = {} => held'[r] = held[r]
      <4>1. /\ captured[r] \in Nat /\ held[r] \in Nat /\ wrote[r] \in Nat
            /\ captured[r] + held[r] = wrote[r]
        BY <2>0
      <4>2. CASE r = s
        <5>1. held'[r] = held[r] + 1 /\ wrote'[r] = wrote[r] + 1
          BY <2>0, <3>1, <4>2
        <5>2. writers[r] # {}
          BY <3>1, <4>2
        <5> QED
          BY <4>1, <5>1, <5>2
      <4>3. CASE r # s
        <5>1. held'[r] = held[r] /\ wrote'[r] = wrote[r]
          BY <2>0, <3>1, <4>3
        <5> QED
          BY <4>1, <5>1
      <4> QED
        BY <4>2, <4>3
    <3> QED
      BY <3>2, <3>3
  <2> QED
    BY <2>1, <2>2 DEF Exec, ExecFails, StrangerExec, StrangerKeeps, Spawn, Tick,
                      procVars, CloseOutput, Exit
<1>4. Types' /\ Conserved'
  BY <1>1, <1>2, <1>3 DEF PInv, Types, Conserved, parentVars
<1>5. \A s \in Streams : s \in Pipes /\ held[s] \in Nat /\ held'[s] \in Nat
  BY <1>3 DEF PInv, Types, Pipes
<1>6. \A s \in Streams : (Ended(s) => Ended(s)') /\ (Readable(s) => Readable(s)')
  BY <1>2, <1>3, <1>5 DEF Ended, Readable
<1>7. Open' = Open /\ "stderr" \in Streams
  BY <1>1 DEF Open, parentVars, Streams
<1>8. Reading'
  <2>1. /\ parent' = parent /\ polled' = polled /\ result' = result
        /\ fds' = fds
    BY <1>1 DEF parentVars
  <2>2. polled \subseteq Streams
    BY DEF PInv, Types
  <2> QED
    BY <2>1, <2>2, <1>2, <1>6, <1>7 DEF PInv, Reading
<1> QED
  BY <1>4, <1>8 DEF PInv

(***************************************************************************)
(* A read of a stream takes pieces from the pipe to the result, or finds   *)
(* the end of a stream that poll reported and that therefore has ended.    *)
(***************************************************************************)
LEMMA ReadSteps ==
  ASSUME PInv, NEW s \in Streams, NEW here, NEW there, ReadStream(s, here, there),
         s \in polled => Readable(s)
  PROVE  /\ captured' \in [Streams -> Nat] /\ held' \in [Streams -> Nat]
         /\ Conserved'
         /\ \A r \in Streams \ {s} : held'[r] = held[r]
         /\ (\A r \in Streams \ Open : Ended(r)) =>
               (\A r \in Streams \ Open : Ended(r))'
<1>0. /\ captured \in [Streams -> Nat] /\ held \in [Streams -> Nat]
      /\ wrote \in [Streams -> Nat]
      /\ \A r \in Streams : captured[r] + held[r] = wrote[r]
  BY DEF PInv, Types, Conserved
<1>1. wrote' = wrote /\ writers' = writers
  BY DEF ReadStream
<1>2. CASE s \in polled /\ held[s] > 0 /\ UNCHANGED fds
           /\ \E n \in 1 .. held[s] : /\ captured' = [captured EXCEPT ![s] = @ + n]
                                      /\ held' = [held EXCEPT ![s] = @ - n]
  <2>1. PICK n \in 1 .. held[s] : /\ captured' = [captured EXCEPT ![s] = @ + n]
                                  /\ held' = [held EXCEPT ![s] = @ - n]
    BY <1>2
  <2>2. /\ held[s] \in Nat /\ n \in Nat /\ n <= held[s] /\ captured[s] \in Nat
        /\ wrote[s] \in Nat /\ captured[s] + held[s] = wrote[s] /\ held[s] > 0
    BY <1>0, <1>2, <2>1
  <2>3. captured[s] + n \in Nat /\ held[s] - n \in Nat
    BY <2>2
  <2>4. captured' \in [Streams -> Nat] /\ held' \in [Streams -> Nat]
    BY <1>0, <2>1, <2>3
  <2>5. captured'[s] = captured[s] + n /\ held'[s] = held[s] - n
    BY <1>0, <2>1
  <2>6. captured'[s] + held'[s] = wrote'[s]
    BY <1>1, <2>2, <2>5
  <2>7. \A r \in Streams \ {s} : held'[r] = held[r] /\ captured'[r] = captured[r]
    BY <1>0, <2>1
  <2>8. Conserved'
    BY <1>0, <1>1, <2>6, <2>7 DEF Conserved
  <2>9. s \notin Streams \ Open \/ ~Ended(s)
    BY <2>2 DEF Ended
  <2> QED
    BY <1>1, <1>2, <2>4, <2>7, <2>8, <2>9 DEF Open, Ended
<1>3. CASE s \in polled /\ held[s] = 0 /\ fds' = fds \ {<<s, "r">>}
           /\ UNCHANGED <<captured, held>>
  <2>1. captured' = captured /\ held' = held
    BY <1>3
  <2>2. Ended(s)
    BY <1>3 DEF Readable, Ended
  <2>3. Open' = Open \ {s}
    BY <1>3 DEF Open
  <2> QED
    BY <1>0, <1>1, <2>1, <2>2, <2>3 DEF Conserved, Ended
<1>4. CASE s \notin polled /\ UNCHANGED <<captured, held, fds>>
  BY <1>0, <1>1, <1>4 DEF Conserved, Ended, Open
<1> QED
  BY <1>2, <1>3, <1>4 DEF ReadStream

LEMMA ReadParent ==
  ASSUME PInv, ReadStdout \/ ReadStderr
  PROVE  PInv'
<1>1. /\ polled \subseteq Streams
      /\ writers \in [Pipes -> SUBSET (Procs \union {"parent"})]
      /\ wrote \in [Streams -> Nat]
      /\ result \in {"none", "internal", "not found", "deadline", "exited"}
  BY DEF PInv, Types
<1>2. /\ polled' = polled /\ writers' = writers /\ wrote' = wrote /\ result' = result
      /\ parent \in {"read stdout", "read stderr"}
  BY DEF ReadStdout, ReadStderr, ReadStream
<1>3. /\ \A r \in Streams \ Open : Ended(r)
      /\ result = "none"
  BY <1>2 DEF PInv, Reading
<1>4. CASE ReadStdout
  <2>1. parent = "read stdout" /\ parent' = "read stderr"
    BY <1>4 DEF ReadStdout, ReadStream
  <2>2. \A r \in polled : Readable(r)
    BY <2>1 DEF PInv, Reading
  <2>3. "stdout" \in Streams /\ "stderr" \in Streams \ {"stdout"}
    BY DEF Streams
  <2>4. /\ captured' \in [Streams -> Nat] /\ held' \in [Streams -> Nat]
        /\ Conserved'
        /\ held'["stderr"] = held["stderr"]
        /\ (\A r \in Streams \ Open : Ended(r))'
    BY <1>3, <1>4, <2>2, <2>3, ReadSteps DEF ReadStdout
  <2>5. "stderr" \in polled' => Readable("stderr")'
    BY <1>2, <2>2, <2>4 DEF Readable
  <2>6. Types'
    BY <1>1, <1>2, <2>1, <2>4 DEF Types
  <2>7. Reading'
    BY <1>2, <1>3, <2>1, <2>4, <2>5 DEF Reading
  <2> QED
    BY <2>4, <2>6, <2>7 DEF PInv
<1>5. CASE ReadStderr
  <2>1. parent = "read stderr" /\ parent' = "loop"
    BY <1>5 DEF ReadStderr, ReadStream
  <2>2. "stderr" \in polled => Readable("stderr")
    BY <2>1 DEF PInv, Reading
  <2>3. "stderr" \in Streams
    BY DEF Streams
  <2>4. /\ captured' \in [Streams -> Nat] /\ held' \in [Streams -> Nat]
        /\ Conserved'
        /\ (\A r \in Streams \ Open : Ended(r))'
    BY <1>3, <1>5, <2>2, <2>3, ReadSteps DEF ReadStderr
  <2>6. Types'
    BY <1>1, <1>2, <2>1, <2>4 DEF Types
  <2>7. Reading'
    BY <1>2, <1>3, <2>1, <2>4 DEF Reading
  <2> QED
    BY <2>4, <2>6, <2>7 DEF PInv
<1> QED
  BY <1>4, <1>5

(***************************************************************************)
(* The steps of the parent that read nothing leave the pipes' contents     *)
(* alone; descriptors for reading go only where the result is decided.     *)
(***************************************************************************)
LEMMA ParentSteps ==
  ASSUME PInv,
         \/ StartFails \/ Fork \/ CloseWriteEnds \/ LaunchFailed \/ Launched
         \/ ReapFailed \/ Loop \/ Poll \/ Kill \/ ReapKilled \/ Reap
  PROVE  PInv'
<1>0. /\ Types /\ Conserved /\ Reading
  BY DEF PInv
<1>1. UNCHANGED <<captured, held, wrote>>
  BY DEF StartFails, Fork, CloseWriteEnds, CloseEnds, LaunchFailed, Launched,
         ReapFailed, Loop, Poll, Kill, KillAll, ReapKilled, Reap, procVars
<1>2. Conserved'
  BY <1>0, <1>1 DEF Conserved
<1>3. ASSUME Types' /\ Reading' PROVE PInv'
  BY <1>2, <1>3 DEF PInv
<1> DEFINE Before == {"start", "forked", "handshake", "failing"}
<1>4. CASE StartFails
  <2>1. /\ parent' = "returned" /\ result' = "internal"
        /\ UNCHANGED <<captured, held, wrote, writers, polled, fds>>
    BY <1>4 DEF StartFails, Return, procVars
  <2> QED
    BY <1>0, <1>3, <2>1 DEF Types, Reading
<1>5. CASE Fork
  <2>1. /\ parent = "start" /\ parent' = "forked" /\ fds' = AllFds
        /\ UNCHANGED <<captured, held, wrote, polled, result>>
        /\ writers' \in [Pipes -> SUBSET (Procs \union {"parent"})]
    BY <1>5 DEF Fork, Procs, Group
  <2>2. \A s \in Streams : <<s, "r">> \in fds'
    BY <2>1 DEF AllFds, Streams, Pipes
  <2>3. result = "none"
    BY <1>0, <2>1 DEF Types, Reading
  <2> QED
    BY <1>0, <1>3, <2>1, <2>2, <2>3 DEF Types, Reading
<1>6. CASE CloseWriteEnds
  <2>1. /\ parent = "forked" /\ parent' = "handshake"
        /\ fds' = fds \ (Pipes \X {"w"})
        /\ UNCHANGED <<captured, held, wrote, polled, result>>
    BY <1>6 DEF CloseWriteEnds, CloseEnds
  <2>2. writers' \in [Pipes -> SUBSET (Procs \union {"parent"})]
    BY <1>0, <1>6 DEF CloseWriteEnds, CloseEnds, Types
  <2>3. \A s \in Streams : <<s, "r">> \in fds'
    BY <1>0, <2>1 DEF Reading
  <2>4. result = "none"
    BY <1>0, <2>1 DEF Types, Reading
  <2> QED
    BY <1>0, <1>3, <2>1, <2>2, <2>3, <2>4 DEF Types, Reading
<1>7. CASE LaunchFailed
  <2>1. /\ parent = "handshake" /\ parent' = "failing"
        /\ UNCHANGED <<captured, held, wrote, writers, polled, result>>
    BY <1>7 DEF LaunchFailed, procVars
  <2>2. result = "none"
    BY <1>0, <2>1 DEF Types, Reading
  <2> QED
    BY <1>0, <1>3, <2>1, <2>2 DEF Types, Reading
<1>8. CASE Launched
  <2>1. /\ parent = "handshake" /\ parent' = "loop"
        /\ fds' = fds \ {<<"err", "r">>}
        /\ UNCHANGED <<captured, held, wrote, writers, polled, result>>
    BY <1>8 DEF Launched, procVars
  <2>2. result = "none" /\ \A s \in Streams : <<s, "r">> \in fds
    BY <1>0, <2>1 DEF Types, Reading
  <2>3. \A s \in Streams : s \in Open'
    BY <2>1, <2>2 DEF Open, Streams
  <2> QED
    BY <1>0, <1>3, <2>1, <2>2, <2>3 DEF Types, Reading
<1>9. CASE ReapFailed \/ ReapKilled
  <2>1. /\ parent' = "returned" /\ result' \in {"not found", "deadline"}
        /\ UNCHANGED <<captured, held, wrote, writers, polled>>
    BY <1>9 DEF ReapFailed, ReapKilled, Return
  <2> QED
    BY <1>0, <1>3, <2>1 DEF Types, Reading
<1>10. CASE Loop
  <2>1. /\ parent = "loop" /\ parent' \in {"reap", "kill", "poll"}
        /\ parent' = "reap" => Open = {}
        /\ UNCHANGED <<captured, held, wrote, writers, polled, fds, result>>
    BY <1>10 DEF Loop, procVars
  <2>2. result = "none" /\ \A s \in Streams \ Open : Ended(s)
    BY <1>0, <2>1 DEF Types, Reading
  <2>3. Open' = Open /\ \A s \in Streams : Ended(s)' = Ended(s)
    BY <2>1 DEF Open, Ended
  <2> QED
    BY <1>0, <1>3, <2>1, <2>2, <2>3 DEF Types, Reading
<1>11. CASE Poll
  <2>1. /\ parent = "poll" /\ parent' = "read stdout"
        /\ polled' = {s \in Open : Readable(s)}
        /\ UNCHANGED <<captured, held, wrote, writers, fds, result>>
    BY <1>11 DEF Poll, procVars
  <2>2. result = "none" /\ \A s \in Streams \ Open : Ended(s)
    BY <1>0, <2>1 DEF Types, Reading
  <2>3. /\ Open' = Open
        /\ \A s \in Streams : Ended(s)' = Ended(s) /\ Readable(s)' = Readable(s)
    BY <2>1 DEF Open, Ended, Readable
  <2>4. polled' \subseteq Streams /\ \A s \in polled' : Readable(s)'
    BY <2>1, <2>3 DEF Open
  <2> QED
    BY <1>0, <1>3, <2>1, <2>2, <2>3, <2>4 DEF Types, Reading
<1>12. CASE Kill
  <2>1. /\ parent = "kill" /\ parent' = "reap killed"
        /\ UNCHANGED <<captured, held, wrote, polled, result>>
    BY <1>12 DEF Kill, KillAll
  <2>2. writers' \in [Pipes -> SUBSET (Procs \union {"parent"})]
    BY <1>0, <1>12 DEF Kill, KillAll, Types
  <2>3. result = "none"
    BY <1>0, <2>1 DEF Types, Reading
  <2> QED
    BY <1>0, <1>3, <2>1, <2>2, <2>3 DEF Types, Reading
<1>13. CASE Reap
  <2>1. /\ parent = "reap" /\ parent' = "returned" /\ result' = "exited"
        /\ UNCHANGED <<captured, held, wrote, writers, polled, fds>>
    BY <1>13 DEF Reap, Return
  <2>2. \A s \in Streams : Ended(s)
    BY <1>0, <2>1 DEF Reading
  <2>3. \A s \in Streams : Ended(s)' = Ended(s)
    BY <2>1 DEF Ended
  <2> QED
    BY <1>0, <1>3, <2>1, <2>2, <2>3 DEF Types, Reading
<1> QED
  BY <1>4, <1>5, <1>6, <1>7, <1>8, <1>9, <1>10, <1>11, <1>12, <1>13

LEMMA ProcessStep ==
  ASSUME PInv, [Next]_vars
  PROVE  PInv'
<1>1. CASE UNCHANGED vars
  BY <1>1 DEF vars, procVars, PInv, Types, Conserved, Reading, Open, Ended, Readable
<1>2. CASE Parent
  BY <1>2, ReadParent, ParentSteps DEF Parent
<1>3. CASE \/ Exec \/ ExecFails \/ StrangerExec \/ Spawn \/ Tick
           \/ \E p \in Group : Output(p) \/ CloseOutput(p) \/ Exit(p)
  BY <1>3, ProcessSteps
<1> QED
  BY <1>1, <1>2, <1>3 DEF Next

(***************************************************************************)
(* A process reported as exited has all its output in the result           *)
(* (process.cc:164-234), for every capacity of a pipe.                     *)
(***************************************************************************)
THEOREM Complete == Spec => []OutputComplete
<1>1. PInv /\ [Next]_vars => PInv'
  BY ProcessStep
<1>2. PInv => OutputComplete
  <2> SUFFICES ASSUME PInv, result = "exited", NEW s \in Streams
               PROVE  captured[s] = wrote[s]
    BY DEF OutputComplete
  <2>1. /\ captured[s] \in Nat /\ wrote[s] \in Nat
        /\ captured[s] + held[s] = wrote[s]
    BY DEF PInv, Types, Conserved
  <2>2. held[s] = 0
    BY DEF PInv, Reading, Ended
  <2> QED
    BY <2>1, <2>2
<1> QED
  BY ProcessInit, <1>1, <1>2, PTL DEF Spec

-----------------------------------------------------------------------------
(***************************************************************************)
(* The processes and what RunProcess has open.                             *)
(***************************************************************************)
States ==
  /\ world \in Worlds
  /\ fds \subseteq AllFds
  /\ errno \in BOOLEAN
  /\ state \in [Procs -> {"none", "forked", "running", "zombie", "reaped", "gone"}]
  /\ state["child"] # "gone"
  /\ state["grandchild"] \in {"none", "running", "gone"}
  /\ state["stranger"] \in {"none", "forked", "gone"}

\* After the handshake and before the last return.
Serving == {"loop", "poll", "read stdout", "read stderr", "kill", "reap killed", "reap"}

(***************************************************************************)
(* The error pipe: a child that has not called exec yet holds it, so its   *)
(* end tells the parent that there will be no errno.                       *)
(***************************************************************************)
Launching ==
  /\ parent = "start" => ~errno
  /\ (\E p \in Procs : state[p] # "none") => parent # "start" /\ result # "internal"
  /\ state["child"] = "none" => parent = "start" \/ result = "internal"
  /\ state["child"] = "forked" => "child" \in writers["err"]
  /\ errno => state["child"] \in {"zombie", "reaped"}
  /\ parent = "failing" => errno
  /\ parent \in Serving => ~errno /\ state["child"] # "forked"
  /\ state["child"] = "reaped" => parent = "returned"

\* What is open by then, and closed on every way out.
Closing ==
  /\ parent \in {"start", "failing", "returned"} => fds = {}
  /\ parent = "handshake" => fds \subseteq Pipes \X {"r"}
  /\ parent \in Serving => fds \subseteq Streams \X {"r"}

Returning ==
  /\ parent = "returned" <=> result # "none"
  /\ result \in {"not found", "deadline", "exited"} => state["child"] = "reaped"
  /\ result = "not found" => errno
  /\ result \in {"deadline", "exited"} => ~errno
  /\ parent = "reap killed" \/ result = "deadline" => Running = {}

HInv == States /\ Launching /\ Closing /\ Returning

LEMMA HandshakeInit == Init => HInv
  BY DEF Init, HInv, States, Launching, Closing, Returning, Running, Procs, Group,
         AllFds, Serving

(***************************************************************************)
(* Steps of the processes leave the parent where it is.                    *)
(***************************************************************************)
LEMMA HandshakeProcesses ==
  ASSUME PInv, HInv,
         \/ Exec \/ ExecFails \/ StrangerExec \/ Spawn \/ Tick
         \/ \E p \in Group : Output(p) \/ CloseOutput(p) \/ Exit(p)
  PROVE  HInv'
<1>0. /\ States /\ Launching /\ Closing /\ Returning
      /\ writers \in [Pipes -> SUBSET (Procs \union {"parent"})]
  BY DEF HInv, PInv, Types
<1>1. UNCHANGED parentVars
  BY DEF Exec, ExecFails, StrangerExec, StrangerKeeps, Spawn, Tick, Output,
         CloseOutput, Exit
<1>2. parent' = parent /\ fds' = fds /\ result' = result
  BY <1>1 DEF parentVars
<1>3. Closing'
  BY <1>0, <1>2 DEF Closing
<1>4. ASSUME States', Launching', Returning' PROVE HInv'
  BY <1>3, <1>4 DEF HInv
<1>5. CASE Exec
  <2>1. /\ state["child"] = "forked"
        /\ state' = [state EXCEPT !["child"] = "running"]
        /\ world' = world /\ errno' = errno
    BY <1>5 DEF Exec
  <2>2. States'
    BY <1>0, <1>2, <2>1 DEF States, Procs, Group
  <2>3. parent \notin Serving /\ result \notin {"not found", "deadline", "exited"}
    BY <1>0, <2>1 DEF Launching, Returning
  <2>4. Launching'
    BY <1>0, <1>2, <2>1, <2>3 DEF Launching, States, Procs, Group
  <2>5. Returning'
    BY <1>0, <1>2, <2>1, <2>3 DEF Returning, Serving
  <2> QED
    BY <1>4, <2>2, <2>4, <2>5
<1>6. CASE ExecFails
  <2>1. /\ state["child"] = "forked"
        /\ state' = [state EXCEPT !["child"] = "zombie"]
        /\ world' = world /\ errno' = TRUE
    BY <1>6 DEF ExecFails
  <2>2. States'
    BY <1>0, <1>2, <2>1 DEF States, Procs, Group
  <2>3. parent \notin Serving /\ result \notin {"not found", "deadline", "exited"}
    BY <1>0, <2>1 DEF Launching, Returning
  <2>4. Launching'
    BY <1>0, <1>2, <2>1, <2>3 DEF Launching, States, Procs, Group
  <2>5. Returning'
    BY <1>0, <1>2, <2>1, <2>3 DEF Returning, Serving
  <2> QED
    BY <1>4, <2>2, <2>4, <2>5
<1>7. CASE StrangerExec
  <2>1. /\ state["stranger"] = "forked"
        /\ state' = [state EXCEPT !["stranger"] = "gone"]
        /\ writers' = [q \in Pipes |-> writers[q] \ {"stranger"}]
        /\ world' = world /\ errno' = errno
    BY <1>7 DEF StrangerExec, StrangerKeeps
  <2>2. States' /\ \A p \in Group : state'[p] = state[p]
    BY <1>0, <1>2, <2>1 DEF States, Procs, Group
  <2>3. /\ "child" \in writers["err"] => "child" \in writers'["err"]
        /\ state'["child"] = state["child"] /\ state'["grandchild"] = state["grandchild"]
        /\ \E p \in Procs : state[p] # "none"
    BY <2>1, <2>2 DEF Pipes, Group, Procs
  <2>4. Launching'
    BY <1>0, <1>2, <2>1, <2>3 DEF Launching
  <2>5. \A p \in Procs : state'[p] = "running" <=> state[p] = "running"
    BY <1>0, <2>1 DEF States
  <2>6. Running' = Running
    BY <2>5 DEF Running
  <2>7. Returning'
    BY <1>0, <1>2, <2>1, <2>3, <2>6 DEF Returning
  <2> QED
    BY <1>4, <2>2, <2>4, <2>7
<1>8. CASE Spawn
  <2>1. /\ state["child"] = "running"
        /\ state' = [state EXCEPT !["grandchild"] = "running"]
        /\ world' = world /\ errno' = errno
    BY <1>8 DEF Spawn
  <2>2. States' /\ state'["child"] = "running" /\ state'["grandchild"] = "running"
    BY <1>0, <1>2, <2>1 DEF States, Procs, Group
  <2>3. \E p \in Procs : state[p] # "none"
    BY <2>1 DEF Procs, Group
  <2>4. Running # {}
    BY <2>1 DEF Running, Procs, Group
  <2>5. Launching'
    BY <1>0, <1>2, <2>1, <2>2, <2>3 DEF Launching
  <2>6. Returning'
    BY <1>0, <1>2, <2>1, <2>2, <2>4 DEF Returning
  <2> QED
    BY <1>4, <2>2, <2>5, <2>6
<1>9. CASE Tick \/ \E p \in Group : Output(p)
  <2>1. world' = world /\ errno' = errno /\ state' = state /\ writers' = writers
    BY <1>9 DEF Tick, Output, procVars
  <2> QED
    BY <1>0, <1>2, <1>4, <2>1 DEF States, Launching, Returning, Running
<1>10. ASSUME NEW p \in Group, CloseOutput(p) PROVE HInv'
  <2>1. PICK s \in Streams : writers' = [writers EXCEPT ![s] = @ \ {p}]
    BY <1>10 DEF CloseOutput
  <2>2. world' = world /\ errno' = errno /\ state' = state
    BY <1>10 DEF CloseOutput
  <2>3. writers'["err"] = writers["err"]
    BY <1>0, <2>1 DEF Streams, Pipes
  <2> QED
    BY <1>0, <1>2, <1>4, <2>2, <2>3 DEF States, Launching, Returning, Running
<1>11. ASSUME NEW p \in Group, Exit(p) PROVE HInv'
  <2>1. /\ state[p] = "running" /\ p \in Procs
        /\ state' = [state EXCEPT ![p] = IF p = "child" THEN "zombie" ELSE "gone"]
        /\ world' = world /\ errno' = errno
    BY <1>11 DEF Exit, Running
  <2>2. States' /\ \A q \in Procs \ {p} : state'[q] = state[q]
    BY <1>0, <1>2, <2>1 DEF States, Procs, Group
  <2>3. state'[p] # "running" /\ state'[p] # "none" /\ (p = "child" => state'[p] = "zombie")
    BY <1>0, <2>1 DEF States
  <2>4. Running # {} /\ \E q \in Procs : state[q] # "none"
    BY <2>1 DEF Running
  <2>5. Launching'
    <3>1. CASE p = "child"
      BY <1>0, <1>2, <2>1, <2>3, <2>4, <3>1 DEF Launching
    <3>2. CASE p # "child"
      <4>1. state'["child"] = state["child"]
        BY <2>2, <3>2 DEF Procs, Group
      <4>2. writers'["err"] = writers["err"] \ {p}
        BY <1>11 DEF Exit, Pipes
      <4> QED
        BY <1>0, <1>2, <2>1, <2>4, <3>2, <4>1, <4>2 DEF Launching
    <3> QED
      BY <3>1, <3>2
  <2>6. Returning'
    <3>1. state["child"] = "reaped" => state'["child"] = "reaped"
      BY <2>1, <2>2 DEF Procs, Group
    <3> QED
      BY <1>0, <1>2, <2>1, <2>4, <3>1 DEF Returning
  <2> QED
    BY <1>4, <2>2, <2>5, <2>6
<1> QED
  BY <1>5, <1>6, <1>7, <1>8, <1>9, <1>10, <1>11

(***************************************************************************)
(* Steps of the parent, one place after another.                           *)
(***************************************************************************)
LEMMA HandshakeParent ==
  ASSUME PInv, HInv, Parent
  PROVE  HInv'
<1>0. States /\ Launching /\ Closing /\ Returning
  BY DEF HInv
<1>1. CASE StartFails
  <2>1. /\ parent = "start" /\ parent' = "returned" /\ result' = "internal"
        /\ UNCHANGED <<world, fds, errno, state, writers>>
    BY <1>1 DEF StartFails, Return, procVars
  <2>2. \A p \in Procs : state[p] = "none"
    BY <1>0, <2>1 DEF Launching
  <2>3. Running' = {} /\ state["child"] = "none"
    BY <2>1, <2>2 DEF Running, Procs, Group
  <2> QED
    BY <1>0, <2>1, <2>2, <2>3
    DEF HInv, States, Launching, Closing, Returning, Serving
<1>2. CASE Fork
  <2>1. /\ parent = "start" /\ parent' = "forked" /\ fds' = AllFds
        /\ UNCHANGED <<world, result, errno>>
    BY <1>2 DEF Fork
  <2>2. PICK copies \in {{"child"}, {"child", "stranger"}} :
          /\ state' = [p \in Procs |-> IF p \in copies THEN "forked" ELSE "none"]
          /\ writers' = [q \in Pipes |-> copies \union {"parent"}]
    BY <1>2 DEF Fork
  <2>3. /\ States' /\ state'["child"] = "forked" /\ "child" \in writers'["err"]
        /\ \A p \in Procs : state'[p] # "running"
    BY <1>0, <2>1, <2>2 DEF States, Procs, Group, Pipes
  <2>4. ~errno /\ result = "none"
    BY <1>0, <2>1 DEF Launching, Returning
  <2> QED
    BY <2>1, <2>3, <2>4 DEF HInv, Launching, Closing, Returning, Serving, Running
<1>3. CASE CloseWriteEnds
  <2>1. /\ parent = "forked" /\ parent' = "handshake"
        /\ fds' = fds \ (Pipes \X {"w"})
        /\ writers' = [q \in Pipes |-> IF q \in Pipes THEN writers[q] \ {"parent"}
                                       ELSE writers[q]]
        /\ UNCHANGED <<world, result, errno, state>>
    BY <1>3 DEF CloseWriteEnds, CloseEnds
  <2>2. fds' \subseteq Pipes \X {"r"} /\ fds' \subseteq AllFds
    BY <1>0, <2>1 DEF States, AllFds
  <2>3. "child" \in writers["err"] => "child" \in writers'["err"]
    BY <2>1 DEF Pipes
  <2> QED
    BY <1>0, <2>1, <2>2, <2>3
    DEF HInv, States, Launching, Closing, Returning, Serving, Running
<1>4. CASE LaunchFailed
  <2>1. /\ parent = "handshake" /\ parent' = "failing" /\ errno /\ fds' = {}
        /\ UNCHANGED <<world, result, errno, state, writers>>
    BY <1>4 DEF LaunchFailed, procVars
  <2> QED
    BY <1>0, <2>1 DEF HInv, States, Launching, Closing, Returning, Serving, Running
<1>5. CASE Launched
  <2>1. /\ parent = "handshake" /\ parent' = "loop" /\ ~errno /\ writers["err"] = {}
        /\ fds' = fds \ {<<"err", "r">>}
        /\ UNCHANGED <<world, result, errno, state, writers>>
    BY <1>5 DEF Launched, procVars
  <2>2. fds' \subseteq Streams \X {"r"} /\ fds' \subseteq AllFds
    BY <1>0, <2>1 DEF Closing, Pipes, States
  <2> QED
    BY <1>0, <2>1, <2>2
    DEF HInv, States, Launching, Closing, Returning, Serving, Running
<1>6. ASSUME NEW r \in {"not found", "deadline", "exited"},
             state["child"] = "zombie", state' = [state EXCEPT !["child"] = "reaped"],
             Return(r), fds' = {}, parent \in Serving \union {"failing"},
             r = "not found" <=> errno, r = "deadline" => Running = {},
             UNCHANGED <<world, errno, writers>>
      PROVE  HInv'
  <2>1. parent' = "returned" /\ result' = r
    BY <1>6 DEF Return
  <2>2. States' /\ state'["child"] = "reaped"
    BY <1>0, <1>6 DEF States, Procs, Group
  <2>3. r = "deadline" => Running' = {}
    <3>1. \A p \in Procs : state'[p] = "running" => state[p] = "running"
      BY <1>0, <1>6 DEF States
    <3> QED
      BY <1>6, <3>1 DEF Running
  <2> QED
    BY <1>0, <1>6, <2>1, <2>2, <2>3 DEF HInv, Launching, Closing, Returning, Serving
<1>7. CASE ReapFailed
  <2>1. /\ parent = "failing" /\ state["child"] = "zombie" /\ Return("not found")
        /\ state' = [state EXCEPT !["child"] = "reaped"]
        /\ UNCHANGED <<world, fds, errno, writers>>
    BY <1>7 DEF ReapFailed
  <2>2. errno /\ fds = {}
    BY <1>0, <2>1 DEF Launching, Closing
  <2> QED
    BY <1>6, <2>1, <2>2
<1>8. CASE Loop \/ Poll
  <2>1. /\ parent \in {"loop", "poll"} /\ parent' \in {"reap", "kill", "poll", "read stdout"}
        /\ UNCHANGED <<world, fds, result, errno, state, writers>>
    BY <1>8 DEF Loop, Poll, procVars
  <2> QED
    BY <1>0, <2>1 DEF HInv, States, Launching, Closing, Returning, Serving, Running
<1>9. CASE ReadStdout \/ ReadStderr
  <2>1. /\ parent \in {"read stdout", "read stderr"} /\ parent' \in {"read stderr", "loop"}
        /\ fds' \subseteq fds
        /\ UNCHANGED <<world, result, errno, state, writers>>
    BY <1>9 DEF ReadStdout, ReadStderr, ReadStream
  <2> QED
    BY <1>0, <2>1 DEF HInv, States, Launching, Closing, Returning, Serving, Running
<1>10. CASE Kill
  <2>1. /\ parent = "kill" /\ parent' = "reap killed"
        /\ state' = [p \in Procs |->
                       IF p \in Group /\ state[p] = "running"
                       THEN IF p = "child" THEN "zombie" ELSE "gone"
                       ELSE state[p]]
        /\ UNCHANGED <<world, fds, result, errno>>
    BY <1>10 DEF Kill, KillAll
  <2>2. States'
    BY <1>0, <2>1 DEF States, Procs, Group
  <2>3. \A p \in Procs : state'[p] # "running"
    BY <1>0, <2>1 DEF States, Procs, Group
  <2>4. ~errno /\ state["child"] \notin {"forked", "none", "reaped"}
    BY <1>0, <2>1 DEF Launching, Returning, Serving
  <2>5. state'["child"] = "zombie"
    BY <1>0, <2>1, <2>4 DEF States, Procs, Group
  <2> QED
    BY <1>0, <2>1, <2>2, <2>3, <2>4, <2>5
    DEF HInv, Launching, Closing, Returning, Serving, Running
<1>11. CASE ReapKilled
  <2>1. /\ parent = "reap killed" /\ state["child"] = "zombie" /\ Return("deadline")
        /\ state' = [state EXCEPT !["child"] = "reaped"] /\ fds' = {}
        /\ UNCHANGED <<world, errno, writers>>
    BY <1>11 DEF ReapKilled
  <2>2. ~errno /\ Running = {} /\ parent \in Serving
    BY <1>0, <2>1 DEF Launching, Returning, Serving
  <2> QED
    BY <1>6, <2>1, <2>2
<1>12. CASE Reap
  <2>1. /\ parent = "reap" /\ state["child"] = "zombie" /\ Return("exited")
        /\ state' = [state EXCEPT !["child"] = "reaped"]
        /\ UNCHANGED <<world, fds, errno, writers>>
    BY <1>12 DEF Reap
  <2>2. ~errno /\ parent \in Serving
    BY <1>0, <2>1 DEF Launching, Serving
  <2>3. Open = {}
    BY <2>1 DEF PInv, Reading
  <2>4. fds = {}
    BY <1>0, <2>2, <2>3 DEF Closing, Open
  <2> QED
    BY <1>6, <2>1, <2>2, <2>4
<1> QED
  BY <1>1, <1>2, <1>3, <1>4, <1>5, <1>7, <1>8, <1>9, <1>10, <1>11, <1>12 DEF Parent

THEOREM ProcessInvariance == Spec => [](PInv /\ HInv)
<1>1. PInv /\ HInv /\ [Next]_vars => PInv' /\ HInv'
  <2> SUFFICES ASSUME PInv, HInv, [Next]_vars PROVE PInv' /\ HInv'
    OBVIOUS
  <2>1. PInv'
    BY ProcessStep
  <2>2. CASE UNCHANGED vars
    BY <2>1, <2>2
    DEF vars, procVars, HInv, States, Launching, Closing, Returning, Running
  <2>3. CASE Parent
    BY <2>1, <2>3, HandshakeParent
  <2>4. CASE \/ Exec \/ ExecFails \/ StrangerExec \/ Spawn \/ Tick
             \/ \E p \in Group : Output(p) \/ CloseOutput(p) \/ Exit(p)
    BY <2>1, <2>4, HandshakeProcesses
  <2> QED
    BY <2>2, <2>3, <2>4 DEF Next
<1> QED
  BY ProcessInit, HandshakeInit, <1>1, PTL DEF Spec

(***************************************************************************)
(* "not found" is returned exactly when chdir, dup2 or exec failed         *)
(* (process.cc:139-160), whoever else holds the error pipe.                *)
(***************************************************************************)
THEOREM LaunchIsReported == Spec => []LaunchReported
<1>1. PInv /\ HInv => LaunchReported
  <2> SUFFICES ASSUME PInv, HInv, parent = "returned", result # "internal"
               PROVE  result = "not found" <=> errno
    BY DEF LaunchReported
  <2>1. result \in {"not found", "deadline", "exited"}
    BY DEF PInv, Types, HInv, Returning
  <2> QED
    BY <2>1 DEF HInv, Returning
<1> QED
  BY <1>1, ProcessInvariance, PTL

(***************************************************************************)
(* A timeout leaves nothing of the process group running                   *)
(* (process.cc:169-177).                                                   *)
(***************************************************************************)
THEOREM GroupIsKilled == Spec => []TimeoutKillsGroup
<1>1. HInv => TimeoutKillsGroup
  BY DEF HInv, Returning, TimeoutKillsGroup
<1> QED
  BY <1>1, ProcessInvariance, PTL

(***************************************************************************)
(* On every way out the child has been reaped and every descriptor closed. *)
(***************************************************************************)
THEOREM LeaksNothing == Spec => []NothingLeaks
<1>1. PInv /\ HInv => NothingLeaks
  BY DEF PInv, Types, HInv, Launching, Returning, Closing, States, NothingLeaks, Procs, Group
<1> QED
  BY <1>1, ProcessInvariance, PTL

(***************************************************************************)
(* Type correctness; a pipe never holds more than its capacity.            *)
(***************************************************************************)
Bounded == \A s \in Streams : held[s] <= Capacity

THEOREM TypeCorrect == Spec => []TypeOK
<1>1. Init => Bounded
  BY ProcessConstants DEF Init, Bounded, Streams
<1>2. PInv /\ Bounded /\ [Next]_vars => Bounded'
  <2> SUFFICES ASSUME PInv, Bounded, [Next]_vars PROVE Bounded'
    OBVIOUS
  <2>0. held \in [Streams -> Nat] /\ Capacity \in Nat
    BY ProcessConstants DEF PInv, Types
  <2>1. ASSUME NEW s \in Streams, NEW here, NEW there, ReadStream(s, here, there)
        PROVE  Bounded'
    <3>1. held' = held \/ \E n \in 1 .. held[s] : held' = [held EXCEPT ![s] = @ - n]
      BY <2>1 DEF ReadStream
    <3>2. ASSUME NEW n \in 1 .. held[s], held' = [held EXCEPT ![s] = @ - n]
          PROVE  \A r \in Streams : held'[r] <= held[r]
      BY <2>0, <3>2
    <3>3. held' \in [Streams -> Int]
      BY <2>0, <3>1
    <3> QED
      BY <2>0, <3>1, <3>2, <3>3 DEF Bounded
  <2>2. ASSUME NEW p \in Group, Output(p) PROVE Bounded'
    <3>1. PICK s \in Streams : held[s] < Capacity /\ held' = [held EXCEPT ![s] = @ + 1]
      BY <2>2 DEF Output
    <3> QED
      BY <2>0, <3>1 DEF Bounded
  <2>3. CASE UNCHANGED held
    BY <2>3 DEF Bounded
  <2> QED
    BY <2>1, <2>2, <2>3
    DEF Next, Parent, vars, procVars, StartFails, Fork, CloseWriteEnds, CloseEnds,
        LaunchFailed, Launched, ReapFailed, Loop, Poll, ReadStdout, ReadStderr, Kill,
        KillAll, ReapKilled, Reap, Exec, ExecFails, StrangerExec, StrangerKeeps, Spawn,
        Tick, CloseOutput, Exit, Streams
<1>3. PInv /\ HInv /\ Bounded => TypeOK
  <2> SUFFICES ASSUME PInv, HInv, Bounded PROVE TypeOK
    OBVIOUS
  <2>1. \A s \in Streams : held[s] \in 0 .. Capacity
    <3>1. Capacity \in Nat /\ held \in [Streams -> Nat]
      BY ProcessConstants DEF PInv, Types
    <3> QED
      BY <3>1 DEF Bounded
  <2> QED
    BY <2>1 DEF PInv, Types, HInv, States, Returning, TypeOK
<1> QED
  BY ProcessInvariance, <1>1, <1>2, <1>3, PTL DEF Spec
=============================================================================
