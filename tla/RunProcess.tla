------------------------------ MODULE RunProcess ------------------------------
(***************************************************************************)
(* core/process.cc: RunProcess forks a child in a process group of its     *)
(* own, learns over a close-on-exec pipe whether exec succeeded, reads the *)
(* child's stdout and stderr until both end, and reaps it.                 *)
(*                                                                         *)
(* Besides the child there is a process it may start, which inherits its   *)
(* output pipes, and a stranger: a child another thread has forked in the  *)
(* meantime, which holds a copy of every descriptor until it execs.  What  *)
(* these processes do is external.  Output is counted in pieces; poll and  *)
(* waitpid do not fail.                                                    *)
(***************************************************************************)
EXTENDS Integers, FiniteSets

CONSTANTS
  Capacity,     \* pieces a pipe holds before a writer blocks
  MaxOutput,    \* bound: pieces a process writes to a stream
  Worlds        \* [timeout: options.timeout > 0, hang: a process may run for
                \*  ever, close: a process may close its outputs and go on]

Streams == {"stdout", "stderr"}
Pipes == Streams \union {"err"}
Group == {"child", "grandchild"}
Procs == Group \union {"stranger"}

ASSUME ProcessConstants ==
  /\ Capacity \in Nat \ {0} /\ MaxOutput \in Nat
  /\ Worlds \subseteq [timeout : BOOLEAN, hang : BOOLEAN, close : BOOLEAN]

VARIABLES
  world,      \* what the caller asked for and the processes may do
  parent,     \* where RunProcess is
  fds,        \* descriptors it has open: <<pipe, "r" or "w">>
  polled,     \* streams with revents
  captured,   \* stdout_output, stderr_output
  result,     \* what it returns
  expired,    \* elapsed >= options.timeout
  state,      \* of each process
  writers,    \* of each pipe: the processes that hold its write end
  held,       \* pieces in each output pipe
  errno,      \* err_pipe holds an errno
  todo,       \* pieces each process has yet to write
  wrote       \* pieces written to each stream

vars == <<world, parent, fds, polled, captured, result, expired, state,
          writers, held, errno, todo, wrote>>

procVars == <<state, writers, held, errno, todo, wrote>>
parentVars == <<parent, fds, polled, captured, result>>

Running == {p \in Procs : state[p] = "running"}

AllFds == Pipes \X {"r", "w"}

Init == /\ world \in Worlds
        /\ parent = "start"
        /\ fds = {} /\ polled = {}
        /\ captured = [s \in Streams |-> 0]
        /\ result = "none"
        /\ expired = FALSE
        /\ state = [p \in Procs |-> "none"]
        /\ writers = [q \in Pipes |-> {}]
        /\ held = [s \in Streams |-> 0]
        /\ errno = FALSE
        /\ todo \in [Group -> [Streams -> 0 .. MaxOutput]]
        /\ wrote = [s \in Streams |-> 0]

Return(r) == parent' = "returned" /\ result' = r

-----------------------------------------------------------------------------
(***************************************************************************)
(* pipe2 or fork fails: the descriptors made so far are closed.            *)
(***************************************************************************)
StartFails == /\ parent = "start"
              /\ Return("internal")
              /\ UNCHANGED <<world, fds, polled, captured, expired, procVars>>

(***************************************************************************)
(* Three pipes and a fork; a fork in another thread may come in between.   *)
(***************************************************************************)
Fork ==
  /\ parent = "start"
  /\ parent' = "forked"
  /\ fds' = AllFds
  /\ \E copies \in {{"child"}, {"child", "stranger"}} :
       /\ state' = [p \in Procs |-> IF p \in copies THEN "forked" ELSE "none"]
       /\ writers' = [q \in Pipes |-> copies \union {"parent"}]
  /\ UNCHANGED <<world, polled, captured, result, expired, held, errno, todo,
                 wrote>>

CloseEnds(ends) ==
  /\ parent = "forked"
  /\ parent' = "handshake"
  /\ fds' = fds \ (ends \X {"w"})
  /\ writers' = [q \in Pipes |-> IF q \in ends THEN writers[q] \ {"parent"}
                                 ELSE writers[q]]
  /\ UNCHANGED <<world, polled, captured, result, expired, state, held, errno,
                 todo, wrote>>

CloseWriteEnds == CloseEnds(Pipes)

(***************************************************************************)
(* The read of err_pipe: an errno, or the end once every copy is closed.   *)
(***************************************************************************)
LaunchFailed ==
  /\ parent = "handshake" /\ errno
  /\ parent' = "failing"
  /\ fds' = {}
  /\ UNCHANGED <<world, polled, captured, result, expired, procVars>>

FaultLaunched ==    \* fault: what was read is not looked at
  /\ parent = "handshake" /\ writers["err"] = {}
  /\ parent' = "loop"
  /\ fds' = fds \ {<<"err", "r">>}
  /\ UNCHANGED <<world, polled, captured, result, expired, procVars>>

Launched ==
  /\ parent = "handshake" /\ ~errno /\ writers["err"] = {}
  /\ parent' = "loop"
  /\ fds' = fds \ {<<"err", "r">>}
  /\ UNCHANGED <<world, polled, captured, result, expired, procVars>>

ReapFailed ==
  /\ parent = "failing" /\ state["child"] = "zombie"
  /\ state' = [state EXCEPT !["child"] = "reaped"]
  /\ Return("not found")
  /\ UNCHANGED <<world, fds, polled, captured, expired, writers, held, errno,
                 todo, wrote>>

-----------------------------------------------------------------------------
Open == {s \in Streams : <<s, "r">> \in fds}

Readable(s) == held[s] > 0 \/ writers[s] = {}

FaultLoop ==    \* fault: && for ||
  /\ parent = "loop"
  /\ parent' = IF Open # Streams THEN "reap"
               ELSE IF world.timeout /\ expired THEN "kill" ELSE "poll"
  /\ fds' = IF Open # Streams THEN {} ELSE fds
  /\ UNCHANGED <<world, polled, captured, result, expired, procVars>>

(***************************************************************************)
(* The head of the loop: both streams ended, the time is up, or poll.      *)
(***************************************************************************)
Loop ==
  /\ parent = "loop"
  /\ parent' = IF Open = {} THEN "reap"
               ELSE IF world.timeout /\ expired THEN "kill" ELSE "poll"
  /\ UNCHANGED <<world, fds, polled, captured, result, expired, procVars>>

FaultPoll ==    \* fault: stderr is looked at only after stdout has ended
  /\ parent = "poll"
  /\ LET first == IF "stdout" \in Open THEN "stdout" ELSE "stderr" IN
       /\ Readable(first) \/ (world.timeout /\ expired)
       /\ polled' = {s \in {first} : Readable(s)}
  /\ parent' = "read stdout"
  /\ UNCHANGED <<world, fds, captured, result, expired, procVars>>

(***************************************************************************)
(* poll waits for a stream to be readable or at its end, for what is left  *)
(* of the timeout, and not at all once a stream is closed: its descriptor  *)
(* stays in fds, and a closed one is reported at once (POLLNVAL).          *)
(***************************************************************************)
Poll ==
  /\ parent = "poll"
  /\ \/ \E s \in Open : Readable(s)
     \/ Open # Streams
     \/ world.timeout /\ expired
  /\ polled' = {s \in Open : Readable(s)}
  /\ parent' = "read stdout"
  /\ UNCHANGED <<world, fds, captured, result, expired, procVars>>

(***************************************************************************)
(* One read of a stream that poll reported.                                *)
(***************************************************************************)
ReadStream(s, here, there) ==
  /\ parent = here
  /\ parent' = there
  /\ \/ /\ s \in polled /\ held[s] > 0
        /\ \E n \in 1 .. held[s] :
             /\ captured' = [captured EXCEPT ![s] = @ + n]
             /\ held' = [held EXCEPT ![s] = @ - n]
        /\ UNCHANGED fds
     \/ /\ s \in polled /\ held[s] = 0
        /\ fds' = fds \ {<<s, "r">>}
        /\ UNCHANGED <<captured, held>>
     \/ s \notin polled /\ UNCHANGED <<captured, held, fds>>
  /\ UNCHANGED <<world, polled, result, expired, state, writers, errno, todo,
                 wrote>>

ReadStdout == ReadStream("stdout", "read stdout", "read stderr")
ReadStderr == ReadStream("stderr", "read stderr", "loop")

KillAll(victims) ==
  /\ parent = "kill"
  /\ parent' = "reap killed"
  /\ state' = [p \in Procs |->
                 IF p \in victims /\ state[p] = "running"
                 THEN IF p = "child" THEN "zombie" ELSE "gone"
                 ELSE state[p]]
  /\ writers' = [q \in Pipes |-> writers[q] \ victims]
  /\ UNCHANGED <<world, fds, polled, captured, result, expired, held, errno,
                 todo, wrote>>

FaultKill == KillAll({"child"})    \* fault: no kill(-pid)

(***************************************************************************)
(* SIGKILL to the whole process group.                                     *)
(***************************************************************************)
Kill == KillAll(Group)

FaultReapKilled ==    \* fault: the pipes stay open
  /\ parent = "reap killed" /\ state["child"] = "zombie"
  /\ state' = [state EXCEPT !["child"] = "reaped"]
  /\ Return("deadline")
  /\ UNCHANGED <<world, fds, polled, captured, expired, writers, held, errno,
                 todo, wrote>>

ReapKilled ==
  /\ parent = "reap killed" /\ state["child"] = "zombie"
  /\ state' = [state EXCEPT !["child"] = "reaped"]
  /\ fds' = {}
  /\ Return("deadline")
  /\ UNCHANGED <<world, polled, captured, expired, writers, held, errno, todo,
                 wrote>>

(***************************************************************************)
(* The last waitpid has no timeout.                                        *)
(***************************************************************************)
Reap ==
  /\ parent = "reap" /\ state["child"] = "zombie"
  /\ state' = [state EXCEPT !["child"] = "reaped"]
  /\ Return("exited")
  /\ UNCHANGED <<world, fds, polled, captured, expired, writers, held, errno,
                 todo, wrote>>

-----------------------------------------------------------------------------
(***************************************************************************)
(* The child until it execs: chdir, dup2 or exec may fail.                 *)
(***************************************************************************)
Exec ==
  /\ state["child"] = "forked"
  /\ state' = [state EXCEPT !["child"] = "running"]
  /\ writers' = [writers EXCEPT !["err"] = @ \ {"child"}]
  /\ UNCHANGED <<world, parentVars, expired, held, errno, todo, wrote>>

ExecFails ==
  /\ state["child"] = "forked"
  /\ errno' = TRUE
  /\ state' = [state EXCEPT !["child"] = "zombie"]
  /\ writers' = [q \in Pipes |-> writers[q] \ {"child"}]
  /\ UNCHANGED <<world, parentVars, expired, held, todo, wrote>>

StrangerKeeps(kept) ==
  /\ state["stranger"] = "forked"
  /\ state' = [state EXCEPT !["stranger"] = "gone"]
  /\ writers' = [q \in Pipes |-> IF q \in kept THEN writers[q]
                                 ELSE writers[q] \ {"stranger"}]
  /\ UNCHANGED <<world, parentVars, expired, held, errno, todo, wrote>>

(***************************************************************************)
(* The stranger execs, and its copies of the pipes are closed.             *)
(***************************************************************************)
StrangerExec == StrangerKeeps({})

(***************************************************************************)
(* Programs: they write, start one another, close their outputs and exit.  *)
(***************************************************************************)
Spawn ==
  /\ state["child"] = "running" /\ state["grandchild"] = "none"
  /\ state' = [state EXCEPT !["grandchild"] = "running"]
  /\ writers' = [q \in Pipes |-> IF "child" \in writers[q]
                                 THEN writers[q] \union {"grandchild"}
                                 ELSE writers[q]]
  /\ UNCHANGED <<world, parentVars, expired, held, errno, todo, wrote>>

Output(p) ==
  /\ p \in Running
  /\ \E s \in Streams :
       /\ p \in writers[s] /\ todo[p][s] > 0 /\ held[s] < Capacity
       /\ todo' = [todo EXCEPT ![p][s] = @ - 1]
       /\ held' = [held EXCEPT ![s] = @ + 1]
       /\ wrote' = [wrote EXCEPT ![s] = @ + 1]
  /\ UNCHANGED <<world, parentVars, expired, state, writers, errno>>

Finished(p) == \A s \in Streams : p \in writers[s] => todo[p][s] = 0

CloseOutput(p) ==
  /\ world.close /\ p \in Running
  /\ \E s \in Streams :
       /\ p \in writers[s] /\ todo[p][s] = 0
       /\ writers' = [writers EXCEPT ![s] = @ \ {p}]
  /\ UNCHANGED <<world, parentVars, expired, state, held, errno, todo, wrote>>

Exit(p) ==
  /\ p \in Running /\ Finished(p)
  /\ state' = [state EXCEPT ![p] = IF p = "child" THEN "zombie" ELSE "gone"]
  /\ writers' = [q \in Pipes |-> writers[q] \ {p}]
  /\ UNCHANGED <<world, parentVars, expired, held, errno, todo, wrote>>

(***************************************************************************)
(* The clock starts after the handshake.                                   *)
(***************************************************************************)
Tick == /\ world.timeout /\ ~expired
        /\ parent \notin {"start", "forked", "handshake", "failing"}
        /\ expired' = TRUE
        /\ UNCHANGED <<world, parentVars, procVars>>

Parent == \/ StartFails \/ Fork \/ CloseWriteEnds
          \/ LaunchFailed \/ Launched \/ ReapFailed
          \/ Loop \/ Poll \/ ReadStdout \/ ReadStderr
          \/ Kill \/ ReapKilled \/ Reap

Next == \/ Parent \/ Exec \/ ExecFails \/ StrangerExec \/ Spawn \/ Tick
        \/ \E p \in Group : Output(p) \/ CloseOutput(p) \/ Exit(p)

(***************************************************************************)
(* The parent runs, time passes, exec takes finite time, and a process     *)
(* that can write does; only one that may not hang need exit.              *)
(***************************************************************************)
Fairness ==
  /\ WF_vars(Parent) /\ WF_vars(Tick)
  /\ WF_vars(Exec \/ ExecFails) /\ WF_vars(StrangerExec)
  /\ \A p \in Group : WF_vars(Output(p)) /\ WF_vars(~world.hang /\ Exit(p))

Spec == Init /\ [][Next]_vars

FairSpec == Spec /\ Fairness

-----------------------------------------------------------------------------
TypeOK ==
  /\ world \in Worlds
  /\ parent \in {"start", "forked", "handshake", "failing", "loop", "poll",
                 "read stdout", "read stderr", "kill", "reap killed", "reap",
                 "returned"}
  /\ fds \subseteq AllFds
  /\ polled \subseteq Streams
  /\ result \in {"none", "internal", "not found", "deadline", "exited"}
  /\ parent = "returned" <=> result # "none"
  /\ \A s \in Streams : held[s] \in 0 .. Capacity
  /\ \A q \in Pipes : writers[q] \subseteq Procs \union {"parent"}

(***************************************************************************)
(* Nothing is lost: a process that is reported to have exited has all its  *)
(* output in the result, that of the processes it started included.        *)
(***************************************************************************)
OutputComplete ==
  result = "exited" => \A s \in Streams : captured[s] = wrote[s]

(***************************************************************************)
(* Every path returns with the child reaped and no descriptor open.        *)
(***************************************************************************)
NothingLeaks ==
  parent = "returned" => /\ state["child"] \in {"none", "reaped"}
                         /\ fds = {}

(***************************************************************************)
(* A timeout leaves no process of the group running: the compiler driver's *)
(* cc1 does not survive it.                                                *)
(***************************************************************************)
TimeoutKillsGroup == result = "deadline" => Running = {}

(***************************************************************************)
(* "not found" is returned exactly when the program was not started.       *)
(***************************************************************************)
LaunchReported ==
  parent = "returned" /\ result # "internal"
    => (result = "not found" <=> errno)

(***************************************************************************)
(* RunProcess returns: neither it nor a process whose outputs fill up      *)
(* waits for ever.                                                         *)
(***************************************************************************)
Returns == <>(parent = "returned")

(***************************************************************************)
(* Once the timeout has passed it returns, whatever the processes do.      *)
(***************************************************************************)
TimedOutReturns == expired ~> parent = "returned"
=============================================================================
