------------------------------ MODULE Capture ------------------------------
(***************************************************************************)
(* run and capture of jiklib/process.jik: the caller, which starts a child *)
(* and collects its two streams without knowing which it will write to     *)
(* next, beside the processes of ChildProcess.  Both halves of the file    *)
(* are here: on POSIX one thread reads what select says is ready, on       *)
(* Windows a thread for each stream blocks in ReadFile.                    *)
(*                                                                         *)
(* A system call that is interrupted is repeated at once and is no step.   *)
(***************************************************************************)
EXTENDS ChildProcess, Sequences, FiniteSets

VARIABLES
    call,       \* "run" or "capture"
    pc,         \* where the caller is
    ready,      \* what select reported and was not read yet
    buffer,     \* units collected of each stream
    thread,     \* the reader threads
    readOk,     \* drain_pipes returned true
    errno,      \* what the pipe for errno gave
    waited,     \* the wait and the question for the exit code succeeded
    outcome     \* what the caller returns or throws

parent == <<call, pc, ready, buffer, thread, readOk, errno, waited, outcome>>
vars == <<kernel, parent>>

Throws(what) == [kind |-> "error", what |-> what]
Nothing == [kind |-> "none"]

\* The pipes a call creates, in order
Needed ==
    CASE host = "posix" /\ call = "capture" -> <<"out", "err", "exec">>
      [] host = "posix" /\ call = "run" -> <<"exec">>
      [] host = "windows" /\ call = "capture" -> <<"out", "err">>
      [] OTHER -> <<>>

\* exit_code_from_status; GetExitCodeProcess
ExitCode == IF status.signal THEN 128 + status.value ELSE status.value

\* Mutant of CloseAll: the write ends only
CloseHalf ==
    /\ UNCHANGED reader
    /\ writers' = Left("parent")

\* Whatever was opened is closed on both ends.
CloseAll ==
    /\ reader' = {}
    /\ writers' = Left("parent")

Init ==
    /\ host \in {"posix", "windows"} /\ call \in {"run", "capture"}
    /\ pipe = [p \in Pipe |-> 0] /\ writers = [p \in Pipe |-> {}] /\ reader = {}
    /\ written = [s \in Stream |-> 0]
    /\ blocked = [p \in Process |-> "no"]
    /\ child = "none" /\ status = [signal |-> FALSE, value |-> 0]
    /\ ran = FALSE /\ killed = FALSE
    /\ pc = "start" /\ ready = {}
    /\ buffer = [s \in Stream |-> 0]
    /\ thread = [s \in Stream |-> "none"]
    /\ readOk = TRUE /\ errno = "unread" /\ waited = TRUE
    /\ outcome = Nothing

-----------------------------------------------------------------------------
(***************************************************************************)
(* Starting the child                                                      *)
(***************************************************************************)

\* An empty name, or no memory for argv
Refuse ==
    /\ pc = "start" /\ reader = {}
    /\ \E what \in {"invalid program"} \cup
                   (IF host = "posix" THEN {"allocation failed"} ELSE {}) :
         outcome' = Throws(what)
    /\ pc' = "done"
    /\ UNCHANGED <<kernel, call, ready, buffer, thread, readOk, errno, waited>>

OpenPipe ==
    /\ pc = "start" /\ Cardinality(reader) < Len(Needed)
    /\ LET p == Needed[Cardinality(reader) + 1]
       IN /\ reader' = reader \cup {p}
          /\ writers' = [writers EXCEPT ![p] = {"parent"}]
    /\ UNCHANGED <<host, pipe, written, blocked, child, status, ran, killed, parent>>

\* A pipe cannot be made, or the last one not be closed on exec.
PipeFails ==
    /\ pc = "start" /\ Needed # <<>>
    /\ CloseAll
    /\ outcome' = Throws(IF call = "capture" THEN "could not create pipe"
                         ELSE "could not start process")
    /\ pc' = "done"
    /\ UNCHANGED <<host, pipe, written, blocked, child, status, ran, killed,
                   call, ready, buffer, thread, readOk, errno, waited>>

\* fork; CreateProcess, which says whether the program could be started
Fork ==
    /\ pc = "start" /\ Cardinality(reader) = Len(Needed)
    /\ writers' = [p \in Pipe |-> IF p \in reader THEN writers[p] \cup {"child"} ELSE writers[p]]
    /\ child' = IF host = "posix" THEN "starting" ELSE "program"
    /\ ran' = (host = "windows")
    /\ pc' = "forked"
    /\ UNCHANGED <<host, pipe, reader, written, blocked, status, killed,
                   call, ready, buffer, thread, readOk, errno, waited, outcome>>

ForkFails ==
    /\ pc = "start" /\ Cardinality(reader) = Len(Needed)
    /\ CloseAll
    /\ outcome' = Throws("could not start process")
    /\ pc' = "done"
    /\ UNCHANGED <<host, pipe, written, blocked, child, status, ran, killed,
                   call, ready, buffer, thread, readOk, errno, waited>>

\* The caller's copies of the write ends go, or no pipe would ever end.
CloseWriteEnds ==
    /\ pc = "forked"
    /\ writers' = Left("parent")
    /\ pc' = CASE host = "posix" /\ call = "capture" -> "drain"
               [] host = "posix" /\ call = "run" -> "errno"
               [] host = "windows" /\ call = "capture" -> "threads"
               [] OTHER -> "wait"
    /\ UNCHANGED <<host, pipe, reader, written, blocked, child, status, ran, killed,
                   call, ready, buffer, thread, readOk, errno, waited, outcome>>

-----------------------------------------------------------------------------
(***************************************************************************)
(* POSIX: drain_pipes, then the pipe for errno                             *)
(***************************************************************************)
Open == Stream \cap reader
Readable == {s \in Open : pipe[s] > 0 \/ writers[s] = {}}

\* Mutant of Select: the first stream that has ended ends the loop.
SelectOnce ==
    /\ pc = "drain" /\ ready = {}
    /\ IF Open # Stream
       THEN pc' = "errno" /\ UNCHANGED ready
       ELSE Readable # {} /\ ready' = Readable /\ UNCHANGED pc
    /\ UNCHANGED <<kernel, call, buffer, thread, readOk, errno, waited, outcome>>

\* Mutant of Select: one stream after the other.
SelectInTurn ==
    /\ pc = "drain" /\ ready = {}
    /\ IF Open = {}
       THEN pc' = "errno" /\ UNCHANGED ready
       ELSE LET s == IF "out" \in Open THEN "out" ELSE "err"
            IN s \in Readable /\ ready' = {s} /\ UNCHANGED pc
    /\ UNCHANGED <<kernel, call, buffer, thread, readOk, errno, waited, outcome>>

Select ==
    /\ pc = "drain" /\ ready = {}
    /\ IF Open = {}
       THEN pc' = "errno" /\ UNCHANGED ready
       ELSE Readable # {} /\ ready' = Readable /\ UNCHANGED pc
    /\ UNCHANGED <<kernel, call, buffer, thread, readOk, errno, waited, outcome>>

\* out before err
NextReady == IF "out" \in ready THEN "out" ELSE "err"

\* Mutant of Read: one read is taken for all there is.
ReadAll ==
    /\ pc = "drain" /\ ready # {}
    /\ LET s == NextReady
       IN /\ ready' = ready \ {s}
          /\ reader' = reader \ {s}
          /\ pipe' = [pipe EXCEPT ![s] = 0]
          /\ buffer' = [buffer EXCEPT ![s] = @ + pipe[s]]
    /\ UNCHANGED <<host, writers, written, blocked, child, status, ran, killed,
                   call, pc, thread, readOk, errno, waited, outcome>>

\* One read of what is there; a read that finds nothing is the end.
Read ==
    /\ pc = "drain" /\ ready # {}
    /\ LET s == NextReady
       IN /\ ready' = ready \ {s}
          /\ IF pipe[s] = 0
             THEN /\ reader' = reader \ {s}
                  /\ UNCHANGED <<pipe, buffer>>
             ELSE \E n \in 1 .. pipe[s] :
                    /\ pipe' = [pipe EXCEPT ![s] = @ - n]
                    /\ buffer' = [buffer EXCEPT ![s] = @ + n]
                    /\ UNCHANGED reader
    /\ UNCHANGED <<host, writers, written, blocked, child, status, ran, killed,
                   call, pc, thread, readOk, errno, waited, outcome>>

\* select or read fails, or there is no memory for what was read. The read
\* ends stay open.
DrainFails ==
    /\ pc = "drain" /\ (ready # {} \/ Open # {})
    /\ \E n \in 0 .. (IF ready = {} THEN 0 ELSE pipe[NextReady]) :
         pipe' = [pipe EXCEPT ![NextReady] = @ - n]
    /\ readOk' = FALSE
    /\ ready' = {}
    /\ pc' = "errno"
    /\ UNCHANGED <<host, writers, reader, written, blocked, child, status, ran, killed,
                   call, buffer, thread, errno, waited, outcome>>

\* Mutant of ReadErrno: it does not wait for the child.
ReadErrnoEarly ==
    /\ pc = "errno"
    /\ errno' = IF pipe["exec"] > 0 THEN "errno" ELSE "none"
    /\ reader' = reader \ {"exec"}
    /\ pc' = "wait"
    /\ UNCHANGED <<host, pipe, writers, written, blocked, child, status, ran, killed,
                   call, ready, buffer, thread, readOk, waited, outcome>>

ReadErrno ==
    /\ pc = "errno"
    /\ \/ pipe["exec"] > 0 /\ errno' = "errno"
       \/ pipe["exec"] = 0 /\ writers["exec"] = {} /\ errno' = "none"
    /\ reader' = reader \ {"exec"}
    /\ pc' = "wait"
    /\ UNCHANGED <<host, pipe, writers, written, blocked, child, status, ran, killed,
                   call, ready, buffer, thread, readOk, waited, outcome>>

ErrnoFails ==
    /\ pc = "errno"
    /\ errno' = "failed"
    /\ reader' = reader \ {"exec"}
    /\ pc' = "wait"
    /\ UNCHANGED <<host, pipe, writers, written, blocked, child, status, ran, killed,
                   call, ready, buffer, thread, readOk, waited, outcome>>

-----------------------------------------------------------------------------
(***************************************************************************)
(* Windows: a thread for each stream                                       *)
(***************************************************************************)
StartThreads ==
    /\ pc = "threads"
    /\ \E started \in SUBSET Stream :
         /\ thread' = [s \in Stream |-> IF s \in started THEN "reading" ELSE "none"]
         /\ pc' = IF started = Stream THEN "wait" ELSE "abort"
    /\ UNCHANGED <<kernel, call, ready, buffer, readOk, errno, waited, outcome>>

\* One of them could not be started: the child is ended and the read ends are
\* closed, under a thread that may be reading.
Abort ==
    /\ pc = "abort"
    /\ IF child = "program"
       THEN Ends(FALSE, 1)
       ELSE UNCHANGED <<child, status, writers, blocked>>
    /\ reader' = {}
    /\ pc' = "join"
    /\ UNCHANGED <<host, pipe, written, ran, killed,
                   call, ready, buffer, thread, readOk, errno, waited, outcome>>

ThreadReads(s) ==
    /\ thread[s] = "reading" /\ s \in reader
    /\ \/ \E n \in 1 .. pipe[s] :
            /\ pipe' = [pipe EXCEPT ![s] = @ - n]
            /\ buffer' = [buffer EXCEPT ![s] = @ + n]
            /\ UNCHANGED thread
       \/ /\ pipe[s] = 0 /\ writers[s] = {}
          /\ thread' = [thread EXCEPT ![s] = "ended"]
          /\ UNCHANGED <<pipe, buffer>>
    /\ UNCHANGED <<host, writers, reader, written, blocked, child, status, ran, killed,
                   call, pc, ready, readOk, errno, waited, outcome>>

\* ReadFile fails, or there is no memory for what was read.
ThreadFails(s) ==
    /\ thread[s] = "reading"
    /\ thread' = [thread EXCEPT ![s] = "failed"]
    /\ \E n \in 0 .. pipe[s] : pipe' = [pipe EXCEPT ![s] = @ - n]
    /\ UNCHANGED <<host, writers, reader, written, blocked, child, status, ran, killed,
                   call, pc, ready, buffer, readOk, errno, waited, outcome>>

Join ==
    /\ pc = "join"
    /\ \A s \in Stream : thread[s] # "reading"
    /\ reader' = {}
    /\ pc' = "finish"
    /\ UNCHANGED <<host, pipe, writers, written, blocked, child, status, ran, killed,
                   call, ready, buffer, thread, readOk, errno, waited, outcome>>

-----------------------------------------------------------------------------
(***************************************************************************)
(* The end of the child, and of the call                                   *)
(***************************************************************************)
AfterWait == IF host = "windows" /\ call = "capture" THEN "join" ELSE "finish"

Wait ==
    /\ pc = "wait" /\ child = "ended"
    /\ child' = "reaped"
    /\ pc' = AfterWait
    /\ UNCHANGED <<host, pipe, writers, reader, written, blocked, status, ran, killed,
                   call, ready, buffer, thread, readOk, errno, waited, outcome>>

\* waitpid finds no child: the caller's process ignores SIGCHLD. On Windows
\* the wait or GetExitCodeProcess fails.
WaitFails ==
    /\ pc = "wait" /\ (host = "posix" => child = "ended")
    /\ waited' = FALSE
    /\ pc' = AfterWait
    /\ UNCHANGED <<kernel, call, ready, buffer, thread, readOk, errno, outcome>>

ThreadFailed == \E s \in Stream : thread[s] = "failed"
Aborted == host = "windows" /\ call = "capture" /\ \E s \in Stream : thread[s] = "none"

\* What is thrown, in the order in which the code asks
Complaint ==
    IF ~ readOk \/ Aborted THEN "pipe read failed"
    ELSE IF ~ waited THEN "wait failed"
    ELSE IF errno = "errno" \/ (errno = "failed" /\ call = "run")
         THEN "could not start process"
    ELSE IF errno = "failed" \/ ThreadFailed THEN "pipe read failed"
    ELSE "none"

Finish ==
    /\ pc = "finish"
    /\ outcome' = IF Complaint # "none" THEN Throws(Complaint)
                  ELSE [kind |-> "result", code |-> ExitCode,
                        out |-> buffer["out"], err |-> buffer["err"]]
    /\ pc' = "done"
    /\ UNCHANGED <<kernel, call, ready, buffer, thread, readOk, errno, waited>>

-----------------------------------------------------------------------------
Caller ==
    \/ OpenPipe \/ Fork \/ CloseWriteEnds
    \/ Select \/ Read \/ ReadErrno
    \/ StartThreads \/ Abort \/ Join
    \/ Wait \/ Finish

Failure ==
    \/ Refuse \/ PipeFails \/ ForkFails
    \/ DrainFails \/ ErrnoFails \/ WaitFails
    \/ \E s \in Stream : ThreadFails(s)

Others ==
    /\ \/ Start \/ Kill \/ LeaveDescendant
       \/ \E p \in {"child", "descendant"} : Program(p)
    /\ UNCHANGED parent

Next ==
    \/ Caller \/ Failure \/ Others
    \/ \E s \in Stream : ThreadReads(s)

(***************************************************************************)
(* The caller and its threads go on when they can, and so does the child   *)
(* until it is the program; programs end unless they wait for a reader.    *)
(* No call has to fail, except that of a thread whose handle was closed.   *)
(***************************************************************************)
Fairness ==
    /\ WF_vars(Caller)
    /\ \A s \in Stream : WF_vars(ThreadReads(s)) /\ WF_vars(s \notin reader /\ ThreadFails(s))
    /\ WF_vars(Start /\ UNCHANGED parent)
    /\ \A p \in {"child", "descendant"} : WF_vars(Program(p) /\ UNCHANGED parent)

Spec == Init /\ [][Next]_vars /\ Fairness

-----------------------------------------------------------------------------
(***************************************************************************)
(* A result is all the child and whoever it left behind wrote, in separate *)
(* streams that nobody can write to any more, of a child that has ended.   *)
(***************************************************************************)
Complete ==
    outcome.kind = "result" =>
        /\ child = "reaped"
        /\ call = "capture" =>
             /\ outcome.out = written["out"] /\ outcome.err = written["err"]
             /\ \A s \in Stream : writers[s] = {}

(***************************************************************************)
(* That a program could not be started and that it failed are kept apart:  *)
(* the exit code 127 of a program is a result, and the same code of a      *)
(* child that never became it is not, however both ends of the pipe for    *)
(* errno race.  Only a signal between fork and exec hides the failure.     *)
(***************************************************************************)
StartReported ==
    /\ outcome.kind = "result" => ran \/ killed
    /\ outcome = Throws("could not start process") /\ errno # "failed" => ~ ran

(***************************************************************************)
(* However a call ends, it keeps no end of a pipe and leaves no child that *)
(* nobody waits for, except after a failed wait; drain_pipes, when it      *)
(* fails, leaves read ends open (they are forgotten right after it).       *)
(***************************************************************************)
NothingLeft ==
    pc = "done" =>
        /\ readOk => reader = {}
        /\ \A p \in Pipe : "parent" \notin writers[p]
        /\ waited => child \in {"none", "reaped"} \/ (child = "ended" /\ Aborted)

\* No program of a POSIX caller ever writes to a pipe without a reader, which
\* would end it: a read end is closed only when no writer is left.
NeverBroken ==
    host = "posix" => \A p \in Process : blocked[p] \in Stream => blocked[p] \in reader

ReadFailed == ~ readOk \/ ThreadFailed

\* Somebody waits for room in a pipe after a read has failed.
Abandoned == ReadFailed /\ \E p \in Process : blocked[p] \in Stream

(***************************************************************************)
(* Whatever the child writes to which stream, and whoever inherits its     *)
(* streams, a call ends: nobody waits for a pipe that the other side does  *)
(* not come back to.  The one way not to end is that a read failed, the    *)
(* pipe is left open unread, and the child that the caller waits for has   *)
(* more to say than it holds.                                              *)
(***************************************************************************)
Finishes == <>(pc = "done") \/ <>[]Abandoned
=============================================================================
