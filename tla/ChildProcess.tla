---------------------------- MODULE ChildProcess ----------------------------
(***************************************************************************)
(* The other side of jiklib/process.jik: pipes of bounded capacity, the    *)
(* forked child until it is another program, and that program, which may   *)
(* write, close its streams, leave a process of its own behind, end or be  *)
(* killed.  Capture is this module with the caller.                        *)
(***************************************************************************)
EXTENDS Naturals

CONSTANTS
    Capacity,    \* units a pipe holds before a writer has to wait
    MaxOutput    \* bound: units written to one stream

ASSUME PipeAssumption == Capacity \in Nat \ {0} /\ MaxOutput \in Nat

Stream == {"out", "err"}
Pipe == Stream \cup {"exec"}
Process == {"parent", "child", "descendant"}

VARIABLES
    host,       \* "posix" or "windows": which half of process.jik was compiled
    pipe,       \* units in each pipe; one in "exec" is the errno of a failed start
    writers,    \* who holds the write end of each pipe
    reader,     \* the pipes whose read end the parent holds
    written,    \* units ever written to each stream
    blocked,    \* the stream a process waits to write to, or "no"
    child,      \* where the child is
    status,     \* how it ended
    ran,        \* the child became the program that was asked for
    killed      \* by somebody else

kernel == <<host, pipe, writers, reader, written, blocked, child, status, ran, killed>>

Statuses == [signal : BOOLEAN, value : {0, 1, 9, 127}]

\* p holds no pipe any more.
Left(p) == [s \in Pipe |-> writers[s] \ {p}]

Ends(signal, value) ==
    /\ child' = "ended"
    /\ status' = [signal |-> signal, value |-> value]
    /\ writers' = Left("child")
    /\ blocked' = [blocked EXCEPT !["child"] = "no"]

-----------------------------------------------------------------------------
(***************************************************************************)
(* The branch of the child after fork.                                     *)
(***************************************************************************)

\* dup2 or execvp fails.
StartFails ==
    /\ child = "starting"
    /\ child' = "failing"
    /\ UNCHANGED <<host, pipe, writers, reader, written, blocked, status, ran, killed>>

\* errno is written to the caller.
ReportErrno ==
    /\ child = "failing"
    /\ pipe' = [pipe EXCEPT !["exec"] = 1]
    /\ child' = "reported"
    /\ UNCHANGED <<host, writers, reader, written, blocked, status, ran, killed>>

\* _exit(127)
GiveUp ==
    /\ child = "reported"
    /\ Ends(FALSE, 127)
    /\ UNCHANGED <<host, pipe, reader, written, ran, killed>>

\* execvp succeeds; the pipe for errno is closed on exec.
Exec ==
    /\ child = "starting"
    /\ child' = "program"
    /\ ran' = TRUE
    /\ writers' = [writers EXCEPT !["exec"] = @ \ {"child"}]
    /\ UNCHANGED <<host, pipe, reader, written, blocked, status, killed>>

-----------------------------------------------------------------------------
(***************************************************************************)
(* Programs.  A process that is waiting to write does nothing else.        *)
(***************************************************************************)
Alive(p) == IF p = "child" THEN child = "program" ELSE \E s \in Stream : p \in writers[s]
Free(p) == Alive(p) /\ blocked[p] = "no"

StartWrite(p, s) ==
    /\ Free(p) /\ p \in writers[s]
    /\ written[s] < MaxOutput
    /\ blocked' = [blocked EXCEPT ![p] = s]
    /\ UNCHANGED <<host, pipe, writers, reader, written, child, status, ran, killed>>

FinishWrite(p, s) ==
    /\ blocked[p] = s
    /\ pipe[s] < Capacity /\ s \in reader /\ written[s] < MaxOutput
    /\ pipe' = [pipe EXCEPT ![s] = @ + 1]
    /\ written' = [written EXCEPT ![s] = @ + 1]
    /\ blocked' = [blocked EXCEPT ![p] = "no"]
    /\ UNCHANGED <<host, writers, reader, child, status, ran, killed>>

\* Another process reached the bound first.
SkipWrite(p, s) ==
    /\ blocked[p] = s /\ written[s] = MaxOutput
    /\ blocked' = [blocked EXCEPT ![p] = "no"]
    /\ UNCHANGED <<host, pipe, writers, reader, written, child, status, ran, killed>>

\* Nobody will read: an error that the program lives with.
BrokenWrite(p, s) ==
    /\ blocked[p] = s /\ s \notin reader
    /\ blocked' = [blocked EXCEPT ![p] = "no"]
    /\ UNCHANGED <<host, pipe, writers, reader, written, child, status, ran, killed>>

CloseStream(p, s) ==
    /\ Free(p) /\ p \in writers[s]
    /\ writers' = [writers EXCEPT ![s] = @ \ {p}]
    /\ UNCHANGED <<host, pipe, reader, written, blocked, child, status, ran, killed>>

\* The program starts another one, which inherits its streams.
LeaveDescendant ==
    /\ Free("child") /\ \E s \in Stream : "child" \in writers[s]
    /\ \A s \in Pipe : "descendant" \notin writers[s]
    /\ writers' = [s \in Pipe |-> IF "child" \in writers[s]
                                  THEN writers[s] \cup {"descendant"} ELSE writers[s]]
    /\ UNCHANGED <<host, pipe, reader, written, blocked, child, status, ran, killed>>

Exit ==
    /\ Free("child")
    /\ \E code \in {0, 1, 127} : Ends(FALSE, code)
    /\ UNCHANGED <<host, pipe, reader, written, ran, killed>>

Kill ==
    /\ child \in {"starting", "failing", "reported", "program"}
    /\ Ends(host = "posix", IF host = "posix" THEN 9 ELSE 1)
    /\ killed' = TRUE
    /\ UNCHANGED <<host, pipe, reader, written, ran>>

Program(p) ==
    \/ \E s \in Stream : \/ StartWrite(p, s) \/ FinishWrite(p, s) \/ SkipWrite(p, s)
                         \/ BrokenWrite(p, s) \/ CloseStream(p, s)
    \/ p = "child" /\ Exit

Start == StartFails \/ ReportErrno \/ GiveUp \/ Exec
=============================================================================
