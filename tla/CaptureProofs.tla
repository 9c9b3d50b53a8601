---------------------------- MODULE CaptureProofs ----------------------------
(***************************************************************************)
(* Proofs about Capture, for pipes of any capacity and any amount of       *)
(* output: what run and capture of jiklib/process.jik return is complete   *)
(* and says truly whether the program was started, they leave nothing      *)
(* behind, and on POSIX they break no pipe under a program.                *)
(***************************************************************************)
EXTENDS Capture, FiniteSetTheorems, TLAPS

\* The results a call can have: the error it throws, or what the program left.
Outcomes ==
    {Nothing}
    \cup [kind : {"error"}, what : {"invalid program", "allocation failed", "could not create pipe",
                                    "could not start process", "pipe read failed", "wait failed"}]
    \cup [kind : {"result"}, code : Nat, out : Nat, err : Nat]

TypeOK ==
    /\ host \in {"posix", "windows"} /\ call \in {"run", "capture"}
    /\ pipe \in [Pipe -> Nat]
    /\ writers \in [Pipe -> SUBSET Process]
    /\ reader \in SUBSET Pipe
    /\ written \in [Stream -> Nat]
    /\ blocked \in [Process -> Stream \cup {"no"}]
    /\ child \in {"none", "starting", "failing", "reported", "program", "ended", "reaped"}
    /\ status \in Statuses
    /\ ran \in BOOLEAN /\ killed \in BOOLEAN
    /\ pc \in {"start", "forked", "drain", "errno", "threads", "abort", "wait", "join",
               "finish", "done"}
    /\ ready \in SUBSET Stream
    /\ buffer \in [Stream -> Nat]
    /\ thread \in [Stream -> {"none", "reading", "ended", "failed"}]
    /\ readOk \in BOOLEAN /\ waited \in BOOLEAN
    /\ errno \in {"unread", "none", "errno", "failed"}
    /\ outcome \in Outcomes

\* The counters stay in the bounds that the constants give them.
Bounded ==
    /\ \A p \in Pipe : pipe[p] <= Capacity
    /\ \A s \in Stream : written[s] <= MaxOutput

\* Which way a call goes, and what it has done on that way.
Route ==
    /\ pc = "drain" => host = "posix" /\ call = "capture"
    /\ pc = "errno" => host = "posix"
    /\ pc \in {"threads", "abort", "join"} => host = "windows" /\ call = "capture"
    /\ pc \in {"start", "forked", "drain", "threads", "abort"} => readOk
    /\ pc \in {"start", "forked", "drain", "errno", "threads", "abort", "wait"} => waited
    /\ pc \in {"start", "forked", "drain", "errno"} => errno = "unread"
    /\ host = "posix" /\ pc \in {"wait", "finish"} => errno # "unread"
    /\ host = "windows" => readOk /\ errno = "unread"
    /\ pc # "done" => outcome = Nothing

\* The reader threads exist on Windows only, and one for each stream when they are waited for.
Threads ==
    /\ host = "posix" \/ call = "run" \/ pc \in {"start", "forked", "threads"} =>
          \A s \in Stream : thread[s] = "none"
    /\ host = "windows" /\ call = "capture" /\ pc = "wait" =>
          \A s \in Stream : thread[s] # "none"
    /\ pc = "abort" => \E s \in Stream : thread[s] = "none"
    /\ pc \in {"finish", "done"} => \A s \in Stream : thread[s] # "reading"

\* Before the fork there is nobody but the caller.
Alone ==
    /\ pc = "start" =>
          /\ child = "none" /\ ~ killed
          /\ \A p \in Pipe : pipe[p] = 0 /\ writers[p] \subseteq {"parent"}
          /\ \A p \in Pipe \ reader : writers[p] = {}
          /\ \A p \in Process : blocked[p] = "no"
    /\ child = "none" => pc \in {"start", "done"}

\* The read ends that are open.
ReadEnds ==
    /\ host = "windows" => reader \subseteq Stream
    /\ call = "run" => reader \subseteq {"exec"}
    /\ host = "posix" /\ pc \in {"wait", "finish", "done"} => "exec" \notin reader
    /\ host = "posix" /\ pc \in {"errno", "wait", "finish", "done"} /\ readOk => Open = {}
    /\ host = "windows" /\ pc \in {"finish", "done"} => reader = {}

\* The write ends: the caller gives its own up, and nobody waits to write to a stream without
\* an end of it.
WriteEnds ==
    /\ pc \notin {"start", "forked"} => \A p \in Pipe : "parent" \notin writers[p]
    /\ \A p \in Process : blocked[p] \in Stream => p # "parent" /\ p \in writers[blocked[p]]

\* The pipe for errno tells what became of the child.
ExecPipe ==
    /\ host = "windows" => pipe["exec"] = 0 /\ child \notin {"starting", "failing", "reported"}
    /\ child \in {"none", "starting", "failing", "reported"} => ~ ran
    /\ child \in {"starting", "failing", "reported"} => "child" \in writers["exec"]
    /\ child = "program" => ran
    /\ child = "reported" => pipe["exec"] > 0
    /\ child \in {"ended", "reaped"} => ran \/ killed \/ pipe["exec"] > 0
    /\ pipe["exec"] > 0 => ~ ran /\ child \in {"reported", "ended", "reaped"}
    /\ errno = "none" => pipe["exec"] = 0 /\ writers["exec"] = {}
    /\ errno = "errno" => pipe["exec"] > 0

\* A stream whose end was seen is empty, and nobody can write to it any more.
Drained(s) == pipe[s] = 0 /\ writers[s] = {}

Streams ==
    /\ host = "posix" => \A s \in Stream \ reader : Drained(s)
    /\ \A s \in ready : s \in reader /\ (pipe[s] > 0 \/ writers[s] = {})
    /\ pc # "drain" => ready = {}
    /\ \A s \in Stream : thread[s] = "ended" => Drained(s)

\* Until a read fails, what was written is in the pipe or in the buffer.
Balance ==
    \A s \in Stream : readOk /\ thread[s] # "failed" => written[s] = buffer[s] + pipe[s]

\* How the child is when the caller is done with it.
Ended ==
    /\ pc \in {"join", "finish"} /\ waited => child = (IF Aborted THEN "ended" ELSE "reaped")
    /\ child = "reaped" => pc \in {"join", "finish", "done"}
    /\ pc = "done" /\ waited => child \in {"none", "reaped"} \/ (child = "ended" /\ Aborted)

\* A call that returns a result had nothing to complain about.
Results ==
    /\ outcome.kind = "result" =>
          /\ pc = "done" /\ Complaint = "none" /\ child = "reaped"
          /\ host = "posix" => errno = "none"
          /\ outcome.out = buffer["out"] /\ outcome.err = buffer["err"]
          /\ call = "capture" => \A s \in Stream : Drained(s)
    /\ outcome = Throws("could not start process") =>
          pc = "done" /\ waited /\ (errno # "failed" => ~ ran)

IInv ==
    /\ TypeOK /\ Bounded /\ Route /\ Threads /\ Alone /\ ReadEnds /\ WriteEnds /\ ExecPipe
    /\ Streams /\ Balance /\ Ended /\ Results

-----------------------------------------------------------------------------
(***************************************************************************)
(* Outcomes, and the pipes a call needs.                                   *)
(***************************************************************************)

Complaints == {"invalid program", "allocation failed", "could not create pipe",
               "could not start process", "pipe read failed", "wait failed"}

\* An error is an outcome, and tells what it is about.
LEMMA ErrorOutcome ==
    /\ \A what \in Complaints : Throws(what) \in Outcomes /\ Throws(what).kind = "error"
    /\ \A what \in Complaints : Throws(what) = Throws("could not start process")
                                   => what = "could not start process"
BY DEF Complaints, Throws, Outcomes

\* A call that has not ended has neither a result nor an error.
LEMMA NoOutcome ==
    Nothing \in Outcomes /\ Nothing.kind = "none" /\ Nothing # Throws("could not start process")
BY DEF Nothing, Outcomes, Throws

\* There are three pipes.
LEMMA PipeCount == IsFiniteSet(Pipe) /\ Cardinality(Pipe) = 3
<1> DEFINE two == {"out"} \cup {"err"}
<1>1. IsFiniteSet({"out"}) /\ Cardinality({"out"}) = 1
  BY FS_Singleton
<1>2. IsFiniteSet(two) /\ Cardinality(two) = 2
  <2>1. Cardinality(two) = IF "err" \in {"out"} THEN Cardinality({"out"})
                           ELSE Cardinality({"out"}) + 1
    BY <1>1, FS_AddElement
  <2> QED
    BY <1>1, <2>1, FS_AddElement
<1>3. IsFiniteSet(two \cup {"exec"}) /\ Cardinality(two \cup {"exec"}) = 3
  <2>1. Cardinality(two \cup {"exec"}) = IF "exec" \in two THEN Cardinality(two)
                                         ELSE Cardinality(two) + 1
    BY <1>2, FS_AddElement
  <2> QED
    BY <1>2, <2>1, FS_AddElement
<1>4. Pipe = two \cup {"exec"}
  BY DEF Pipe, Stream
<1> QED
  BY <1>3, <1>4

\* The pipes are few, and each is a stream or the pipe for errno.
LEMMA PipesNeeded ==
    ASSUME TypeOK
    PROVE  /\ Len(Needed) \in Nat /\ Cardinality(reader) \in Nat
           /\ \A i \in 1 .. Len(Needed) :
                 /\ Needed[i] \in Pipe
                 /\ host = "windows" => Needed[i] \in Stream
                 /\ call = "run" => Needed[i] = "exec"
<1>1. Cardinality(reader) \in Nat
  BY PipeCount, FS_Subset, FS_CardinalityType DEF TypeOK
<1>2. CASE host = "posix" /\ call = "capture"
  BY <1>1, <1>2 DEF Needed, Pipe, Stream
<1>3. CASE host = "posix" /\ call = "run"
  BY <1>1, <1>3 DEF Needed, Pipe, Stream
<1>4. CASE host = "windows" /\ call = "capture"
  BY <1>1, <1>4 DEF Needed, Pipe, Stream
<1>5. CASE host = "windows" /\ call = "run"
  BY <1>1, <1>5 DEF Needed, Pipe, Stream
<1> QED
  BY <1>2, <1>3, <1>4, <1>5 DEF TypeOK

\* When all of them are open on POSIX, the one for errno is.
LEMMA ErrnoPipeOpen ==
    ASSUME TypeOK, ReadEnds, host = "posix", Cardinality(reader) = Len(Needed)
    PROVE  "exec" \in reader
<1>1. CASE call = "run"
  <2>1. Cardinality(reader) = 1
    BY <1>1 DEF Needed
  <2>2. reader # {}
    BY <2>1, FS_EmptySet
  <2> QED
    BY <1>1, <2>2 DEF ReadEnds
<1>2. CASE call = "capture"
  <2>1. Cardinality(reader) = 3
    BY <1>2 DEF Needed
  <2>2. reader = Pipe
    BY PipeCount, <2>1, FS_Subset DEF TypeOK
  <2> QED
    BY <2>2 DEF Pipe
<1> QED
  BY <1>1, <1>2 DEF TypeOK

-----------------------------------------------------------------------------
(***************************************************************************)
(* The steps of the child and of the other programs.                       *)
(***************************************************************************)

\* dup2 or execvp fails.
LEMMA StartFailsInvariant ==
    ASSUME IInv, StartFails, UNCHANGED parent
    PROVE  IInv'
<1> USE DEF IInv, TypeOK, Stream, Pipe, Process
<1>1. TypeOK'
  BY DEF TypeOK, StartFails, kernel, parent
<1>2. Alone'
  BY DEF Alone, StartFails, kernel, parent
<1>3. ExecPipe'
  BY DEF ExecPipe, StartFails, kernel, parent
<1>4. Ended'
  BY DEF Ended, Aborted, StartFails, kernel, parent
<1>5. Results'
  BY DEF Results, Drained, Complaint, Aborted, ThreadFailed, StartFails, kernel, parent
<1>6. Bounded' /\ Route' /\ Threads'
  BY DEF Bounded, Route, Threads, StartFails, kernel, parent
<1>7. ReadEnds' /\ WriteEnds'
  BY DEF ReadEnds, Open, WriteEnds, StartFails, kernel, parent
<1>8. Streams' /\ Balance'
  BY DEF Streams, Drained, Balance, StartFails, kernel, parent
<1> QED
  BY <1>1, <1>2, <1>3, <1>4, <1>5, <1>6, <1>7, <1>8

\* errno is written to the caller.
LEMMA ReportErrnoInvariant ==
    ASSUME IInv, ReportErrno, UNCHANGED parent
    PROVE  IInv'
<1> USE DEF IInv, TypeOK, Stream, Pipe, Process
<1>1. TypeOK'
  BY DEF TypeOK, ReportErrno, kernel, parent
<1>2. Bounded'
  BY PipeAssumption DEF Bounded, ReportErrno, kernel, parent
<1>3. Alone'
  BY DEF Alone, ReportErrno, kernel, parent
<1>4. ExecPipe'
  BY DEF ExecPipe, ReportErrno, kernel, parent
<1>5. Streams'
  BY DEF Streams, Drained, ReportErrno, kernel, parent
<1>6. Balance'
  BY DEF Balance, ReportErrno, kernel, parent
<1>7. Ended'
  BY DEF Ended, Aborted, ReportErrno, kernel, parent
<1>8. Results'
  BY DEF Results, Drained, Complaint, Aborted, ThreadFailed, ReportErrno, kernel, parent
<1>9. Route' /\ Threads'
  BY DEF Route, Threads, ReportErrno, kernel, parent
<1>10. ReadEnds' /\ WriteEnds'
  BY DEF ReadEnds, Open, WriteEnds, ReportErrno, kernel, parent
<1> QED
  BY <1>1, <1>2, <1>3, <1>4, <1>5, <1>6, <1>7, <1>8, <1>9, <1>10

\* The child is the program.
LEMMA ExecInvariant ==
    ASSUME IInv, Exec, UNCHANGED parent
    PROVE  IInv'
<1> USE DEF IInv, TypeOK, Stream, Pipe, Process
<1>1. TypeOK'
  BY DEF TypeOK, Exec, parent
<1>2. Alone'
  BY DEF Alone, Exec, parent
<1>3. WriteEnds'
  BY DEF WriteEnds, Exec, parent
<1>4. ExecPipe'
  BY DEF ExecPipe, Exec, parent
<1>5. Streams'
  BY DEF Streams, Drained, Exec, parent
<1>6. Ended'
  BY DEF Ended, Aborted, Exec, parent
<1>7. Results'
  BY DEF Results, Drained, Complaint, Aborted, ThreadFailed, Exec, parent, Ended
<1>8. Bounded' /\ Route' /\ Threads'
  BY DEF Bounded, Route, Threads, Exec, parent
<1>9. ReadEnds' /\ Balance'
  BY DEF ReadEnds, Open, Balance, Exec, parent
<1> QED
  BY <1>1, <1>2, <1>3, <1>4, <1>5, <1>6, <1>7, <1>8, <1>9

\* The child ends, by itself or by a signal.
LEMMA ChildEndsInvariant ==
    ASSUME IInv, GiveUp \/ Exit \/ Kill, UNCHANGED parent
    PROVE  IInv'
<1> USE DEF IInv, TypeOK, Stream, Pipe, Process
<1>1. /\ child \in {"starting", "failing", "reported", "program"} /\ child' = "ended"
      /\ killed' \in BOOLEAN /\ (killed => killed')
      /\ child = "reported" \/ child = "program" \/ killed'
      /\ UNCHANGED <<host, pipe, reader, written, ran>>
      /\ UNCHANGED <<call, pc, ready, buffer, thread, readOk, errno, waited, outcome>>
  BY DEF GiveUp, Exit, Kill, Ends, Free, Alive, parent
<1>2. /\ writers' = [p \in Pipe |-> writers[p] \ {"child"}]
      /\ blocked' = [blocked EXCEPT !["child"] = "no"]
  BY DEF GiveUp, Exit, Kill, Ends, Left
<1>3. status' \in Statuses
  <2>1. CASE GiveUp
    BY <2>1 DEF GiveUp, Ends, Statuses
  <2>2. CASE Exit
    BY <2>2 DEF Exit, Ends, Statuses
  <2>3. CASE Kill
    BY <2>3 DEF Kill, Ends, Statuses
  <2> QED
    BY <2>1, <2>2, <2>3
<1>4. TypeOK'
  BY <1>1, <1>2, <1>3 DEF TypeOK
<1>5. Alone'
  BY <1>1, <1>2, <1>3 DEF Alone
<1>6. WriteEnds'
  BY <1>1, <1>2, <1>3 DEF WriteEnds
<1>7. ExecPipe'
  BY <1>1, <1>2, <1>3 DEF ExecPipe
<1>8. Streams'
  BY <1>1, <1>2, <1>3 DEF Streams, Drained
<1>9. Ended'
  BY <1>1, <1>2, <1>3 DEF Ended, Aborted
<1>10. Results'
  BY <1>1, <1>2, <1>3 DEF Results, Drained, Complaint, Aborted, ThreadFailed
<1>11. Bounded' /\ Route' /\ Threads'
  BY <1>1, <1>2, <1>3 DEF Bounded, Route, Threads
<1>12. ReadEnds' /\ Balance'
  BY <1>1, <1>2, <1>3 DEF ReadEnds, Open, Balance
<1> QED
  BY <1>4, <1>5, <1>6, <1>7, <1>8, <1>9, <1>10, <1>11, <1>12

\* The program starts another one.
LEMMA LeaveDescendantInvariant ==
    ASSUME IInv, LeaveDescendant, UNCHANGED parent
    PROVE  IInv'
<1> USE DEF IInv, TypeOK, Stream, Pipe, Process
<1>1. TypeOK'
  BY DEF TypeOK, LeaveDescendant, Free, Alive, parent
<1>2. Alone'
  BY DEF Alone, LeaveDescendant, Free, Alive, parent
<1>3. WriteEnds'
  BY DEF WriteEnds, LeaveDescendant, Free, Alive, parent
<1>4. ExecPipe'
  BY DEF ExecPipe, LeaveDescendant, Free, Alive, parent
<1>5. Streams'
  BY DEF Streams, Drained, LeaveDescendant, Free, Alive, parent
<1>6. Results'
  BY DEF Results, Drained, Complaint, Aborted, ThreadFailed, LeaveDescendant, Free, Alive, parent
<1>7. Bounded' /\ Route' /\ Threads'
  BY DEF Bounded, Route, Threads, LeaveDescendant, Free, Alive, parent
<1>8. ReadEnds' /\ Balance' /\ Ended'
  BY DEF ReadEnds, Open, Balance, Ended, Aborted, LeaveDescendant, Free, Alive, parent
<1> QED
  BY <1>1, <1>2, <1>3, <1>4, <1>5, <1>6, <1>7, <1>8

\* A program has something to write, or gives up waiting to.
LEMMA WaitsInvariant ==
    ASSUME IInv, NEW p \in {"child", "descendant"}, NEW s \in Stream,
           StartWrite(p, s) \/ SkipWrite(p, s) \/ BrokenWrite(p, s), UNCHANGED parent
    PROVE  IInv'
<1> USE DEF IInv, TypeOK, Stream, Pipe, Process
<1>1. \/ p \in writers[s] /\ blocked' = [blocked EXCEPT ![p] = s]
      \/ blocked' = [blocked EXCEPT ![p] = "no"]
  BY DEF StartWrite, SkipWrite, BrokenWrite
<1>2. /\ UNCHANGED <<host, pipe, writers, reader, written, child, status, ran, killed>>
      /\ UNCHANGED <<call, pc, ready, buffer, thread, readOk, errno, waited, outcome>>
  BY DEF StartWrite, SkipWrite, BrokenWrite, parent
<1>3. pc # "start"
  BY DEF StartWrite, SkipWrite, BrokenWrite, Free, Alive, Alone
<1>4. TypeOK'
  BY <1>1, <1>2, <1>3 DEF TypeOK
<1>5. Alone'
  BY <1>1, <1>2, <1>3 DEF Alone
<1>6. WriteEnds'
  BY <1>1, <1>2, <1>3 DEF WriteEnds
<1>7. Bounded' /\ Route' /\ Threads'
  BY <1>1, <1>2, <1>3 DEF Bounded, Route, Threads
<1>8. ReadEnds' /\ ExecPipe'
  BY <1>1, <1>2, <1>3 DEF ReadEnds, Open, ExecPipe
<1>9. Streams' /\ Balance'
  BY <1>1, <1>2, <1>3 DEF Streams, Drained, Balance
<1>10. Ended' /\ Results'
  <2>1. Ended'
    BY <1>1, <1>2, <1>3 DEF Ended, Aborted
  <2>2. Results'
    BY <1>1, <1>2, <1>3 DEF Results, Aborted, Drained, Complaint, ThreadFailed
  <2> QED BY <2>1, <2>2
<1> QED
  BY <1>4, <1>5, <1>6, <1>7, <1>8, <1>9, <1>10

\* There is room for it.
LEMMA FinishWriteInvariant ==
    ASSUME IInv, NEW p \in {"child", "descendant"}, NEW s \in Stream,
           FinishWrite(p, s), UNCHANGED parent
    PROVE  IInv'
<1> USE DEF IInv, TypeOK, Stream, Pipe, Process
<1>1. TypeOK'
  BY DEF TypeOK, FinishWrite, Free, Alive, parent
<1>2. Bounded'
  BY PipeAssumption DEF Bounded, FinishWrite, Free, Alive, parent
<1>3. Alone'
  BY DEF Alone, FinishWrite, Free, Alive, parent
<1>4. WriteEnds'
  BY DEF WriteEnds, FinishWrite, Free, Alive, parent
<1>5. ExecPipe'
  BY DEF ExecPipe, FinishWrite, Free, Alive, parent
<1>6. Streams'
  BY DEF Streams, Drained, FinishWrite, Free, Alive, parent, WriteEnds
<1>7. Balance'
  BY DEF Balance, FinishWrite, Free, Alive, parent
<1>8. Results'
  BY DEF Results, Drained, Complaint, Aborted, ThreadFailed, FinishWrite, Free, Alive, parent,
     WriteEnds
<1>9. Route' /\ Threads'
  BY DEF Route, Threads, FinishWrite, Free, Alive, parent
<1>10. ReadEnds' /\ Ended'
  BY DEF ReadEnds, Open, Ended, Aborted, FinishWrite, Free, Alive, parent
<1> QED
  BY <1>1, <1>2, <1>3, <1>4, <1>5, <1>6, <1>7, <1>8, <1>9, <1>10

\* It closes a stream.
LEMMA CloseStreamInvariant ==
    ASSUME IInv, NEW p \in {"child", "descendant"}, NEW s \in Stream,
           CloseStream(p, s), UNCHANGED parent
    PROVE  IInv'
<1> USE DEF IInv, TypeOK, Stream, Pipe, Process
<1>1. TypeOK'
  BY DEF TypeOK, CloseStream, Free, Alive, parent
<1>2. Alone'
  BY DEF Alone, CloseStream, Free, Alive, parent
<1>3. WriteEnds'
  BY DEF WriteEnds, CloseStream, Free, Alive, parent
<1>4. ExecPipe'
  BY DEF ExecPipe, CloseStream, Free, Alive, parent
<1>5. Streams'
  BY DEF Streams, Drained, CloseStream, Free, Alive, parent
<1>6. Results'
  BY DEF Results, Drained, Complaint, Aborted, ThreadFailed, CloseStream, Free, Alive, parent
<1>7. Bounded' /\ Route' /\ Threads'
  BY DEF Bounded, Route, Threads, CloseStream, Free, Alive, parent
<1>8. ReadEnds' /\ Balance' /\ Ended'
  BY DEF ReadEnds, Open, Balance, Ended, Aborted, CloseStream, Free, Alive, parent
<1> QED
  BY <1>1, <1>2, <1>3, <1>4, <1>5, <1>6, <1>7, <1>8

-----------------------------------------------------------------------------
(***************************************************************************)
(* The steps of the caller and of its threads.                             *)
(***************************************************************************)

\* The call is refused, or a pipe or the child cannot be made.
LEMMA NotStartedInvariant ==
    ASSUME IInv, Refuse \/ PipeFails \/ ForkFails
    PROVE  IInv'
<1> USE DEF IInv, TypeOK, Stream, Pipe, Process
<1>1. PICK what \in Complaints : outcome' = Throws(what)
  BY DEF Refuse, PipeFails, ForkFails, Complaints
<1>2. /\ pc = "start" /\ pc' = "done" /\ reader' = {}
      /\ UNCHANGED <<host, pipe, written, blocked, child, status, ran, killed>>
      /\ UNCHANGED <<call, ready, buffer, thread, readOk, errno, waited>>
  BY DEF Refuse, PipeFails, ForkFails, CloseAll, kernel
<1>3. writers' \in [Pipe -> SUBSET Process] /\ \A p \in Pipe : writers'[p] = {}
  <2>1. CASE Refuse
    BY <2>1 DEF Refuse, Alone, kernel
  <2>2. CASE PipeFails \/ ForkFails
    <3>1. writers' = [p \in Pipe |-> writers[p] \ {"parent"}]
      BY <2>2 DEF PipeFails, ForkFails, CloseAll, Left
    <3>2. \A p \in Pipe : writers[p] \subseteq {"parent"}
      BY <1>2 DEF Alone
    <3> QED
      BY <3>1, <3>2
  <2> QED
    BY <2>1, <2>2
<1>4. TypeOK'
  <2>1. outcome' \in Outcomes /\ reader' \in SUBSET Pipe
    BY <1>1, <1>2, ErrorOutcome
  <2> QED BY <1>2, <1>3, <2>1 DEF TypeOK
<1>5. Route'
  BY <1>1, <1>2, <1>3 DEF Route
<1>6. Threads'
  BY <1>1, <1>2, <1>3 DEF Threads
<1>7. Alone'
  BY <1>1, <1>2, <1>3 DEF Alone
<1>8. ReadEnds'
  BY <1>1, <1>2, <1>3 DEF ReadEnds, Open, Alone
<1>9. WriteEnds'
  BY <1>1, <1>2, <1>3 DEF WriteEnds, Alone
<1>10. ExecPipe'
  BY <1>1, <1>2, <1>3 DEF ExecPipe, Alone
<1>11. Streams'
  BY <1>1, <1>2, <1>3 DEF Streams, Drained, Alone, Route
<1>12. Ended'
  BY <1>1, <1>2, <1>3 DEF Ended, Aborted, Alone
<1>13. Results'
  BY <1>1, <1>2, <1>3, ErrorOutcome, NoOutcome DEF Results, Drained, Complaint, Aborted,
     ThreadFailed, Route, Alone, ExecPipe
<1>14. Bounded' /\ Balance'
  BY <1>1, <1>2, <1>3 DEF Bounded, Balance
<1> QED
  BY <1>4, <1>5, <1>6, <1>7, <1>8, <1>9, <1>10, <1>11, <1>12, <1>13, <1>14

\* A pipe is made.
LEMMA OpenPipeInvariant ==
    ASSUME IInv, OpenPipe
    PROVE  IInv'
<1> USE DEF IInv, TypeOK, Stream, Pipe, Process
<1>1. PICK p \in Pipe :
          /\ host = "windows" => p \in Stream
          /\ call = "run" => p = "exec"
          /\ reader' = reader \cup {p}
          /\ writers' = [writers EXCEPT ![p] = {"parent"}]
  <2> DEFINE n == Cardinality(reader) + 1
  <2>1. n \in 1 .. Len(Needed)
    BY PipesNeeded DEF OpenPipe
  <2> QED
    BY <2>1, PipesNeeded DEF OpenPipe
<1>2. /\ pc = "start"
      /\ UNCHANGED <<host, pipe, written, blocked, child, status, ran, killed>>
      /\ UNCHANGED <<call, pc, ready, buffer, thread, readOk, errno, waited, outcome>>
  BY DEF OpenPipe, parent
<1>3. TypeOK'
  BY <1>1, <1>2 DEF TypeOK
<1>4. Alone'
  BY <1>1, <1>2 DEF Alone
<1>5. ReadEnds'
  BY <1>1, <1>2 DEF ReadEnds, Open
<1>6. WriteEnds'
  BY <1>1, <1>2 DEF WriteEnds, Alone
<1>7. ExecPipe'
  BY <1>1, <1>2 DEF ExecPipe, Alone, Route
<1>8. Streams'
  BY <1>1, <1>2 DEF Streams, Drained, Alone, Threads
<1>9. Results'
  BY <1>1, <1>2, NoOutcome DEF Results, Drained, Complaint, Aborted, ThreadFailed, Route
<1>10. Bounded' /\ Route' /\ Threads'
  BY <1>1, <1>2 DEF Bounded, Route, Threads
<1>11. Balance' /\ Ended'
  BY <1>1, <1>2 DEF Balance, Ended, Aborted
<1> QED
  BY <1>3, <1>4, <1>5, <1>6, <1>7, <1>8, <1>9, <1>10, <1>11

\* There is a child.
LEMMA ForkInvariant ==
    ASSUME IInv, Fork
    PROVE  IInv'
<1> USE DEF IInv, TypeOK, Stream, Pipe, Process
<1>1. TypeOK'
  BY DEF TypeOK, Fork, kernel
<1>2. Route'
  BY DEF Route, Fork, kernel
<1>3. Threads'
  BY DEF Threads, Fork, kernel
<1>4. Alone'
  BY DEF Alone, Fork, kernel
<1>5. ReadEnds'
  BY DEF ReadEnds, Open, Fork, kernel
<1>6. WriteEnds'
  BY DEF WriteEnds, Fork, kernel
<1>7. ExecPipe'
  BY ErrnoPipeOpen DEF ExecPipe, Fork, kernel, ReadEnds, Alone, Route
<1>8. Streams'
  BY DEF Streams, Drained, Fork, kernel, Alone, Threads
<1>9. Ended'
  BY DEF Ended, Aborted, Fork, kernel
<1>10. Results'
  BY NoOutcome DEF Results, Drained, Complaint, Aborted, ThreadFailed, Fork, kernel, Route
<1>11. Bounded' /\ Balance'
  BY DEF Bounded, Balance, Fork, kernel
<1> QED
  BY <1>1, <1>2, <1>3, <1>4, <1>5, <1>6, <1>7, <1>8, <1>9, <1>10, <1>11

\* The caller gives up its write ends.
LEMMA CloseWriteEndsInvariant ==
    ASSUME IInv, CloseWriteEnds
    PROVE  IInv'
<1> USE DEF IInv, TypeOK, Stream, Pipe, Process
<1>1. TypeOK'
  BY DEF TypeOK, CloseWriteEnds, kernel, Left
<1>2. Route'
  BY DEF Route, CloseWriteEnds, kernel, Left
<1>3. Threads'
  BY DEF Threads, CloseWriteEnds, kernel, Left
<1>4. Alone'
  BY DEF Alone, CloseWriteEnds, kernel, Left
<1>5. ReadEnds'
  BY DEF ReadEnds, Open, CloseWriteEnds, kernel, Left
<1>6. WriteEnds'
  BY DEF WriteEnds, CloseWriteEnds, kernel, Left, Alone
<1>7. ExecPipe'
  BY DEF ExecPipe, CloseWriteEnds, kernel, Left
<1>8. Streams'
  BY DEF Streams, Drained, CloseWriteEnds, kernel, Left
<1>9. Ended'
  BY DEF Ended, Aborted, CloseWriteEnds, kernel, Left
<1>10. Results'
  BY DEF Results, Drained, Complaint, Aborted, ThreadFailed, CloseWriteEnds, kernel, Left
<1>11. Bounded' /\ Balance'
  BY DEF Bounded, Balance, CloseWriteEnds, kernel, Left
<1> QED
  BY <1>1, <1>2, <1>3, <1>4, <1>5, <1>6, <1>7, <1>8, <1>9, <1>10, <1>11

\* select returns, or both streams have ended.
LEMMA SelectInvariant ==
    ASSUME IInv, Select
    PROVE  IInv'
<1> USE DEF IInv, TypeOK, Stream, Pipe, Process
<1>1. TypeOK'
  BY DEF TypeOK, Select, kernel, Open, Readable
<1>2. Route'
  BY DEF Route, Select, kernel, Open, Readable
<1>3. Threads'
  BY DEF Threads, Select, kernel, Open, Readable
<1>4. Alone'
  BY DEF Alone, Select, kernel, Open, Readable
<1>5. ReadEnds'
  BY DEF ReadEnds, Open, Select, kernel, Readable
<1>6. WriteEnds'
  BY DEF WriteEnds, Select, kernel, Open, Readable
<1>7. Streams'
  BY DEF Streams, Drained, Select, kernel, Open, Readable
<1>8. Ended'
  BY DEF Ended, Aborted, Select, kernel, Open, Readable
<1>9. Results'
  BY DEF Results, Drained, Complaint, Aborted, ThreadFailed, Select, kernel, Open, Readable
<1>10. Bounded' /\ ExecPipe' /\ Balance'
  BY DEF Bounded, ExecPipe, Balance, Select, kernel, Open, Readable
<1> QED
  BY <1>1, <1>2, <1>3, <1>4, <1>5, <1>6, <1>7, <1>8, <1>9, <1>10

\* A stream is read.
LEMMA ReadInvariant ==
    ASSUME IInv, Read
    PROVE  IInv'
<1> USE DEF IInv, TypeOK, Stream, Pipe, Process
<1>1. PICK s \in Stream :
          /\ s \in ready /\ ready' = ready \ {s}
          /\ \/ pipe[s] = 0 /\ reader' = reader \ {s} /\ UNCHANGED <<pipe, buffer>>
             \/ \E n \in 1 .. pipe[s] :
                   /\ pipe' = [pipe EXCEPT ![s] = @ - n]
                   /\ buffer' = [buffer EXCEPT ![s] = @ + n]
                   /\ UNCHANGED reader
  <2>1. NextReady \in Stream /\ NextReady \in ready
    <3>1. ready # {} /\ ready \subseteq {"out", "err"}
      BY DEF Read
    <3> QED
      BY <3>1 DEF NextReady
  <2> QED
    BY <2>1 DEF Read
<1>2. /\ pc = "drain"
      /\ UNCHANGED <<host, writers, written, blocked, child, status, ran, killed>>
      /\ UNCHANGED <<call, pc, thread, readOk, errno, waited, outcome>>
  BY DEF Read
<1>3. TypeOK'
  <2>1. CASE pipe[s] = 0 /\ reader' = reader \ {s} /\ UNCHANGED <<pipe, buffer>>
    BY <1>1, <1>2, <2>1
  <2>2. ASSUME NEW n \in 1 .. pipe[s],
               pipe' = [pipe EXCEPT ![s] = @ - n], buffer' = [buffer EXCEPT ![s] = @ + n],
               reader' = reader
        PROVE  TypeOK'
    <3>1. pipe[s] - n \in Nat /\ buffer[s] + n \in Nat
      OBVIOUS
    <3>2. pipe' \in [Pipe -> Nat] /\ buffer' \in [Stream -> Nat]
      BY <2>2, <3>1
    <3> QED
      BY <1>1, <1>2, <2>2, <3>2
  <2> QED
    BY <1>1, <2>1, <2>2
<1>4. Bounded'
  BY <1>1, <1>2, PipeAssumption DEF Bounded
<1>5. Alone'
  BY <1>1, <1>2 DEF Alone
<1>6. ReadEnds'
  BY <1>1, <1>2 DEF ReadEnds, Open, Route
<1>7. ExecPipe'
  BY <1>1, <1>2 DEF ExecPipe
<1>8. Streams'
  BY <1>1, <1>2 DEF Streams, Drained, Route, Threads
<1>9. Balance'
  BY <1>1, <1>2 DEF Balance
<1>10. Results'
  BY <1>1, <1>2, NoOutcome DEF Results, Drained, Complaint, Aborted, ThreadFailed, Route
<1>11. Route' /\ Threads'
  BY <1>1, <1>2 DEF Route, Threads
<1>12. WriteEnds' /\ Ended'
  BY <1>1, <1>2 DEF WriteEnds, Ended, Aborted
<1> QED
  BY <1>3, <1>4, <1>5, <1>6, <1>7, <1>8, <1>9, <1>10, <1>11, <1>12

\* A read of a stream fails.
LEMMA DrainFailsInvariant ==
    ASSUME IInv, DrainFails
    PROVE  IInv'
<1> USE DEF IInv, TypeOK, Stream, Pipe, Process
<1>1. PICK s \in Stream : \E n \in Nat : n <= pipe[s] /\ pipe' = [pipe EXCEPT ![s] = @ - n]
  <2>1. NextReady \in Stream
    BY DEF NextReady
  <2>2. PICK n \in 0 .. (IF ready = {} THEN 0 ELSE pipe[NextReady]) :
            pipe' = [pipe EXCEPT ![NextReady] = @ - n]
    BY DEF DrainFails
  <2>3. n \in Nat /\ n <= pipe[NextReady]
    BY <2>1, <2>2
  <2> QED
    BY <2>1, <2>2, <2>3
<1>2. /\ pc = "drain" /\ pc' = "errno" /\ readOk' = FALSE /\ ready' = {}
      /\ UNCHANGED <<host, writers, reader, written, blocked, child, status, ran, killed>>
      /\ UNCHANGED <<call, buffer, thread, errno, waited, outcome>>
  BY DEF DrainFails
<1>3. TypeOK'
  <2>1. PICK n \in Nat : n <= pipe[s] /\ pipe' = [pipe EXCEPT ![s] = @ - n]
    BY <1>1
  <2>2. pipe[s] - n \in Nat
    BY <2>1
  <2>3. pipe' \in [Pipe -> Nat]
    BY <2>1, <2>2
  <2> QED
    BY <1>2, <2>3, ZenonT(60)
<1>4. Bounded'
  BY <1>1, <1>2, PipeAssumption DEF Bounded
<1>5. Route'
  BY <1>1, <1>2 DEF Route
<1>6. Threads'
  BY <1>1, <1>2 DEF Threads, Route
<1>7. Alone'
  BY <1>1, <1>2 DEF Alone
<1>8. ReadEnds'
  BY <1>1, <1>2 DEF ReadEnds, Open, Route
<1>9. WriteEnds'
  BY <1>1, <1>2 DEF WriteEnds
<1>10. ExecPipe'
  BY <1>1, <1>2 DEF ExecPipe
<1>11. Streams'
  BY <1>1, <1>2 DEF Streams, Drained, Route, Threads
<1>12. Balance'
  BY <1>1, <1>2 DEF Balance
<1>13. Ended'
  BY <1>1, <1>2 DEF Ended, Aborted
<1>14. Results'
  BY <1>1, <1>2, NoOutcome DEF Results, Drained, Complaint, Aborted, ThreadFailed, Route
<1> QED
  BY <1>3, <1>4, <1>5, <1>6, <1>7, <1>8, <1>9, <1>10, <1>11, <1>12, <1>13, <1>14

\* The pipe for errno is read, or cannot be.
LEMMA ErrnoReadInvariant ==
    ASSUME IInv, ReadErrno \/ ErrnoFails
    PROVE  IInv'
<1> USE DEF IInv, TypeOK, Stream, Pipe, Process
<1>1. /\ pc = "errno" /\ pc' = "wait"
      /\ reader' = reader \ {"exec"}
      /\ UNCHANGED <<host, pipe, writers, written, blocked, child, status, ran, killed>>
      /\ UNCHANGED <<call, ready, buffer, thread, readOk, waited, outcome>>
  BY DEF ReadErrno, ErrnoFails
<1>2. \/ errno' = "errno" /\ pipe["exec"] > 0
      \/ errno' = "none" /\ pipe["exec"] = 0 /\ writers["exec"] = {}
      \/ errno' = "failed"
  BY DEF ReadErrno, ErrnoFails
<1>3. TypeOK'
  BY <1>1, <1>2 DEF TypeOK
<1>4. Route'
  BY <1>1, <1>2 DEF Route
<1>5. Threads'
  BY <1>1, <1>2 DEF Threads, Route
<1>6. Alone'
  BY <1>1, <1>2 DEF Alone
<1>7. ReadEnds'
  BY <1>1, <1>2 DEF ReadEnds, Open
<1>8. WriteEnds'
  BY <1>1, <1>2 DEF WriteEnds
<1>9. ExecPipe'
  BY <1>1, <1>2 DEF ExecPipe
<1>10. Streams'
  BY <1>1, <1>2 DEF Streams, Drained
<1>11. Ended'
  BY <1>1, <1>2 DEF Ended, Aborted
<1>12. Results'
  BY <1>1, <1>2, NoOutcome DEF Results, Drained, Complaint, Aborted, ThreadFailed, Route
<1>13. Bounded' /\ Balance'
  BY <1>1, <1>2 DEF Bounded, Balance
<1> QED
  BY <1>3, <1>4, <1>5, <1>6, <1>7, <1>8, <1>9, <1>10, <1>11, <1>12, <1>13

\* A thread for each stream is started, or only for some.
LEMMA StartThreadsInvariant ==
    ASSUME IInv, StartThreads
    PROVE  IInv'
<1> USE DEF IInv, TypeOK, Stream, Pipe, Process
<1>1. TypeOK'
  BY DEF TypeOK, StartThreads, kernel
<1>2. Route'
  BY DEF Route, StartThreads, kernel
<1>3. Threads'
  BY DEF Threads, StartThreads, kernel, Route
<1>4. Alone'
  BY DEF Alone, StartThreads, kernel
<1>5. ReadEnds'
  BY DEF ReadEnds, Open, StartThreads, kernel, Route
<1>6. WriteEnds'
  BY DEF WriteEnds, StartThreads, kernel
<1>7. Streams'
  BY DEF Streams, Drained, StartThreads, kernel
<1>8. Balance'
  BY DEF Balance, StartThreads, kernel, Threads
<1>9. Ended'
  BY DEF Ended, Aborted, StartThreads, kernel
<1>10. Results'
  BY DEF Results, Drained, Complaint, Aborted, ThreadFailed, StartThreads, kernel
<1>11. Bounded' /\ ExecPipe'
  BY DEF Bounded, ExecPipe, StartThreads, kernel
<1> QED
  BY <1>1, <1>2, <1>3, <1>4, <1>5, <1>6, <1>7, <1>8, <1>9, <1>10, <1>11

\* The child is ended, as a thread is missing.
LEMMA AbortInvariant ==
    ASSUME IInv, Abort
    PROVE  IInv'
<1> USE DEF IInv, TypeOK, Stream, Pipe, Process
<1>1. /\ child = "program" => child' = "ended"
      /\ child # "program" => child' = child
      /\ status' \in Statuses
      /\ writers' \in [Pipe -> SUBSET Process]
      /\ \A p \in Pipe : /\ writers'[p] \subseteq writers[p]
                          /\ writers[p] \subseteq writers'[p] \cup {"child"}
      /\ \/ writers' = writers /\ blocked' = blocked
         \/ blocked' = [blocked EXCEPT !["child"] = "no"]
  <2>1. CASE child = "program"
    <3>1. /\ child' = "ended" /\ status' = [signal |-> FALSE, value |-> 1]
          /\ writers' = [p \in Pipe |-> writers[p] \ {"child"}]
          /\ blocked' = [blocked EXCEPT !["child"] = "no"]
      BY <2>1 DEF Abort, Ends, Left
    <3>2. status' \in Statuses
      BY <3>1 DEF Statuses
    <3> QED
      BY <2>1, <3>1, <3>2
  <2>2. CASE child # "program"
    BY <2>2 DEF Abort
  <2> QED
    BY <2>1, <2>2
<1>2. /\ pc = "abort" /\ pc' = "join" /\ reader' = {}
      /\ UNCHANGED <<host, pipe, written, ran, killed>>
      /\ UNCHANGED <<call, ready, buffer, thread, readOk, errno, waited, outcome>>
  BY DEF Abort
<1>3. TypeOK'
  BY <1>1, <1>2 DEF TypeOK
<1>4. Route'
  BY <1>1, <1>2 DEF Route
<1>5. Threads'
  BY <1>1, <1>2 DEF Threads, Route
<1>6. Alone'
  BY <1>1, <1>2 DEF Alone, Route
<1>7. ReadEnds'
  BY <1>1, <1>2 DEF ReadEnds, Open, Route
<1>8. WriteEnds'
  BY <1>1, <1>2 DEF WriteEnds, Route
<1>9. ExecPipe'
  BY <1>1, <1>2 DEF ExecPipe, Route
<1>10. Streams'
  BY <1>1, <1>2 DEF Streams, Drained, Route, Threads
<1>11. Ended'
  BY <1>1, <1>2 DEF Ended, Aborted, Route, Threads, ExecPipe, Alone
<1>12. Results'
  BY <1>1, <1>2, NoOutcome DEF Results, Drained, Complaint, Aborted, ThreadFailed, Route
<1>13. Bounded' /\ Balance'
  BY <1>1, <1>2 DEF Bounded, Balance
<1> QED
  BY <1>3, <1>4, <1>5, <1>6, <1>7, <1>8, <1>9, <1>10, <1>11, <1>12, <1>13

\* The threads have ended.
LEMMA JoinInvariant ==
    ASSUME IInv, Join
    PROVE  IInv'
<1> USE DEF IInv, TypeOK, Stream, Pipe, Process
<1>1. TypeOK'
  BY DEF TypeOK, Join, kernel
<1>2. Route'
  BY DEF Route, Join, kernel
<1>3. Threads'
  BY DEF Threads, Join, kernel
<1>4. Alone'
  BY DEF Alone, Join, kernel
<1>5. ReadEnds'
  BY DEF ReadEnds, Open, Join, kernel
<1>6. WriteEnds'
  BY DEF WriteEnds, Join, kernel
<1>7. Streams'
  BY DEF Streams, Drained, Join, kernel, Route
<1>8. Ended'
  BY DEF Ended, Aborted, Join, kernel
<1>9. Results'
  BY DEF Results, Drained, Complaint, Aborted, ThreadFailed, Join, kernel
<1>10. Bounded' /\ ExecPipe' /\ Balance'
  BY DEF Bounded, ExecPipe, Balance, Join, kernel
<1> QED
  BY <1>1, <1>2, <1>3, <1>4, <1>5, <1>6, <1>7, <1>8, <1>9, <1>10

\* The child is waited for.
LEMMA WaitInvariant ==
    ASSUME IInv, Wait
    PROVE  IInv'
<1> USE DEF IInv, TypeOK, Stream, Pipe, Process
<1>1. TypeOK'
  BY DEF TypeOK, Wait, kernel, AfterWait
<1>2. Route'
  BY DEF Route, Wait, kernel, AfterWait
<1>3. Threads'
  BY DEF Threads, Wait, kernel, AfterWait
<1>4. Alone'
  BY DEF Alone, Wait, kernel, AfterWait
<1>5. ReadEnds'
  BY DEF ReadEnds, Open, Wait, kernel, AfterWait
<1>6. WriteEnds'
  BY DEF WriteEnds, Wait, kernel, AfterWait
<1>7. ExecPipe'
  BY DEF ExecPipe, Wait, kernel, AfterWait
<1>8. Streams'
  BY DEF Streams, Drained, Wait, kernel, AfterWait
<1>9. Ended'
  BY DEF Ended, Aborted, Wait, kernel, AfterWait, Threads, Route
<1>10. Results'
  BY DEF Results, Drained, Complaint, Aborted, ThreadFailed, Wait, kernel, AfterWait
<1>11. Bounded' /\ Balance'
  BY DEF Bounded, Balance, Wait, kernel, AfterWait
<1> QED
  BY <1>1, <1>2, <1>3, <1>4, <1>5, <1>6, <1>7, <1>8, <1>9, <1>10, <1>11

\* The wait fails.
LEMMA WaitFailsInvariant ==
    ASSUME IInv, WaitFails
    PROVE  IInv'
<1> USE DEF IInv, TypeOK, Stream, Pipe, Process
<1>1. TypeOK'
  BY ZenonT(60) DEF TypeOK, WaitFails, kernel, AfterWait
<1>2. Route'
  BY DEF Route, WaitFails, kernel, AfterWait
<1>3. Threads'
  BY DEF Threads, WaitFails, kernel, AfterWait
<1>4. Alone'
  BY DEF Alone, WaitFails, kernel, AfterWait
<1>5. ReadEnds'
  BY DEF ReadEnds, Open, WaitFails, kernel, AfterWait
<1>6. WriteEnds'
  BY DEF WriteEnds, WaitFails, kernel, AfterWait
<1>7. Streams'
  BY DEF Streams, Drained, WaitFails, kernel, AfterWait
<1>8. Ended'
  BY DEF Ended, Aborted, WaitFails, kernel, AfterWait
<1>9. Results'
  BY DEF Results, Drained, Complaint, Aborted, ThreadFailed, WaitFails, kernel, AfterWait
<1>10. Bounded' /\ ExecPipe' /\ Balance'
  BY DEF Bounded, ExecPipe, Balance, WaitFails, kernel, AfterWait
<1> QED
  BY <1>1, <1>2, <1>3, <1>4, <1>5, <1>6, <1>7, <1>8, <1>9, <1>10

\* The call returns or throws.
LEMMA FinishInvariant ==
    ASSUME IInv, Finish
    PROVE  IInv'
<1> USE DEF IInv, TypeOK, Stream, Pipe, Process
<1>1. TypeOK'
  <2>1. ExitCode \in Nat
    BY DEF ExitCode, Statuses
  <2>2. [kind |-> "result", code |-> ExitCode,
         out |-> buffer["out"], err |-> buffer["err"]] \in Outcomes
    BY <2>1 DEF Outcomes
  <2>3. Complaint \in Complaints \cup {"none"}
    BY DEF Complaint, Complaints
  <2>4. outcome' \in Outcomes
    BY <2>2, <2>3, ErrorOutcome DEF Finish
  <2> QED
    BY <2>4 DEF Finish, kernel
<1>2. Route'
  BY DEF Route, Finish, kernel
<1>3. Threads'
  BY DEF Threads, Finish, kernel
<1>4. Alone'
  BY DEF Alone, Finish, kernel
<1>5. ReadEnds'
  BY DEF ReadEnds, Open, Finish, kernel
<1>6. WriteEnds'
  BY DEF WriteEnds, Finish, kernel
<1>7. Streams'
  BY DEF Streams, Drained, Finish, kernel
<1>8. Ended'
  BY DEF Ended, Aborted, Finish, kernel
<1>9. Results'
  <2>1. /\ pc' = "done" /\ Complaint' = Complaint
        /\ UNCHANGED kernel /\ UNCHANGED <<call, ready, buffer, thread, readOk, errno, waited>>
    BY DEF Finish, kernel, Complaint, ThreadFailed, Aborted
  <2>2. Complaint \in Complaints \cup {"none"}
    BY DEF Complaint, Complaints
  <2>3. CASE Complaint = "none"
    <3>1. outcome' = [kind |-> "result", code |-> ExitCode,
                      out |-> buffer["out"], err |-> buffer["err"]]
      BY <2>3 DEF Finish
    <3>2. outcome' # Throws("could not start process")
      BY <3>1 DEF Throws
    <3>3. ~ Aborted /\ waited /\ readOk /\ ~ ThreadFailed /\ errno \notin {"errno", "failed"}
      BY <2>3 DEF Complaint
    <3>4. child = "reaped" /\ (host = "posix" => errno = "none")
      BY <3>3 DEF Finish, Ended, Route
    <3>5. call = "capture" => \A s \in Stream : Drained(s)
      BY <3>3 DEF Finish, Streams, ReadEnds, Open, Threads, Aborted, ThreadFailed
    <3> QED
      BY <2>1, <2>3, <3>1, <3>2, <3>4, <3>5 DEF Results, kernel, Drained
  <2>4. CASE Complaint # "none"
    <3>1. outcome' = Throws(Complaint) /\ outcome'.kind = "error"
      BY <2>2, <2>4, ErrorOutcome DEF Finish
    <3>2. outcome' = Throws("could not start process") =>
             waited /\ (errno # "failed" => errno = "errno")
      BY <2>2, <2>4, <3>1, ErrorOutcome DEF Complaint
    <3> QED
      BY <2>1, <3>1, <3>2 DEF Results, ExecPipe, kernel
  <2> QED
    BY <2>3, <2>4
<1>10. Bounded' /\ ExecPipe' /\ Balance'
  BY DEF Bounded, ExecPipe, Balance, Finish, kernel
<1> QED
  BY <1>1, <1>2, <1>3, <1>4, <1>5, <1>6, <1>7, <1>8, <1>9, <1>10

\* A thread reads its stream.
LEMMA ThreadReadsInvariant ==
    ASSUME IInv, NEW s \in Stream, ThreadReads(s)
    PROVE  IInv'
<1> USE DEF IInv, TypeOK, Stream, Pipe, Process
<1>1. TypeOK'
  BY DEF TypeOK, ThreadReads
<1>2. Bounded'
  BY PipeAssumption DEF Bounded, ThreadReads
<1>3. Threads'
  BY DEF Threads, ThreadReads
<1>4. Alone'
  BY DEF Alone, ThreadReads
<1>5. ExecPipe'
  BY DEF ExecPipe, ThreadReads
<1>6. Streams'
  BY DEF Streams, Drained, ThreadReads, Threads, Route
<1>7. Balance'
  BY DEF Balance, ThreadReads
<1>8. Ended'
  BY DEF Ended, Aborted, ThreadReads
<1>9. Results'
  BY DEF Results, Drained, Complaint, Aborted, ThreadFailed, ThreadReads, Threads, Route
<1>10. Route' /\ ReadEnds' /\ WriteEnds'
  BY DEF Route, ReadEnds, Open, WriteEnds, ThreadReads
<1> QED
  BY <1>1, <1>2, <1>3, <1>4, <1>5, <1>6, <1>7, <1>8, <1>9, <1>10

\* A thread fails.
LEMMA ThreadFailsInvariant ==
    ASSUME IInv, NEW s \in Stream, ThreadFails(s)
    PROVE  IInv'
<1> USE DEF IInv, TypeOK, Stream, Pipe, Process
<1>1. TypeOK'
  BY DEF TypeOK, ThreadFails
<1>2. Bounded'
  BY PipeAssumption DEF Bounded, ThreadFails
<1>3. Threads'
  BY DEF Threads, ThreadFails
<1>4. Alone'
  BY DEF Alone, ThreadFails
<1>5. ExecPipe'
  BY DEF ExecPipe, ThreadFails
<1>6. Streams'
  BY DEF Streams, Drained, ThreadFails, Threads, Route
<1>7. Balance'
  BY DEF Balance, ThreadFails
<1>8. Ended'
  BY DEF Ended, Aborted, ThreadFails
<1>9. Results'
  BY DEF Results, Drained, Complaint, Aborted, ThreadFailed, ThreadFails, Threads, Route
<1>10. Route' /\ ReadEnds' /\ WriteEnds'
  BY DEF Route, ReadEnds, Open, WriteEnds, ThreadFails
<1> QED
  BY <1>1, <1>2, <1>3, <1>4, <1>5, <1>6, <1>7, <1>8, <1>9, <1>10

-----------------------------------------------------------------------------
(***************************************************************************)
(* The invariant holds of every call.                                      *)
(***************************************************************************)

\* Init establishes it.
LEMMA InitInvariant == Init => IInv
<1> SUFFICES ASSUME Init PROVE IInv
  OBVIOUS
<1> USE DEF Init, Stream, Pipe, Process
<1>1. TypeOK
  <2>1. status \in Statuses
    BY DEF Statuses
  <2> QED
    BY <2>1, NoOutcome DEF TypeOK
<1>2. Bounded
  BY PipeAssumption DEF Bounded
<1>3. Route /\ Threads /\ Alone
  BY DEF Route, Threads, Alone
<1>4. ReadEnds /\ WriteEnds /\ ExecPipe
  BY DEF ReadEnds, WriteEnds, ExecPipe
<1>5. Streams /\ Balance
  BY DEF Streams, Balance, Drained
<1>6. Ended /\ Results
  BY NoOutcome DEF Ended, Results
<1> QED
  BY <1>1, <1>2, <1>3, <1>4, <1>5, <1>6 DEF IInv

\* The steps of the other processes keep it.
LEMMA OthersInvariant ==
    ASSUME IInv, Others
    PROVE  IInv'
<1>1. UNCHANGED parent
  BY DEF Others
<1>2. CASE Start
  BY <1>1, <1>2, StartFailsInvariant, ReportErrnoInvariant, ChildEndsInvariant, ExecInvariant
     DEF Start
<1>3. CASE Kill
  BY <1>1, <1>3, ChildEndsInvariant
<1>4. CASE LeaveDescendant
  BY <1>1, <1>4, LeaveDescendantInvariant
<1>5. ASSUME NEW p \in {"child", "descendant"}, Program(p)
      PROVE  IInv'
  BY <1>1, <1>5, WaitsInvariant, FinishWriteInvariant, CloseStreamInvariant, ChildEndsInvariant
     DEF Program
<1> QED
  BY <1>2, <1>3, <1>4, <1>5 DEF Others

\* Every step does.
LEMMA StepInvariant == IInv /\ [Next]_vars => IInv'
<1> SUFFICES ASSUME IInv, [Next]_vars PROVE IInv'
  OBVIOUS
<1>1. CASE Caller
  BY <1>1, OpenPipeInvariant, ForkInvariant, CloseWriteEndsInvariant, SelectInvariant,
     ReadInvariant, ErrnoReadInvariant, StartThreadsInvariant, AbortInvariant, JoinInvariant,
     WaitInvariant, FinishInvariant DEF Caller
<1>2. CASE Failure
  BY <1>2, NotStartedInvariant, DrainFailsInvariant, ErrnoReadInvariant, WaitFailsInvariant,
     ThreadFailsInvariant DEF Failure
<1>3. CASE Others
  BY <1>3, OthersInvariant
<1>4. CASE \E s \in Stream : ThreadReads(s)
  BY <1>4, ThreadReadsInvariant
<1>5. CASE UNCHANGED vars
  <2> USE <1>5 DEF IInv, vars, kernel, parent
  <2>1. TypeOK' /\ Bounded' /\ Route' /\ Threads' /\ Alone'
    BY DEF TypeOK, Bounded, Route, Threads, Alone
  <2>2. ReadEnds' /\ WriteEnds' /\ ExecPipe' /\ Streams'
    BY DEF ReadEnds, WriteEnds, ExecPipe, Streams, Open, Drained
  <2>3. Balance' /\ Ended'
    BY DEF Balance, Ended, Aborted
  <2>4. Results'
    BY DEF Results, Drained, Complaint, Aborted, ThreadFailed
  <2> QED
    BY <2>1, <2>2, <2>3, <2>4
<1> QED
  BY <1>1, <1>2, <1>3, <1>4, <1>5 DEF Next

\* It is an invariant of the specification.
LEMMA InvariantHolds == Spec => []IInv
BY InitInvariant, StepInvariant, PTL DEF Spec

-----------------------------------------------------------------------------
(***************************************************************************)
(* What it says about run and capture.                                     *)
(***************************************************************************)

\* The type invariant, and the bounds of the pipes: no writer gets past a full one.
THEOREM TypeCorrect == Spec => [](TypeOK /\ Bounded)
<1>1. IInv => TypeOK /\ Bounded
  BY DEF IInv
<1> QED
  BY <1>1, InvariantHolds, PTL

\* What a call returns is all that was written to each of the two streams, when nobody can
\* write to them any more and the child has been waited for.
THEOREM ResultsComplete == Spec => []Complete
<1>1. IInv => Complete
  <2> SUFFICES ASSUME IInv, outcome.kind = "result"
               PROVE  /\ child = "reaped"
                      /\ call = "capture" =>
                            /\ outcome.out = written["out"] /\ outcome.err = written["err"]
                            /\ \A s \in Stream : writers[s] = {}
    BY DEF Complete
  <2>1. /\ child = "reaped" /\ Complaint = "none"
        /\ outcome.out = buffer["out"] /\ outcome.err = buffer["err"]
        /\ call = "capture" => \A s \in Stream : Drained(s)
    BY DEF IInv, Results
  <2>2. readOk /\ ~ ThreadFailed
    BY <2>1 DEF Complaint
  <2>3. \A s \in Stream : written[s] = buffer[s] + pipe[s] /\ buffer[s] \in Nat
    BY <2>2 DEF IInv, TypeOK, Balance, ThreadFailed
  <2> QED
    BY <2>1, <2>3 DEF Drained, Stream
<1> QED
  BY <1>1, InvariantHolds, PTL

\* "could not start process" is thrown only when the program did not run, and a result is
\* never that of a child that did not become the program, unless somebody killed it.
THEOREM StartsReported == Spec => []StartReported
<1>1. IInv => StartReported
  <2> SUFFICES ASSUME IInv
               PROVE  /\ outcome.kind = "result" => ran \/ killed
                      /\ outcome = Throws("could not start process") /\ errno # "failed" => ~ ran
    BY DEF StartReported
  <2>1. ASSUME outcome.kind = "result"
        PROVE  ran \/ killed
    <3>1. child = "reaped" /\ (host = "posix" => errno = "none")
      BY <2>1 DEF IInv, Results
    <3>2. CASE host = "posix"
      BY <3>1, <3>2 DEF IInv, ExecPipe, TypeOK, Pipe
    <3>3. CASE host = "windows"
      BY <3>1, <3>3 DEF IInv, ExecPipe
    <3> QED
      BY <3>2, <3>3 DEF IInv, TypeOK
  <2> QED
    BY <2>1 DEF IInv, Results
<1> QED
  BY <1>1, InvariantHolds, PTL

\* Every call closes what it opened and waits for the child it made, except where a read or
\* the wait itself fails or a thread could not be started.
THEOREM LeavesNothing == Spec => []NothingLeft
<1>1. IInv => NothingLeft
  <2> SUFFICES ASSUME IInv, pc = "done"
               PROVE  /\ readOk => reader = {}
                      /\ \A p \in Pipe : "parent" \notin writers[p]
                      /\ waited => child \in {"none", "reaped"} \/ (child = "ended" /\ Aborted)
    BY DEF NothingLeft
  <2>1. readOk => reader = {}
    BY DEF IInv, TypeOK, ReadEnds, Open, Pipe
  <2> QED
    BY <2>1 DEF IInv, WriteEnds, Ended
<1> QED
  BY <1>1, InvariantHolds, PTL

\* A POSIX caller never closes the read end of a stream while a process waits to write to it.
THEOREM PipesNeverBroken == Spec => []NeverBroken
<1>1. IInv => NeverBroken
  <2> SUFFICES ASSUME IInv, host = "posix", NEW p \in Process, blocked[p] \in Stream
               PROVE  blocked[p] \in reader
    BY DEF NeverBroken
  <2>1. p \in writers[blocked[p]]
    BY DEF IInv, WriteEnds
  <2> QED
    BY <2>1 DEF IInv, Streams, Drained
<1> QED
  BY <1>1, InvariantHolds, PTL
==============================================================================
