----------------------------- MODULE FaultPool -----------------------------
(***************************************************************************)
(* The pool of worker processes that analyses faults in parallel           *)
(* (worker_pool.c).  The parent forks the workers, hands each one a fault  *)
(* number over a socket, collects the replies in whatever order they       *)
(* arrive, writes the results in fault order, and finally stops or kills   *)
(* the workers and reaps them all.                                         *)
(*                                                                         *)
(* The processes, the two ends of each socket and the signals are          *)
(* explicit.  A process holds a socket end until it closes it or dies; a   *)
(* read returns when there is data or when nobody holds the other end.     *)
(* The bytes of a message are one part, the text of a result is the fault  *)
(* it belongs to.                                                          *)
(***************************************************************************)
EXTENDS Targets, FiniteSets

CONSTANTS
  Saved,        \* the faults whose cube text is not empty
  Jobs,         \* -jobs: requested number of workers
  SocketParts,  \* reply parts a socket buffers before the writer blocks
  Failures      \* the kinds of failure the environment may inject

FailureKinds == { "memory", "flush", "spawn", "send", "poll", "write",
                  "task", "kill", "signal", "parentDeath" }

ASSUME SavedAssumption == Saved \subseteq Faults
ASSUME JobsAssumption == Jobs \in Nat \ {0}
ASSUME SocketPartsAssumption == SocketParts \in Nat \ {0}
ASSUME FailuresAssumption == Failures \subseteq FailureKinds

WorkerCount == IF Jobs < FaultCount THEN Jobs ELSE FaultCount
Workers == 0 .. WorkerCount - 1
Parent == -1
Processes == Workers \union {Parent}
NoFault == -1   \* to a worker: stop; in the parent: the worker is idle

VARIABLES
  \* the parent
  pc,          \* where FaultPoolRun is
  cursor,      \* the worker its current loop is at
  scan,        \* sockets poll reported and the loop has not handled yet
  cancelled,   \* the flag the SIGINT/SIGTERM handler sets
  succeeded,   \* result of the run so far
  pids,        \* workers whose pid is recorded, i.e. not yet reaped
  task,        \* fault each worker is analysing (fault_index)
  ready,       \* faults whose result has arrived
  nextFault,   \* next fault to hand out
  completed,   \* number of replies accepted
  nextOutput,  \* next fault to write
  \* the files
  csvFile,     \* lines that reached the CSV file
  csvBuffer,   \* lines still in the parent's stdio buffer
  torn,        \* the last row was only partly written
  cubeFiles,   \* faults whose cube file exists
  \* the workers
  proc,        \* what each worker process is doing
  job,         \* fault the worker has received
  outbox,      \* reply parts the worker still has to send
  copy,        \* CSV lines inherited in the worker's own stdio buffer
  flagged,     \* workers whose inherited copy of "cancelled" is set
  \* the sockets
  parentEnd,   \* who holds the parent's end of each worker's socket
  childEnd,    \* who holds the worker's end
  toChild,     \* fault numbers on their way to the worker
  toParent     \* reply parts on their way to the parent

control == <<pc, cursor, scan>>
pool == <<task, ready, nextFault, completed, nextOutput>>
files == <<csvFile, csvBuffer, torn, cubeFiles>>
worker == <<proc, job, outbox, copy, flagged>>
ends == <<parentEnd, childEnd>>
sockets == <<parentEnd, childEnd, toChild, toParent>>
vars == <<control, cancelled, succeeded, pids, pool, files, worker, sockets>>

May(kind) == kind \in Failures

Alive == {"forked", "recv", "work", "send", "finish"}
Dead == {"exit0", "exit1", "killed"}

\* The parts of a reply: FaultReply, CSV text, cube text.
Parts == [kind : {"header", "csv", "cubes"}, fault : Faults, ok : BOOLEAN]
Part(kind, f, ok) == [kind |-> kind, fault |-> f, ok |-> ok]

\* Broken variant of Reply: the cube text is never sent.
ReplyWithoutCubes(f, ok) ==
  IF ok THEN <<Part("header", f, TRUE), Part("csv", f, TRUE)>>
  ELSE <<Part("header", f, FALSE)>>

\* What analyze_and_reply sends; a failed task sends only the header.
Reply(f, ok) ==
  IF ~ok THEN <<Part("header", f, FALSE)>>
  ELSE <<Part("header", f, TRUE), Part("csv", f, TRUE)>>
       \o (IF f \in Saved THEN <<Part("cubes", f, TRUE)>> ELSE <<>>)

Init ==
  /\ pc = "enter" /\ cursor = 0 /\ scan = {}
  /\ cancelled = FALSE /\ succeeded = TRUE /\ pids = {}
  /\ task = [w \in Workers |-> NoFault]
  /\ ready = {} /\ nextFault = 0 /\ completed = 0 /\ nextOutput = 0
  /\ csvFile = <<>> /\ csvBuffer = <<Header>> /\ torn = FALSE /\ cubeFiles = {}
  /\ proc = [w \in Workers |-> "none"]
  /\ job = [w \in Workers |-> NoFault]
  /\ outbox = [w \in Workers |-> <<>>]
  /\ copy = [w \in Workers |-> <<>>]
  /\ flagged = {}
  /\ parentEnd = [w \in Workers |-> {}]
  /\ childEnd = [w \in Workers |-> {}]
  /\ toChild = [w \in Workers |-> <<>>]
  /\ toParent = [w \in Workers |-> <<>>]
-----------------------------------------------------------------------------
(***************************************************************************)
(* Processes and sockets                                                   *)
(***************************************************************************)

\* The processes in gone lose every socket end they hold.
Release(gone) ==
  /\ parentEnd' = [w \in Workers |-> parentEnd[w] \ gone]
  /\ childEnd' = [w \in Workers |-> childEnd[w] \ gone]

\* Worker w ends in the way given; what it had not sent is lost.
Exit(w, how) ==
  /\ proc' = [proc EXCEPT ![w] = how]
  /\ outbox' = [outbox EXCEPT ![w] = <<>>]
  /\ Release({w})

\* SIGTERM to every unreaped worker.  A worker that has just been forked
\* still has the parent's handler and only sets its own flag.
TerminateWorkers ==
  LET deferred == {w \in pids : proc[w] = "forked"}
      dying == {w \in pids : proc[w] \in Alive \ {"forked"}}
  IN /\ proc' = [w \in Workers |-> IF w \in dying THEN "killed" ELSE proc[w]]
     /\ outbox' = [w \in Workers |-> IF w \in dying THEN <<>> ELSE outbox[w]]
     /\ flagged' = flagged \union deferred
     /\ Release(dying)

\* A read by the parent returns: data, or end of file.
Readable(w) == toParent[w] # <<>> \/ childEnd[w] = {}

\* Broken variant of Revents: a hang-up goes unnoticed.
ReventsWithoutHangup == {w \in Workers : task[w] # NoFault /\ toParent[w] # <<>>}

\* The sockets poll reports: data from a worker that has a fault, or hang-up.
Revents ==
  {w \in Workers : childEnd[w] = {} \/ (task[w] # NoFault /\ toParent[w] # <<>>)}

\* send_bytes of one fault number to worker w, then on to next.  With "cancelled" set the
\* number is delivered and the call still fails.
SendIndex(w, index, next) ==
  \/ /\ childEnd[w] # {}
     /\ toChild' = [toChild EXCEPT ![w] = Append(@, index)]
     /\ pc' = IF cancelled THEN "terminate" ELSE next
  \/ /\ childEnd[w] = {} \/ May("send")
     /\ pc' = "terminate"
     /\ UNCHANGED toChild
-----------------------------------------------------------------------------
(***************************************************************************)
(* The parent: start                                                       *)
(***************************************************************************)

\* FaultPoolRun up to the signal handlers: nothing to do, or allocation.
Enter ==
  /\ pc = "enter"
  /\ \/ FaultCount = 0 /\ pc' = "close" /\ UNCHANGED succeeded
     \/ FaultCount # 0 /\ pc' = "flush" /\ UNCHANGED succeeded
     \/ FaultCount # 0 /\ May("memory") /\ pc' = "close" /\ succeeded' = FALSE
  /\ UNCHANGED <<cursor, scan, cancelled, pids, pool, files, worker, sockets>>

\* Broken variant of FlushCsv: nothing is flushed.
SkipFlush == UNCHANGED <<csvFile, csvBuffer>>

\* The parent's buffered lines reach the file.
FlushCsv ==
  /\ csvFile' = csvFile \o csvBuffer
  /\ csvBuffer' = <<>>

\* fflush(NULL) before the first fork.
Flush ==
  /\ pc = "flush"
  /\ \/ pc' = "start" /\ FlushCsv
     \/ May("flush") /\ pc' = "terminate" /\ UNCHANGED <<csvFile, csvBuffer>>
  /\ UNCHANGED <<cursor, scan, cancelled, succeeded, pids, pool, torn, cubeFiles,
                 worker, sockets>>

\* socketpair and fork.  The child inherits every descriptor the parent has
\* open, the unflushed CSV lines and the flag; the parent closes its copy of
\* the child's end.
StartWorker ==
  LET w == cursor IN
  /\ pc = "start"
  /\ \/ /\ pc' = "assignFirst"
        /\ pids' = pids \union {w}
        /\ proc' = [proc EXCEPT ![w] = "forked"]
        /\ copy' = [copy EXCEPT ![w] = csvBuffer]
        /\ flagged' = IF cancelled THEN flagged \union {w} ELSE flagged
        /\ parentEnd' = [v \in Workers |->
             IF v = w THEN {Parent, w}
             ELSE IF Parent \in parentEnd[v] THEN parentEnd[v] \union {w}
             ELSE parentEnd[v]]
        /\ childEnd' = [childEnd EXCEPT ![w] = {w}]
     \/ /\ May("spawn")
        /\ pc' = "terminate"
        /\ UNCHANGED <<pids, proc, copy, flagged, ends>>
  /\ UNCHANGED <<cursor, scan, cancelled, succeeded, task, ready, nextFault, completed,
                 nextOutput, files, job, outbox, toChild, toParent>>

\* Broken variant of AssignNextFault: the next fault is not advanced.
AssignAgain(w, next) ==
  /\ task' = [task EXCEPT ![w] = nextFault]
  /\ SendIndex(w, nextFault, next)
  /\ UNCHANGED nextFault

\* assign_next_fault: the next fault goes to worker w, or w becomes idle.
AssignNextFault(w, next) ==
  IF nextFault = FaultCount
  THEN /\ task' = [task EXCEPT ![w] = NoFault]
       /\ pc' = next
       /\ UNCHANGED <<nextFault, toChild>>
  ELSE /\ task' = [task EXCEPT ![w] = nextFault]
       /\ nextFault' = nextFault + 1
       /\ SendIndex(w, nextFault, next)

\* The first fault of a worker, in the start loop.
AssignFirst ==
  LET last == cursor = WorkerCount - 1 IN
  /\ pc = "assignFirst"
  /\ AssignNextFault(cursor, IF last THEN "collect" ELSE "start")
  /\ cursor' = IF last THEN 0 ELSE cursor + 1
  /\ UNCHANGED <<scan, cancelled, succeeded, pids, ready, completed, nextOutput, files,
                 worker, ends, toParent>>
-----------------------------------------------------------------------------
(***************************************************************************)
(* The parent: collecting replies                                          *)
(***************************************************************************)

\* Broken variant of AllCompleted: everything is handed out.
AllAssigned == nextFault = FaultCount

AllCompleted == completed = FaultCount

\* The head of the loop of collect_fault_results.
Collect ==
  /\ pc = "collect"
  /\ pc' = IF cancelled THEN "terminate"
           ELSE IF AllCompleted THEN "stop" ELSE "poll"
  /\ cursor' = 0
  /\ UNCHANGED <<scan, cancelled, succeeded, pids, pool, files, worker, sockets>>

Poll ==
  /\ pc = "poll"
  /\ Revents # {}
  /\ scan' = Revents
  /\ pc' = "scan"
  /\ UNCHANGED <<cursor, cancelled, succeeded, pids, pool, files, worker, sockets>>

\* The for loop over the sockets poll reported, in index order.
Scan ==
  /\ pc = "scan"
  /\ \/ /\ scan = {}
        /\ pc' = "collect"
        /\ UNCHANGED <<cursor, scan>>
     \/ \E w \in scan :
          /\ \A v \in scan : w <= v
          /\ pc' = "header"
          /\ cursor' = w
          /\ scan' = scan \ {w}
  /\ UNCHANGED <<cancelled, succeeded, pids, pool, files, worker, sockets>>

\* The result of the worker's fault is complete: mark it ready.
Accept(w) ==
  /\ ready' = ready \union {task[w]}
  /\ completed' = completed + 1
  /\ pc' = "write"

\* Only pc, toParent and the result table change while a reply is received.
ReceiveFrame ==
  UNCHANGED <<cursor, scan, cancelled, succeeded, pids, task, nextFault, nextOutput,
              files, worker, ends, toChild>>

GiveUpReceiving ==
  pc' = "terminate" /\ UNCHANGED <<ready, completed, toParent>>

\* receive_fault_result: the FaultReply header and the checks on it.
ReceiveHeader ==
  LET w == cursor
      header == Head(toParent[w])
  IN
  /\ pc = "header"
  /\ \/ /\ task[w] = NoFault \/ (Readable(w) /\ (toParent[w] = <<>> \/ cancelled))
        /\ GiveUpReceiving
     \/ /\ task[w] # NoFault /\ toParent[w] # <<>> /\ ~cancelled
        /\ toParent' = [toParent EXCEPT ![w] = Tail(@)]
        /\ pc' = IF /\ header.ok
                    /\ header.fault = task[w]
                    /\ task[w] \notin ready
                 THEN "csv" ELSE "terminate"
        /\ UNCHANGED <<ready, completed>>
  /\ ReceiveFrame

\* Broken variant of HasCubes: the cube text is forgotten.
NeverHasCubes(w) == FALSE

\* cube_size of the reply being received is not zero.
HasCubes(w) == task[w] \in Saved

\* The CSV text and, if there is one, the cube text of the reply.
ReceiveText ==
  LET w == cursor IN
  /\ pc \in {"csv", "cubes"}
  /\ \/ /\ Readable(w) /\ (toParent[w] = <<>> \/ cancelled)
        /\ GiveUpReceiving
     \/ /\ toParent[w] # <<>> /\ ~cancelled
        /\ toParent' = [toParent EXCEPT ![w] = Tail(@)]
        /\ IF pc = "csv" /\ HasCubes(w)
           THEN pc' = "cubes" /\ UNCHANGED <<ready, completed>>
           ELSE Accept(w)
  /\ ReceiveFrame

\* Broken variant of WriteResult: a short write is ignored.
IgnoreShortWrite(f) ==
  /\ pc' = IF f \in Saved THEN "cubeFile" ELSE "write"
  /\ torn' = (torn \/ May("write"))

\* fwrite of the row of f: then its cube file if any, or a short write.
WriteResult(f) ==
  \/ pc' = (IF f \in Saved THEN "cubeFile" ELSE "write") /\ UNCHANGED torn
  \/ May("write") /\ pc' = "terminate" /\ torn' = TRUE

\* One turn of write_ready_results: the row of the next fault in order.
WriteRow ==
  /\ pc = "write"
  /\ nextOutput \in ready
  /\ nextOutput' = nextOutput + 1
  /\ csvBuffer' = Append(csvBuffer, nextOutput)
  /\ WriteResult(nextOutput)
  /\ UNCHANGED <<cursor, scan, cancelled, succeeded, pids, task, ready, nextFault, completed,
                 csvFile, cubeFiles, worker, sockets>>

\* WriteCubeFile for the row just written; a partial file is unlinked.
WriteCubeFile ==
  /\ pc = "cubeFile"
  /\ \/ pc' = "write" /\ cubeFiles' = cubeFiles \union {nextOutput - 1}
     \/ May("write") /\ pc' = "terminate" /\ UNCHANGED cubeFiles
  /\ UNCHANGED <<cursor, scan, cancelled, succeeded, pids, pool, csvFile, csvBuffer, torn,
                 worker, sockets>>

\* Nothing more to write: the worker just heard from gets its next fault.
AssignNext ==
  /\ pc = "write"
  /\ nextOutput \notin ready
  /\ AssignNextFault(cursor, "scan")
  /\ UNCHANGED <<cursor, scan, cancelled, succeeded, pids, ready, completed, nextOutput,
                 files, worker, ends, toParent>>
-----------------------------------------------------------------------------
(***************************************************************************)
(* The parent: stopping, killing and reaping                               *)
(***************************************************************************)

\* send_stop_requests, one worker at a time.
SendStop ==
  LET last == cursor = WorkerCount - 1 IN
  /\ pc = "stop"
  /\ SendIndex(cursor, NoFault, IF last THEN "reap" ELSE "stop")
  /\ cursor' = IF last THEN 0 ELSE cursor + 1
  /\ UNCHANGED <<scan, cancelled, succeeded, pids, pool, files, worker, ends, toParent>>

Terminate ==
  /\ pc = "terminate"
  /\ TerminateWorkers
  /\ pc' = "reap"
  /\ cursor' = 0
  /\ scan' = {}
  /\ succeeded' = FALSE
  /\ UNCHANGED <<cancelled, pids, pool, files, job, copy, toChild, toParent>>

\* Broken variant of Forked: nobody is waited for after a failure.
ForkedAndFine(w) == w \in pids /\ succeeded

Forked(w) == w \in pids

\* wait_for_workers: close the parent's end, then wait unless never started.
CloseSocket ==
  /\ pc = "reap"
  /\ cursor < WorkerCount
  /\ parentEnd' = [parentEnd EXCEPT ![cursor] = @ \ {Parent}]
  /\ IF Forked(cursor)
     THEN pc' = "wait" /\ UNCHANGED cursor
     ELSE cursor' = cursor + 1 /\ UNCHANGED pc
  /\ UNCHANGED <<scan, cancelled, succeeded, pids, pool, files, worker, childEnd,
                 toChild, toParent>>

\* Broken variant of Reap: the pid stays recorded.
ReapKeepingPid(w) ==
  /\ succeeded' = (succeeded /\ proc[w] = "exit0")
  /\ proc' = [proc EXCEPT ![w] = "reaped"]
  /\ UNCHANGED pids

\* waitpid returned w: anything but a normal exit spoils the run.
Reap(w) ==
  /\ succeeded' = (succeeded /\ proc[w] = "exit0")
  /\ proc' = [proc EXCEPT ![w] = "reaped"]
  /\ pids' = pids \ {w}

WaitPid ==
  /\ pc = "wait"
  /\ proc[cursor] \in Dead
  /\ Reap(cursor)
  /\ pc' = "reap"
  /\ cursor' = cursor + 1
  /\ UNCHANGED <<scan, cancelled, pool, files, job, outbox, copy, flagged, sockets>>

\* All reaped: the result is final and the signal handlers are restored.
Finish ==
  /\ pc = "reap"
  /\ cursor = WorkerCount
  /\ pc' = "close"
  /\ succeeded' = (succeeded /\ ~cancelled)
  /\ UNCHANGED <<cursor, scan, cancelled, pids, pool, files, worker, sockets>>

\* fclose of the CSV in AnalyzeFaultDensity.
CloseCsv ==
  /\ pc = "close"
  /\ pc' = "returned"
  /\ \/ FlushCsv /\ UNCHANGED succeeded
     \/ May("write") /\ succeeded' = FALSE /\ UNCHANGED <<csvFile, csvBuffer>>
  /\ UNCHANGED <<cursor, scan, cancelled, pids, pool, torn, cubeFiles, worker, sockets>>
-----------------------------------------------------------------------------
(***************************************************************************)
(* Signals to the parent, and calls that fail                              *)
(***************************************************************************)

Blocking == {"poll", "header", "csv", "cubes", "wait"}
Handling == Blocking \union {"flush", "start", "assignFirst", "collect", "scan", "write",
                             "cubeFile", "stop", "terminate", "reap"}

\* SIGINT or SIGTERM while the parent computes, or between its check of the
\* flag and the call that then blocks without noticing.
Signal ==
  /\ May("signal")
  /\ pc \in Handling
  /\ ~cancelled
  /\ cancelled' = TRUE
  /\ UNCHANGED <<control, succeeded, pids, pool, files, worker, sockets>>

\* The same signal while a call is blocked: the call ends with EINTR.
InterruptCall ==
  /\ May("signal")
  /\ cancelled' = TRUE
  /\ \/ /\ pc = "poll"
        /\ pc' = "collect"
        /\ UNCHANGED <<proc, outbox, flagged, ends>>
     \/ /\ pc \in {"header", "csv", "cubes"}
        /\ ~Readable(cursor)
        /\ pc' = "terminate"
        /\ UNCHANGED <<proc, outbox, flagged, ends>>
     \/ /\ pc = "wait"
        /\ proc[cursor] \notin Dead
        /\ TerminateWorkers
        /\ UNCHANGED pc
  /\ UNCHANGED <<cursor, scan, succeeded, pids, pool, files, job, copy, toChild, toParent>>

\* poll fails, or the memory for the text of a reply cannot be had.  Not a
\* step of ParentStep: fairness must not make a blocked call fail.
CallFails ==
  /\ \/ pc = "poll" /\ May("poll")
     \/ pc \in {"csv", "cubes"} /\ May("memory")
  /\ pc' = "terminate"
  /\ UNCHANGED <<cursor, scan, cancelled, succeeded, pids, pool, files, worker, sockets>>

\* The parent is killed outright; the kernel closes its ends.
ParentDeath ==
  /\ May("parentDeath")
  /\ pc \in Handling
  /\ pc' = "dead"
  /\ Release({Parent})
  /\ UNCHANGED <<cursor, scan, cancelled, succeeded, pids, pool, files, worker, toChild,
                 toParent>>
-----------------------------------------------------------------------------
(***************************************************************************)
(* The workers                                                             *)
(***************************************************************************)

\* Broken variant of CloseInherited: the child keeps its own parent's end.
CloseOthersOnly(w) ==
  parentEnd' = [v \in Workers |-> IF v < w THEN parentEnd[v] \ {w} ELSE parentEnd[v]]

\* Worker w closes the parent's end of its own socket and of earlier ones.
CloseInherited(w) ==
  parentEnd' = [v \in Workers |-> IF v <= w THEN parentEnd[v] \ {w} ELSE parentEnd[v]]

\* The child after fork: closes the parent's ends it inherited, restores the
\* default signal handlers, closes its copy of the CSV stream.
ChildStart(w) ==
  /\ proc[w] = "forked"
  /\ proc' = [proc EXCEPT ![w] = "recv"]
  /\ CloseInherited(w)
  /\ csvFile' = csvFile \o copy[w]
  /\ copy' = [copy EXCEPT ![w] = <<>>]
  /\ UNCHANGED <<control, cancelled, succeeded, pids, pool, csvBuffer, torn, cubeFiles,
                 job, outbox, flagged, childEnd, toChild, toParent>>

\* worker_loop: wait for the next number; stop, start working, or give up.
ChildReceive(w) ==
  /\ proc[w] = "recv"
  /\ \/ /\ toChild[w] # <<>> /\ w \notin flagged
        /\ LET index == Head(toChild[w]) IN
           IF index \in Faults \union {NoFault}
           THEN /\ proc' = [proc EXCEPT ![w] = IF index = NoFault THEN "finish" ELSE "work"]
                /\ job' = [job EXCEPT ![w] = index]
                /\ toChild' = [toChild EXCEPT ![w] = Tail(@)]
                /\ UNCHANGED <<outbox, ends>>
           ELSE Exit(w, "exit1") /\ UNCHANGED <<job, toChild>>
     \/ /\ IF toChild[w] = <<>> THEN parentEnd[w] = {} ELSE w \in flagged
        /\ Exit(w, "exit1")
        /\ UNCHANGED <<job, toChild>>
  /\ UNCHANGED <<control, cancelled, succeeded, pids, pool, files, copy, flagged, toParent>>

\* analyze_and_reply: run the task; without memory for its output, give up.
ChildAnalyze(w) ==
  /\ proc[w] = "work"
  /\ \/ \E ok \in BOOLEAN :
          /\ ok \/ May("task")
          /\ outbox' = [outbox EXCEPT ![w] = Reply(job[w], ok)]
          /\ proc' = [proc EXCEPT ![w] = "send"]
          /\ UNCHANGED ends
     \/ May("memory") /\ Exit(w, "exit1")
  /\ UNCHANGED <<control, cancelled, succeeded, pids, pool, files, job, copy, flagged,
                 toChild, toParent>>

\* Send the next part of the reply; block while the socket is full.
ChildSend(w) ==
  LET part == Head(outbox[w]) IN
  /\ proc[w] = "send"
  /\ \/ /\ outbox[w] # <<>>
        /\ parentEnd[w] # {}
        /\ Len(toParent[w]) < SocketParts
        /\ toParent' = [toParent EXCEPT ![w] = Append(@, part)]
        /\ IF Tail(outbox[w]) = <<>> /\ ~part.ok
           THEN Exit(w, "exit1")
           ELSE /\ outbox' = [outbox EXCEPT ![w] = Tail(@)]
                /\ proc' = [proc EXCEPT ![w] = IF Tail(outbox[w]) = <<>> THEN "recv" ELSE "send"]
                /\ UNCHANGED ends
     \/ /\ parentEnd[w] = {}
        /\ Exit(w, "exit1")
        /\ UNCHANGED toParent
  /\ UNCHANGED <<control, cancelled, succeeded, pids, pool, files, job, copy, flagged, toChild>>

\* The stop request arrived: release the work area and exit.
ChildFinish(w) ==
  /\ proc[w] = "finish"
  /\ Exit(w, "exit0")
  /\ UNCHANGED <<control, cancelled, succeeded, pids, pool, files, job, copy, flagged, toChild,
                 toParent>>

\* The worker is killed from outside (out of memory, SIGKILL).
ChildKilled(w) ==
  /\ May("kill")
  /\ proc[w] \in Alive
  /\ Exit(w, "killed")
  /\ UNCHANGED <<control, cancelled, succeeded, pids, pool, files, job, copy, flagged, toChild,
                 toParent>>
-----------------------------------------------------------------------------
ParentStep ==
  \/ Enter \/ Flush \/ StartWorker \/ AssignFirst
  \/ Collect \/ Poll \/ Scan \/ ReceiveHeader \/ ReceiveText
  \/ WriteRow \/ WriteCubeFile \/ AssignNext
  \/ SendStop \/ Terminate \/ CloseSocket \/ WaitPid \/ Finish \/ CloseCsv

ChildStep(w) ==
  ChildStart(w) \/ ChildReceive(w) \/ ChildAnalyze(w) \/ ChildSend(w) \/ ChildFinish(w)

Environment ==
  Signal \/ InterruptCall \/ CallFails \/ ParentDeath \/ \E w \in Workers : ChildKilled(w)

\* The run is over and no worker is left running.
Terminated ==
  /\ pc \in {"returned", "dead"}
  /\ \A w \in Workers : proc[w] \notin Alive
  /\ UNCHANGED vars

Next ==
  \/ ParentStep
  \/ \E w \in Workers : ChildStep(w)
  \/ Environment
  \/ Terminated

\* Every process that can run is scheduled, and a task comes to an end.
Fairness ==
  /\ WF_vars(ParentStep)
  /\ \A w \in Workers : WF_vars(ChildStep(w))

Spec == Init /\ [][Next]_vars /\ Fairness
-----------------------------------------------------------------------------
(***************************************************************************)
(* Properties                                                              *)
(***************************************************************************)

Labels == Handling \union {"enter", "close", "returned", "dead"}

ParentTypeOK ==
  /\ pc \in Labels
  /\ cursor \in 0 .. WorkerCount
  /\ scan \subseteq Workers
  /\ cancelled \in BOOLEAN
  /\ succeeded \in BOOLEAN
  /\ pids \subseteq Workers

PoolTypeOK ==
  /\ task \in [Workers -> Faults \union {NoFault}]
  /\ ready \subseteq Faults
  /\ nextFault \in 0 .. FaultCount
  /\ completed \in 0 .. FaultCount
  /\ nextOutput \in 0 .. FaultCount

FilesTypeOK ==
  /\ csvFile \in Seq(Faults \union {Header})
  /\ csvBuffer \in Seq(Faults \union {Header})
  /\ torn \in BOOLEAN
  /\ cubeFiles \subseteq Faults

WorkersTypeOK ==
  /\ proc \in [Workers -> Alive \union Dead \union {"none", "reaped"}]
  /\ job \in [Workers -> Faults \union {NoFault}]
  /\ outbox \in [Workers -> Seq(Parts)]
  /\ copy \in [Workers -> Seq(Faults \union {Header})]
  /\ flagged \subseteq Workers

SocketsTypeOK ==
  /\ parentEnd \in [Workers -> SUBSET Processes]
  /\ childEnd \in [Workers -> SUBSET Processes]
  /\ toChild \in [Workers -> Seq(Faults \union {NoFault})]
  /\ toParent \in [Workers -> Seq(Parts)]

\* The type invariant: what each variable of the parent, its pool, the
\* files, the workers and the sockets can hold.
TypeOK ==
  ParentTypeOK /\ PoolTypeOK /\ FilesTypeOK /\ WorkersTypeOK /\ SocketsTypeOK

\* Whatever order the workers finish in, and whatever a forked worker does
\* with the stdio buffer it inherited, the CSV is the header and then the
\* rows of faults 0, 1, 2, ... without a gap or a repetition
\* (write_ready_results, and the fflush before fork).
OutputInOrder ==
  /\ \A i \in 1 .. Len(csvFile) : csvFile[i] = i - 2
  /\ \A i \in 1 .. Len(csvBuffer) : csvBuffer[i] = Len(csvFile) + i - 2

\* No fault is analysed by two workers at a time, and none is handed out
\* again once its result has arrived (assign_next_fault, receive_fault_result).
AnalysedOnce ==
  \A v, w \in Workers :
    (proc[v] = "work" /\ v # w) =>
      /\ ~(proc[w] \in {"work", "send"} /\ job[w] = job[v])
      /\ job[v] \notin ready

\* Everything on its way from a worker belongs to the fault the parent
\* believes it is analysing, so a header is never paired with the text of
\* another reply (the framing of analyze_and_reply and receive_fault_result).
ReplyMatchesTask ==
  \A w \in Workers : \A i \in 1 .. Len(toParent[w]) :
    toParent[w][i].fault = task[w]

\* A run that returns true has written every row, whole and to the file,
\* and every cube file that is due, even when workers die or a signal
\* arrives while it finishes.
SuccessIsComplete ==
  (pc = "returned" /\ succeeded) =>
    /\ Len(csvFile) = FaultCount + 1
    /\ ~torn
    /\ cubeFiles = Saved

\* A recorded pid is that of a process that has not been reaped, so SIGTERM
\* never goes to a recycled pid (wait_for_workers clears it).
PidsAreOurs ==
  \A w \in pids : proc[w] \notin {"none", "reaped"}

\* However the run ends, FaultPoolRun returns only when every worker it
\* forked has been waited for.
AllReaped ==
  pc \in {"close", "returned"} => \A w \in Workers : proc[w] \in {"none", "reaped"}

\* The pool implements the report the serial loop promises: its steps are
\* those of FaultReport on the lines written so far.
Report == INSTANCE FaultReport WITH
  csv <- csvFile \o csvBuffer,
  due <- Saved,
  outcome <- IF pc # "returned" THEN "running"
             ELSE IF succeeded THEN "ok" ELSE "failed"

ImplementsReport == Report!Spec

\* FaultPoolRun always comes back, unless it is killed: no lost wake-up, dead worker, blocked
\* write or signal leaves the parent waiting for ever.
Returns == <>(pc \in {"returned", "dead"})

\* With nothing going wrong, it comes back with success.
CleanRunSucceeds == <>(pc = "returned" /\ succeeded)

\* When the parent is killed, every worker notices that its peer is gone and
\* exits (each child closes the parent's ends it inherited).
OrphansExit ==
  pc = "dead" ~> \A w \in Workers : proc[w] \notin Alive
=============================================================================
