-------------------------- MODULE FaultPoolProofs --------------------------
(* Theorems about the pool of workers, for any number of faults and jobs. *)
EXTENDS FaultPool, FiniteSetTheorems, SequenceTheorems, TLAPS

USE DEF NoFault, Parent, Header

\* Labels at which cursor is the index of a worker.
AtWorker == {"start", "assignFirst", "header", "csv", "cubes", "write", "cubeFile",
             "stop", "wait"}

\* The type invariant with what keeps it: loop indices are in range, a
\* result being received is new, and the counter counts the results.
Control ==
  /\ pc \in {"enter", "flush"} => cursor = 0
  /\ pc \in AtWorker => cursor \in Workers
  /\ pc \in Handling => FaultCount > 0
  /\ pc \in {"csv", "cubes"} => task[cursor] \in Faults \ ready
  /\ pc = "cubeFile" => nextOutput - 1 \in Saved
  /\ \A w \in Workers : proc[w] = "work" => job[w] \in Faults
  /\ completed = Cardinality(ready)

TypeInv == TypeOK /\ Control

LEMMA ConstantFacts ==
  /\ FaultCount \in Nat
  /\ WorkerCount \in Nat
  /\ WorkerCount <= FaultCount
  /\ FaultCount > 0 => WorkerCount > 0
  /\ Saved \subseteq Faults
BY FaultCountAssumption, SavedAssumption, JobsAssumption DEF WorkerCount

\* Which actions touch which group of variables.
LEMMA FilesFrame ==
  [Next]_vars => \/ Flush \/ WriteRow \/ WriteCubeFile \/ CloseCsv
                 \/ \E w \in Workers : ChildStart(w)
                 \/ UNCHANGED files
BY DEF Next, ParentStep, ChildStep, Environment, Terminated, vars, files, Enter, StartWorker,
  AssignFirst, Collect, Poll, Scan, ReceiveHeader, ReceiveText, ReceiveFrame, AssignNext,
  SendStop, Terminate, CloseSocket, WaitPid, Finish, Signal, InterruptCall, CallFails,
  ParentDeath,
  ChildReceive, ChildAnalyze, ChildSend, ChildFinish, ChildKilled

LEMMA PoolFrame ==
  [Next]_vars => \/ AssignFirst \/ AssignNext \/ ReceiveText \/ WriteRow
                 \/ UNCHANGED pool
BY DEF Next, ParentStep, ChildStep, Environment, Terminated, vars, pool, Enter, Flush,
  StartWorker, Collect, Poll, Scan, ReceiveHeader, GiveUpReceiving, ReceiveFrame, WriteCubeFile,
  SendStop, Terminate, CloseSocket, WaitPid, Finish, CloseCsv, Signal, InterruptCall, CallFails,
  ParentDeath, ChildStart, ChildReceive, ChildAnalyze, ChildSend, ChildFinish, ChildKilled

LEMMA ParentFrame ==
  [Next]_vars => \/ ParentStep \/ Signal \/ InterruptCall \/ CallFails \/ ParentDeath
                 \/ UNCHANGED <<control, cancelled, succeeded, pids, pool>>
BY DEF Next, ChildStep, Environment, Terminated, vars, control, ChildStart, ChildReceive,
  ChildAnalyze, ChildSend, ChildFinish, ChildKilled

LEMMA WorkersFrame ==
  [Next]_vars => \/ StartWorker \/ Terminate \/ WaitPid \/ InterruptCall
                 \/ \E w \in Workers : ChildStep(w) \/ ChildKilled(w)
                 \/ UNCHANGED worker
BY DEF Next, ParentStep, Environment, Terminated, vars, worker, Enter, Flush, AssignFirst,
  Collect, Poll, Scan, ReceiveHeader, ReceiveText, ReceiveFrame, WriteRow, WriteCubeFile,
  AssignNext, SendStop, CloseSocket, Finish, CloseCsv, Signal, CallFails,
  ParentDeath

-----------------------------------------------------------------------------
(***************************************************************************)
(* Type correctness                                                        *)
(***************************************************************************)

LEMMA InitType == Init => TypeInv
<1> SUFFICES ASSUME Init PROVE TypeInv
  OBVIOUS
<1> USE ConstantFacts DEF Init
<1>1. pc \in Labels /\ cursor \in 0 .. WorkerCount
  BY DEF Labels
<1>2. scan \subseteq Workers /\ pids \subseteq Workers
  OBVIOUS
<1>3. cancelled \in BOOLEAN /\ succeeded \in BOOLEAN
  OBVIOUS
<1>4. PoolTypeOK
  BY DEF PoolTypeOK
<1>5. csvFile \in Seq(Faults \union {Header}) /\ csvBuffer \in Seq(Faults \union {Header})
  OBVIOUS
<1>6. torn \in BOOLEAN /\ cubeFiles \subseteq Faults
  OBVIOUS
<1>7. proc \in [Workers -> Alive \union Dead \union {"none", "reaped"}]
  OBVIOUS
<1>8. /\ job \in [Workers -> Faults \union {NoFault}]
      /\ outbox \in [Workers -> Seq(Parts)]
      /\ copy \in [Workers -> Seq(Faults \union {Header})]
      /\ flagged \subseteq Workers
  OBVIOUS
<1>9. SocketsTypeOK
  BY DEF SocketsTypeOK
<1>10. Control
  BY FS_EmptySet DEF Control, AtWorker, Handling, Blocking
<1> QED
  BY <1>1, <1>2, <1>3, <1>4, <1>5, <1>6, <1>7, <1>8, <1>9, <1>10
  DEF TypeInv, TypeOK, ParentTypeOK, FilesTypeOK, WorkersTypeOK

LEMMA FilesTypeNext == TypeInv /\ [Next]_vars => FilesTypeOK'
<1> SUFFICES ASSUME TypeInv, [Next]_vars PROVE FilesTypeOK'
  OBVIOUS
<1> USE DEF TypeInv, TypeOK, FilesTypeOK
<1> DEFINE Line == Faults \union {Header}
<1>1. ASSUME FlushCsv PROVE csvFile' \in Seq(Line) /\ csvBuffer' \in Seq(Line)
  BY <1>1, ConcatProperties, EmptySeq DEF FlushCsv
<1>2. CASE Flush
  BY <1>2, <1>1 DEF Flush
<1>3. CASE WriteRow
  <2>1. nextOutput \in Line
    BY <1>3 DEF WriteRow, PoolTypeOK
  <2>2. csvBuffer' \in Seq(Line)
    BY <1>3, <2>1, AppendProperties DEF WriteRow
  <2>3. torn' \in BOOLEAN
    BY <1>3 DEF WriteRow, WriteResult
  <2> QED
    BY <1>3, <2>2, <2>3 DEF WriteRow
<1>4. CASE WriteCubeFile
  BY <1>4, ConstantFacts DEF WriteCubeFile, Control
<1>5. CASE CloseCsv
  BY <1>5, <1>1 DEF CloseCsv
<1>6. ASSUME NEW w \in Workers, ChildStart(w) PROVE FilesTypeOK'
  <2>1. csvFile' \in Seq(Line)
    BY <1>6, ConcatProperties DEF ChildStart, WorkersTypeOK
  <2> QED
    BY <1>6, <2>1 DEF ChildStart
<1>7. CASE UNCHANGED files
  BY <1>7 DEF files
<1> QED
  BY <1>2, <1>3, <1>4, <1>5, <1>6, <1>7, FilesFrame

LEMMA FaultsFinite == IsFiniteSet(Faults) /\ Cardinality(Faults) = FaultCount
BY FS_Interval, ConstantFacts DEF Faults

\* The number of results counted never exceeds the number of faults.
LEMMA CountResult ==
  ASSUME PoolTypeOK, completed = Cardinality(ready), NEW f \in Faults \ ready
  PROVE  /\ ready \union {f} \subseteq Faults
         /\ completed + 1 \in 0 .. FaultCount
         /\ completed + 1 = Cardinality(ready \union {f})
<1>1. IsFiniteSet(Faults) /\ Cardinality(Faults) = FaultCount
  BY FaultsFinite
<1>2. IsFiniteSet(ready)
  BY <1>1, FS_Subset DEF PoolTypeOK
<1>3. completed + 1 = Cardinality(ready \union {f})
  BY <1>2, FS_AddElement
<1>4. ready \union {f} \subseteq Faults
  BY DEF PoolTypeOK
<1>5. completed + 1 <= FaultCount
  BY <1>1, <1>3, <1>4, FS_Subset
<1> QED
  BY <1>3, <1>4, <1>5, ConstantFacts DEF PoolTypeOK

LEMMA PoolTypeNext ==
  TypeInv /\ [Next]_vars => PoolTypeOK' /\ completed' = Cardinality(ready')
<1> SUFFICES ASSUME TypeInv, [Next]_vars
             PROVE  PoolTypeOK' /\ completed' = Cardinality(ready')
  OBVIOUS
<1> USE DEF TypeInv, TypeOK, PoolTypeOK
<1>1. completed = Cardinality(ready)
  BY DEF Control
<1>2. ASSUME NEW w \in Workers, NEW next, AssignNextFault(w, next)
      PROVE  /\ task' \in [Workers -> Faults \union {NoFault}]
             /\ nextFault' \in 0 .. FaultCount
  <2>1. CASE nextFault = FaultCount
    BY <1>2, <2>1 DEF AssignNextFault
  <2>2. CASE nextFault # FaultCount
    <3>1. nextFault \in Faults /\ nextFault + 1 \in 0 .. FaultCount
      BY <2>2, ConstantFacts DEF Faults
    <3> QED
      BY <1>2, <2>2, <3>1 DEF AssignNextFault
  <2> QED
    BY <2>1, <2>2
<1>3. CASE AssignFirst
  <2>1. cursor \in Workers
    BY <1>3 DEF AssignFirst, Control, AtWorker
  <2> QED
    BY <1>1, <1>2, <1>3, <2>1 DEF AssignFirst
<1>4. CASE AssignNext
  <2>1. cursor \in Workers
    BY <1>4 DEF AssignNext, Control, AtWorker
  <2> QED
    BY <1>1, <1>2, <1>4, <2>1 DEF AssignNext
<1>5. CASE ReceiveText
  <2>1. task' = task /\ nextFault' = nextFault /\ nextOutput' = nextOutput
    BY <1>5 DEF ReceiveText, ReceiveFrame
  <2>2. CASE UNCHANGED <<ready, completed>>
    BY <1>1, <2>1, <2>2
  <2>3. CASE Accept(cursor)
    <3>1. task[cursor] \in Faults \ ready
      BY <1>5 DEF ReceiveText, Control
    <3> QED
      BY <1>1, <2>1, <2>3, <3>1, CountResult DEF Accept
  <2> QED
    BY <1>5, <2>2, <2>3 DEF ReceiveText, GiveUpReceiving
<1>6. CASE WriteRow
  <2>1. nextOutput + 1 \in 0 .. FaultCount
    BY <1>6, ConstantFacts DEF WriteRow, Faults
  <2> QED
    BY <1>1, <1>6, <2>1 DEF WriteRow
<1>7. CASE UNCHANGED pool
  BY <1>1, <1>7 DEF pool
<1> QED
  BY <1>3, <1>4, <1>5, <1>6, <1>7, PoolFrame

LEMMA LabelsNext == pc \in Labels /\ [Next]_vars => pc' \in Labels
<1> SUFFICES ASSUME pc \in Labels, [Next]_vars PROVE pc' \in Labels
  OBVIOUS
<1> USE DEF Labels, Handling, Blocking
<1>1. CASE Enter \/ Flush \/ StartWorker \/ AssignFirst
  BY <1>1 DEF Enter, Flush, StartWorker, AssignFirst, AssignNextFault, SendIndex
<1>2. CASE Collect \/ Poll \/ Scan \/ AssignNext
  BY <1>2 DEF Collect, Poll, Scan, AssignNext, AssignNextFault, SendIndex
<1>3. CASE ReceiveHeader \/ ReceiveText \/ WriteRow \/ WriteCubeFile
  BY <1>3 DEF ReceiveHeader, ReceiveText, GiveUpReceiving, Accept, WriteRow, WriteResult,
              WriteCubeFile
<1>4. CASE SendStop \/ Terminate \/ CloseSocket \/ WaitPid \/ Finish \/ CloseCsv
  BY <1>4 DEF SendStop, SendIndex, Terminate, CloseSocket, WaitPid, Finish, CloseCsv
<1>5. CASE \E w \in Workers : ChildStep(w)
  BY <1>5 DEF ChildStep, ChildStart, ChildReceive, ChildAnalyze, ChildSend, ChildFinish, control
<1>6. CASE Environment
  BY <1>6 DEF Environment, Signal, InterruptCall, CallFails, ParentDeath, ChildKilled, control
<1>7. CASE Terminated \/ UNCHANGED vars
  BY <1>7 DEF Terminated, vars, control
<1> QED BY <1>1, <1>2, <1>3, <1>4, <1>5, <1>6, <1>7 DEF Next, ParentStep

LEMMA ParentTypeNext == TypeInv /\ [Next]_vars => ParentTypeOK'
<1> SUFFICES ASSUME TypeInv, [Next]_vars PROVE ParentTypeOK'
  OBVIOUS
<1> USE ConstantFacts DEF TypeInv, TypeOK, ParentTypeOK
<1>1. pc' \in Labels
  BY LabelsNext
<1>2. cursor' \in 0 .. WorkerCount
  <2>1. CASE AssignFirst
    BY <2>1 DEF AssignFirst, Control, AtWorker, Workers
  <2>2. CASE SendStop
    BY <2>2 DEF SendStop, Control, AtWorker, Workers
  <2>3. CASE CloseSocket
    BY <2>3 DEF CloseSocket
  <2>4. CASE WaitPid
    BY <2>4 DEF WaitPid, Control, AtWorker, Workers
  <2>5. CASE Scan
    BY <2>5 DEF Scan, Workers
  <2> QED
    BY <2>1, <2>2, <2>3, <2>4, <2>5, ParentFrame
    DEF ParentStep, control, Enter, Flush, StartWorker, Collect, Poll, ReceiveHeader, ReceiveText,
        ReceiveFrame, WriteRow, WriteCubeFile, AssignNext, Terminate, Finish, CloseCsv, Signal,
        InterruptCall, CallFails, ParentDeath
<1>3. scan' \subseteq Workers /\ pids' \subseteq Workers
  <2>1. CASE StartWorker
    BY <2>1 DEF StartWorker, Control, AtWorker
  <2>2. CASE Poll
    BY <2>2 DEF Poll, Revents
  <2>3. CASE Scan
    BY <2>3 DEF Scan
  <2>4. CASE WaitPid
    BY <2>4 DEF WaitPid, Reap
  <2> QED
    BY <2>1, <2>2, <2>3, <2>4, ParentFrame
    DEF ParentStep, control, Enter, Flush, AssignFirst, Collect, ReceiveHeader, ReceiveText,
        ReceiveFrame, WriteRow, WriteCubeFile, AssignNext, SendStop, Terminate, CloseSocket,
        Finish, CloseCsv, Signal, InterruptCall, CallFails, ParentDeath
<1>4. cancelled' \in BOOLEAN /\ succeeded' \in BOOLEAN
  BY ParentFrame
  DEF ParentStep, control, Enter, Flush, StartWorker, AssignFirst, Collect, Poll, Scan,
      ReceiveHeader, ReceiveText, ReceiveFrame, WriteRow, WriteCubeFile, AssignNext, SendStop,
      Terminate, CloseSocket, WaitPid, Reap, Finish, CloseCsv, Signal, InterruptCall, CallFails,
      ParentDeath
<1> QED
  BY <1>1, <1>2, <1>3, <1>4

\* Ending processes keeps the ends and the states of workers well typed.
LEMMA ReleaseType ==
  ASSUME SocketsTypeOK, NEW gone \in SUBSET Processes, Release(gone)
  PROVE  /\ parentEnd' \in [Workers -> SUBSET Processes]
         /\ childEnd' \in [Workers -> SUBSET Processes]
BY DEF SocketsTypeOK, Release

LEMMA ExitType ==
  ASSUME WorkersTypeOK, SocketsTypeOK, NEW w \in Workers, NEW how \in Dead, Exit(w, how)
  PROVE  /\ proc' \in [Workers -> Alive \union Dead \union {"none", "reaped"}]
         /\ outbox' \in [Workers -> Seq(Parts)]
         /\ parentEnd' \in [Workers -> SUBSET Processes]
         /\ childEnd' \in [Workers -> SUBSET Processes]
         /\ \A v \in Workers : proc'[v] = "work" => proc[v] = "work"
<1>1. Release({w}) /\ {w} \in SUBSET Processes
  BY DEF Exit, Processes
<1>2. /\ proc' \in [Workers -> Alive \union Dead \union {"none", "reaped"}]
      /\ \A v \in Workers : proc'[v] = "work" => proc[v] = "work"
  BY DEF Exit, WorkersTypeOK, Dead
<1>3. outbox' \in [Workers -> Seq(Parts)]
  BY EmptySeq DEF Exit, WorkersTypeOK
<1> QED
  BY <1>1, <1>2, <1>3, ReleaseType

LEMMA TerminateType ==
  ASSUME WorkersTypeOK, SocketsTypeOK, ParentTypeOK, TerminateWorkers
  PROVE  /\ proc' \in [Workers -> Alive \union Dead \union {"none", "reaped"}]
         /\ outbox' \in [Workers -> Seq(Parts)]
         /\ flagged' \subseteq Workers
         /\ parentEnd' \in [Workers -> SUBSET Processes]
         /\ childEnd' \in [Workers -> SUBSET Processes]
         /\ \A v \in Workers : proc'[v] = "work" => proc[v] = "work"
<1> DEFINE dying == {w \in pids : proc[w] \in Alive \ {"forked"}}
<1>1. Release(dying) /\ dying \in SUBSET Processes
  BY DEF TerminateWorkers, ParentTypeOK, Processes
<1>2. /\ proc' = [w \in Workers |-> IF w \in dying THEN "killed" ELSE proc[w]]
      /\ outbox' = [w \in Workers |-> IF w \in dying THEN <<>> ELSE outbox[w]]
      /\ flagged' = flagged \union {w \in pids : proc[w] = "forked"}
  BY DEF TerminateWorkers
<1> HIDE DEF dying
<1>3. /\ proc' \in [Workers -> Alive \union Dead \union {"none", "reaped"}]
      /\ \A v \in Workers : proc'[v] = "work" => proc[v] = "work"
  BY <1>2 DEF WorkersTypeOK, Dead
<1>4. outbox' \in [Workers -> Seq(Parts)]
  BY <1>2, EmptySeq DEF WorkersTypeOK
<1>5. flagged' \subseteq Workers
  BY <1>2 DEF WorkersTypeOK, ParentTypeOK
<1> QED
  BY <1>1, <1>3, <1>4, <1>5, ReleaseType

LEMMA ReplyType ==
  ASSUME NEW f \in Faults, NEW ok \in BOOLEAN
  PROVE  Reply(f, ok) \in Seq(Parts)
<1>1. \A kind \in {"header", "csv", "cubes"}, b \in BOOLEAN : Part(kind, f, b) \in Parts
  BY DEF Part, Parts
<1>2. ASSUME NEW p \in Parts, NEW q \in Parts
      PROVE  <<p>> \in Seq(Parts) /\ <<p, q>> \in Seq(Parts)
  OBVIOUS
<1>3. (IF f \in Saved THEN <<Part("cubes", f, TRUE)>> ELSE <<>>) \in Seq(Parts)
  BY <1>1, <1>2, EmptySeq
<1>4. <<Part("header", f, TRUE), Part("csv", f, TRUE)>>
        \o (IF f \in Saved THEN <<Part("cubes", f, TRUE)>> ELSE <<>>) \in Seq(Parts)
  BY <1>1, <1>2, <1>3, ConcatProperties
<1> QED
  BY <1>1, <1>2, <1>4 DEF Reply

\* What a busy worker works on, kept with the types of the workers.
JobOK == \A w \in Workers : proc[w] = "work" => job[w] \in Faults

LEMMA WorkersTypeNext == TypeInv /\ [Next]_vars => WorkersTypeOK' /\ JobOK'
<1> SUFFICES ASSUME TypeInv, [Next]_vars PROVE WorkersTypeOK' /\ JobOK'
  OBVIOUS
<1> USE DEF TypeInv, TypeOK, JobOK
<1>1. JobOK
  BY DEF Control
<1>2. CASE StartWorker
  <2>1. cursor \in Workers
    BY <1>2 DEF StartWorker, Control, AtWorker
  <2>2. proc' \in [Workers -> Alive \union Dead \union {"none", "reaped"}] /\ JobOK'
    BY <1>1, <1>2, <2>1 DEF StartWorker, WorkersTypeOK, Alive
  <2>3. copy' \in [Workers -> Seq(Faults \union {Header})] /\ flagged' \subseteq Workers
    BY <1>2, <2>1 DEF StartWorker, WorkersTypeOK, FilesTypeOK
  <2> QED
    BY <1>2, <2>2, <2>3 DEF StartWorker, WorkersTypeOK
<1>3. CASE Terminate
  BY <1>1, <1>3, TerminateType DEF Terminate, WorkersTypeOK
<1>4. CASE WaitPid
  BY <1>1, <1>4 DEF WaitPid, Reap, WorkersTypeOK
<1>5. CASE InterruptCall
  <2>1. CASE TerminateWorkers
    BY <1>1, <1>5, <2>1, TerminateType DEF InterruptCall, WorkersTypeOK
  <2>2. CASE UNCHANGED <<proc, outbox, flagged, ends>>
    BY <1>1, <1>5, <2>2 DEF InterruptCall, WorkersTypeOK
  <2> QED
    BY <1>5, <2>1, <2>2 DEF InterruptCall
<1>6. ASSUME NEW w \in Workers, ChildStart(w) PROVE WorkersTypeOK' /\ JobOK'
  <2>1. copy' \in [Workers -> Seq(Faults \union {Header})]
    BY <1>6, EmptySeq DEF ChildStart, WorkersTypeOK
  <2> QED
    BY <1>1, <1>6, <2>1 DEF ChildStart, WorkersTypeOK, Alive
<1>7. ASSUME NEW w \in Workers, ChildReceive(w) PROVE WorkersTypeOK' /\ JobOK'
  <2>1. CASE Exit(w, "exit1")
    BY <1>1, <1>7, <2>1, ExitType DEF ChildReceive, WorkersTypeOK, Dead
  <2>2. CASE ~Exit(w, "exit1")
    <3> DEFINE index == Head(toChild[w])
    <3>1. /\ index \in Faults \union {NoFault}
          /\ proc' = [proc EXCEPT ![w] = IF index = NoFault THEN "finish" ELSE "work"]
          /\ job' = [job EXCEPT ![w] = index]
          /\ UNCHANGED <<outbox, copy, flagged>>
      BY <1>7, <2>2 DEF ChildReceive
    <3> HIDE DEF index
    <3> QED
      BY <1>1, <3>1 DEF WorkersTypeOK, Alive
  <2> QED
    BY <2>1, <2>2
<1>8. ASSUME NEW w \in Workers, ChildAnalyze(w) PROVE WorkersTypeOK' /\ JobOK'
  <2>1. CASE Exit(w, "exit1")
    BY <1>1, <1>8, <2>1, ExitType DEF ChildAnalyze, WorkersTypeOK, Dead
  <2>2. CASE ~Exit(w, "exit1")
    <3>1. PICK ok \in BOOLEAN : outbox' = [outbox EXCEPT ![w] = Reply(job[w], ok)]
      BY <1>8, <2>2 DEF ChildAnalyze
    <3>2. job[w] \in Faults
      BY <1>1, <1>8 DEF ChildAnalyze
    <3>3. outbox' \in [Workers -> Seq(Parts)]
      BY <3>1, <3>2, ReplyType DEF WorkersTypeOK
    <3>4. proc' = [proc EXCEPT ![w] = "send"] /\ UNCHANGED <<job, copy, flagged>>
      BY <1>8, <2>2 DEF ChildAnalyze
    <3> QED
      BY <1>1, <3>3, <3>4 DEF WorkersTypeOK, Alive
  <2> QED
    BY <2>1, <2>2
<1>9. ASSUME NEW w \in Workers, ChildSend(w) PROVE WorkersTypeOK' /\ JobOK'
  <2>1. CASE Exit(w, "exit1")
    BY <1>1, <1>9, <2>1, ExitType DEF ChildSend, WorkersTypeOK, Dead
  <2>2. CASE ~Exit(w, "exit1")
    <3>1. /\ outbox[w] # <<>>
          /\ outbox' = [outbox EXCEPT ![w] = Tail(@)]
          /\ proc' = [proc EXCEPT ![w] = IF Tail(outbox[w]) = <<>> THEN "recv" ELSE "send"]
          /\ UNCHANGED <<job, copy, flagged>>
      BY <1>9, <2>2 DEF ChildSend
    <3>2. outbox' \in [Workers -> Seq(Parts)]
      BY <3>1, HeadTailProperties DEF WorkersTypeOK
    <3> QED
      BY <1>1, <3>1, <3>2 DEF WorkersTypeOK, Alive
  <2> QED
    BY <2>1, <2>2
<1>10. ASSUME NEW w \in Workers, ChildFinish(w) \/ ChildKilled(w) PROVE WorkersTypeOK' /\ JobOK'
  BY <1>1, <1>10, ExitType DEF ChildFinish, ChildKilled, WorkersTypeOK, Dead
<1>11. CASE UNCHANGED worker
  BY <1>1, <1>11 DEF worker, WorkersTypeOK
<1> QED
  BY <1>2, <1>3, <1>4, <1>5, <1>6, <1>7, <1>8, <1>9, <1>10, <1>11, WorkersFrame DEF ChildStep

LEMMA SocketsTypeNext == TypeInv /\ [Next]_vars => SocketsTypeOK'
<1> SUFFICES ASSUME TypeInv, [Next]_vars PROVE SocketsTypeOK'
  OBVIOUS
<1> USE DEF TypeInv, TypeOK
<1> DEFINE Ends == [Workers -> SUBSET Processes]
           Indices == [Workers -> Seq(Faults \union {NoFault})]
           Replies == [Workers -> Seq(Parts)]
<1>1. ASSUME NEW w \in Workers, NEW index \in Faults \union {NoFault}, NEW next,
             SendIndex(w, index, next)
      PROVE  toChild' \in Indices
  <2>1. toChild \in Indices
    BY DEF SocketsTypeOK
  <2>2. Append(toChild[w], index) \in Seq(Faults \union {NoFault})
    BY <2>1, AppendProperties
  <2> QED
    BY <1>1, <2>1, <2>2 DEF SendIndex
<1>2. ASSUME NEW w \in Workers, NEW next, AssignNextFault(w, next)
      PROVE  toChild' \in Indices
  <2>1. CASE nextFault = FaultCount
    BY <1>2, <2>1 DEF AssignNextFault, SocketsTypeOK
  <2>2. CASE nextFault # FaultCount
    <3>1. nextFault \in Faults
      BY <2>2, ConstantFacts DEF Faults, PoolTypeOK
    <3> QED
      BY <1>1, <1>2, <2>2, <3>1 DEF AssignNextFault
  <2> QED
    BY <2>1, <2>2
<1>3. ASSUME NEW w \in Workers, toParent[w] # <<>>,
             toParent' = [toParent EXCEPT ![w] = Tail(@)]
      PROVE  toParent' \in Replies
  BY <1>3, HeadTailProperties DEF SocketsTypeOK
<1>4. CASE StartWorker
  <2>1. cursor \in Workers /\ {Parent, cursor} \in SUBSET Processes /\ {cursor} \in SUBSET Processes
    BY <1>4 DEF StartWorker, Control, AtWorker, Processes
  <2>2. CASE UNCHANGED ends
    BY <1>4, <2>2 DEF StartWorker, SocketsTypeOK, ends
  <2>3. CASE ~UNCHANGED ends
    <3>1. childEnd' \in Ends
      BY <1>4, <2>1, <2>3 DEF StartWorker, SocketsTypeOK
    <3>2. \A v \in Workers : /\ parentEnd[v] \in SUBSET Processes
                            /\ parentEnd[v] \union {cursor} \in SUBSET Processes
      BY <2>1 DEF SocketsTypeOK
    <3>3. parentEnd' \in Ends
      BY <1>4, <2>1, <2>3, <3>2 DEF StartWorker
    <3> QED
      BY <1>4, <3>1, <3>3 DEF StartWorker, SocketsTypeOK
  <2> QED
    BY <2>2, <2>3
<1>5. CASE AssignFirst
  BY <1>2, <1>5 DEF AssignFirst, Control, AtWorker, SocketsTypeOK, ends
<1>6. CASE AssignNext
  BY <1>2, <1>6 DEF AssignNext, Control, AtWorker, SocketsTypeOK, ends
<1>7. CASE SendStop
  BY <1>1, <1>7 DEF SendStop, Control, AtWorker, SocketsTypeOK, ends
<1>8. CASE ReceiveHeader
  <2>1. CASE UNCHANGED toParent
    BY <1>8, <2>1 DEF ReceiveHeader, ReceiveFrame, SocketsTypeOK, ends
  <2>2. CASE ~UNCHANGED toParent
    BY <1>3, <1>8, <2>2
    DEF ReceiveHeader, ReceiveFrame, GiveUpReceiving, Control, AtWorker, SocketsTypeOK, ends
  <2> QED
    BY <2>1, <2>2
<1>9. CASE ReceiveText
  <2>1. CASE UNCHANGED toParent
    BY <1>9, <2>1 DEF ReceiveText, ReceiveFrame, SocketsTypeOK, ends
  <2>2. CASE ~UNCHANGED toParent
    BY <1>3, <1>9, <2>2
    DEF ReceiveText, ReceiveFrame, GiveUpReceiving, Control, AtWorker, SocketsTypeOK, ends
  <2> QED
    BY <2>1, <2>2
<1>10. CASE Terminate
  BY <1>10, TerminateType DEF Terminate, SocketsTypeOK
<1>11. CASE CloseSocket
  BY <1>11 DEF CloseSocket, SocketsTypeOK
<1>12. CASE InterruptCall
  BY <1>12, TerminateType DEF InterruptCall, SocketsTypeOK, ends
<1>13. CASE ParentDeath
  <2>1. {Parent} \in SUBSET Processes
    BY DEF Processes
  <2> QED
    BY <1>13, <2>1, ReleaseType DEF ParentDeath, SocketsTypeOK
<1>14. ASSUME NEW w \in Workers, ChildStart(w) PROVE SocketsTypeOK'
  BY <1>14 DEF ChildStart, CloseInherited, SocketsTypeOK
<1>15. ASSUME NEW w \in Workers, ChildReceive(w) PROVE SocketsTypeOK'
  <2>1. CASE UNCHANGED toChild
    BY <1>15, <2>1, ExitType DEF ChildReceive, SocketsTypeOK, ends, Dead
  <2>2. CASE ~UNCHANGED toChild
    <3>1. /\ toChild[w] # <<>> /\ toChild' = [toChild EXCEPT ![w] = Tail(@)]
          /\ UNCHANGED <<parentEnd, childEnd, toParent>>
      BY <1>15, <2>2 DEF ChildReceive, ends
    <3> QED
      BY <3>1, HeadTailProperties DEF SocketsTypeOK
  <2> QED
    BY <2>1, <2>2
<1>16. ASSUME NEW w \in Workers, ChildAnalyze(w) PROVE SocketsTypeOK'
  BY <1>16, ExitType DEF ChildAnalyze, SocketsTypeOK, ends, Dead
<1>17. ASSUME NEW w \in Workers, ChildSend(w) PROVE SocketsTypeOK'
  <2>1. toParent' \in Replies
    <3>1. CASE outbox[w] # <<>>
      <4>1. Head(outbox[w]) \in Parts
        BY <3>1, HeadTailProperties DEF WorkersTypeOK
      <4>2. Append(toParent[w], Head(outbox[w])) \in Seq(Parts)
        BY <4>1, AppendProperties DEF SocketsTypeOK
      <4> QED
        BY <1>17, <4>2 DEF ChildSend, SocketsTypeOK
    <3>2. CASE outbox[w] = <<>>
      BY <1>17, <3>2 DEF ChildSend, SocketsTypeOK
    <3> QED
      BY <3>1, <3>2
  <2>2. parentEnd' \in Ends /\ childEnd' \in Ends
    <3>1. CASE Exit(w, "exit1")
      BY <3>1, ExitType DEF Dead
    <3>2. CASE UNCHANGED ends
      BY <3>2 DEF ends, SocketsTypeOK
    <3> QED
      BY <1>17, <3>1, <3>2 DEF ChildSend
  <2> QED
    BY <1>17, <2>1, <2>2 DEF ChildSend, SocketsTypeOK
<1>18. ASSUME NEW w \in Workers, ChildFinish(w) \/ ChildKilled(w) PROVE SocketsTypeOK'
  BY <1>18, ExitType DEF ChildFinish, ChildKilled, SocketsTypeOK, Dead
<1>19. CASE UNCHANGED sockets
  BY <1>19 DEF sockets, SocketsTypeOK
<1> QED
  BY <1>4, <1>5, <1>6, <1>7, <1>8, <1>9, <1>10, <1>11, <1>12, <1>13, <1>14, <1>15, <1>16,
     <1>17, <1>18, <1>19
  DEF Next, ParentStep, ChildStep, Environment, Terminated, vars, sockets, Enter, Flush, Collect,
      Poll, Scan, WriteRow, WriteCubeFile, WaitPid, Finish, CloseCsv, Signal, CallFails

LEMMA CursorNext ==
  TypeInv /\ [Next]_vars => /\ (pc \in {"enter", "flush"} => cursor = 0)'
                            /\ (pc \in AtWorker => cursor \in Workers)'
                            /\ (pc \in Handling => FaultCount > 0)'
<1> SUFFICES ASSUME TypeInv, [Next]_vars
             PROVE  /\ (pc \in {"enter", "flush"} => cursor = 0)'
                    /\ (pc \in AtWorker => cursor \in Workers)'
                    /\ (pc \in Handling => FaultCount > 0)'
  OBVIOUS
<1> USE ConstantFacts DEF TypeInv, TypeOK, Control, AtWorker, Handling, Blocking
<1>1. CASE Enter \/ Flush \/ StartWorker
  BY <1>1 DEF Enter, Flush, StartWorker, Workers
<1>2. CASE AssignFirst
  BY <1>2 DEF AssignFirst, AssignNextFault, SendIndex, Workers
<1>3. CASE Collect \/ Poll
  BY <1>3 DEF Collect, Poll, Workers
<1>4. CASE Scan
  BY <1>4 DEF Scan, ParentTypeOK
<1>5. CASE ReceiveHeader
  BY <1>5 DEF ReceiveHeader, ReceiveFrame, GiveUpReceiving
<1>6. CASE ReceiveText
  BY <1>6 DEF ReceiveText, ReceiveFrame, GiveUpReceiving, Accept
<1>7. CASE WriteRow \/ WriteCubeFile
  BY <1>7 DEF WriteRow, WriteResult, WriteCubeFile
<1>8. CASE AssignNext
  BY <1>8 DEF AssignNext, AssignNextFault, SendIndex
<1>9. CASE SendStop
  BY <1>9 DEF SendStop, SendIndex, Workers
<1>10. CASE Terminate \/ WaitPid \/ Finish \/ CloseCsv
  BY <1>10 DEF Terminate, WaitPid, Finish, CloseCsv
<1>11. CASE CloseSocket
  BY <1>11 DEF CloseSocket, Forked, ParentTypeOK
<1>12. CASE Signal \/ InterruptCall \/ CallFails \/ ParentDeath
  BY <1>12 DEF Signal, InterruptCall, CallFails, ParentDeath, control
<1>13. CASE UNCHANGED <<control, cancelled, succeeded, pids, pool>>
  BY <1>13 DEF control
<1> QED
  BY <1>1, <1>2, <1>3, <1>4, <1>5, <1>6, <1>7, <1>8, <1>9, <1>10, <1>11, <1>12, <1>13,
     ParentFrame
  DEF ParentStep

LEMMA ReceivingNext ==
  TypeInv /\ [Next]_vars => /\ (pc \in {"csv", "cubes"} => task[cursor] \in Faults \ ready)'
                            /\ (pc = "cubeFile" => nextOutput - 1 \in Saved)'
<1> SUFFICES ASSUME TypeInv, [Next]_vars
             PROVE  /\ (pc \in {"csv", "cubes"} => task[cursor] \in Faults \ ready)'
                    /\ (pc = "cubeFile" => nextOutput - 1 \in Saved)'
  OBVIOUS
<1> USE ConstantFacts DEF TypeInv, TypeOK, Control
<1>1. CASE ReceiveHeader
  <2>1. cursor \in Workers /\ task[cursor] \in Faults \union {NoFault}
    BY <1>1 DEF ReceiveHeader, AtWorker, PoolTypeOK
  <2> QED
    BY <1>1, <2>1 DEF ReceiveHeader, ReceiveFrame, GiveUpReceiving
<1>2. CASE ReceiveText
  BY <1>2 DEF ReceiveText, ReceiveFrame, GiveUpReceiving, Accept
<1>3. CASE WriteRow
  BY <1>3 DEF WriteRow, WriteResult, PoolTypeOK
<1>4. CASE Signal \/ InterruptCall \/ CallFails \/ ParentDeath \/ UNCHANGED <<control, pool>>
  BY <1>4
  DEF Signal, InterruptCall, CallFails, ParentDeath, control, pool
<1> QED
  BY <1>1, <1>2, <1>3, <1>4, ParentFrame
  DEF ParentStep, control, pool, Enter, Flush, StartWorker, AssignFirst, AssignNextFault,
      SendIndex, Collect, Poll, Scan, WriteCubeFile, AssignNext, SendStop, Terminate, CloseSocket,
      WaitPid, Finish, CloseCsv

LEMMA NextType == TypeInv /\ [Next]_vars => TypeInv'
<1> SUFFICES ASSUME TypeInv, [Next]_vars PROVE TypeInv'
  OBVIOUS
<1>1. ParentTypeOK' /\ PoolTypeOK' /\ FilesTypeOK' /\ WorkersTypeOK' /\ SocketsTypeOK'
  BY ParentTypeNext, PoolTypeNext, FilesTypeNext, WorkersTypeNext, SocketsTypeNext
<1>2. Control'
  BY CursorNext, ReceivingNext, WorkersTypeNext, PoolTypeNext DEF Control, JobOK
<1> QED
  BY <1>1, <1>2 DEF TypeInv, TypeOK

\* Every variable of the pool, its workers and their sockets keeps its type,
\* for any number of faults and workers and any failures.
THEOREM TypeCorrect == Spec => []TypeOK
<1>1. Spec => []TypeInv
  BY InitType, NextType, PTL DEF Spec
<1>2. TypeInv => TypeOK
  BY DEF TypeInv
<1> QED
  BY <1>1, <1>2, PTL
-----------------------------------------------------------------------------
(***************************************************************************)
(* The order of the output                                                 *)
(***************************************************************************)

\* The order of the lines with what keeps it: their number follows
\* nextOutput, the buffer is empty while workers are forked, and so a worker
\* never inherits a line.
OutputInv ==
  /\ OutputInOrder
  /\ Len(csvFile) + Len(csvBuffer) = nextOutput + 1
  /\ pc \in {"start", "assignFirst"} => csvBuffer = <<>>
  /\ \A w \in Workers : copy[w] = <<>>

LEMMA OutputFrame == [Next]_vars => WriteRow \/ UNCHANGED nextOutput
BY PoolFrame DEF pool, AssignFirst, AssignNext, ReceiveText, ReceiveFrame

LEMMA CopyFrame ==
  [Next]_vars => StartWorker \/ (\E w \in Workers : ChildStart(w)) \/ UNCHANGED copy
BY WorkersFrame DEF worker, ChildStep, Terminate, WaitPid, InterruptCall, ChildReceive,
  ChildAnalyze, ChildSend, ChildFinish, ChildKilled

\* Forking goes on from a flush or from the previous fork only.
LEMMA ForkingFrame ==
  [Next]_vars => \/ pc' \notin {"start", "assignFirst"}
                 \/ Flush
                 \/ pc \in {"start", "assignFirst"} /\ UNCHANGED csvBuffer
BY DEF Next, ParentStep, ChildStep, Environment, Terminated, vars, control, files, Enter,
  StartWorker, AssignFirst, AssignNextFault, SendIndex, Collect, Poll, Scan, ReceiveHeader,
  ReceiveText, ReceiveFrame, GiveUpReceiving, Accept, WriteRow, WriteResult, WriteCubeFile,
  AssignNext, SendStop, Terminate, CloseSocket, WaitPid, Finish, CloseCsv, Signal,
  InterruptCall, CallFails, ParentDeath, ChildStart, ChildReceive, ChildAnalyze, ChildSend,
  ChildFinish, ChildKilled

\* Flushing keeps the lines and their order.
LEMMA FlushKeepsOrder ==
  ASSUME FilesTypeOK, OutputInOrder, FlushCsv
  PROVE  /\ OutputInOrder'
         /\ Len(csvFile') + Len(csvBuffer') = Len(csvFile) + Len(csvBuffer)
         /\ csvFile' \o csvBuffer' = csvFile \o csvBuffer
<1> DEFINE Line == Faults \union {Header}
<1>1. csvFile \in Seq(Line) /\ csvBuffer \in Seq(Line)
  BY DEF FilesTypeOK
<1>2. csvFile' = csvFile \o csvBuffer /\ csvBuffer' = <<>>
  BY DEF FlushCsv
<1>3. /\ csvFile' \in Seq(Line)
      /\ Len(csvFile') = Len(csvFile) + Len(csvBuffer)
      /\ \A i \in 1 .. Len(csvFile) + Len(csvBuffer) :
           csvFile'[i] = IF i <= Len(csvFile) THEN csvFile[i] ELSE csvBuffer[i - Len(csvFile)]
  BY <1>1, <1>2, ConcatProperties
<1>4. Len(csvBuffer') = 0
  BY <1>2
<1>5. Len(csvFile) \in Nat /\ Len(csvBuffer) \in Nat
  BY <1>1, LenProperties
<1>6. ASSUME NEW i \in 1 .. Len(csvFile') PROVE csvFile'[i] = i - 2
  <2>1. CASE i <= Len(csvFile)
    BY <1>3, <1>5, <1>6, <2>1 DEF OutputInOrder
  <2>2. CASE ~(i <= Len(csvFile))
    <3>1. i - Len(csvFile) \in 1 .. Len(csvBuffer)
      BY <1>3, <1>5, <1>6, <2>2
    <3>2. csvBuffer[i - Len(csvFile)] = Len(csvFile) + (i - Len(csvFile)) - 2
      BY <3>1 DEF OutputInOrder
    <3> QED
      BY <1>3, <1>5, <2>2, <3>2
  <2> QED
    BY <2>1, <2>2
<1>7. csvFile' \o csvBuffer' = csvFile'
  BY <1>2, <1>3, ConcatEmptySeq
<1> QED
  BY <1>2, <1>3, <1>4, <1>5, <1>6, <1>7 DEF OutputInOrder

LEMMA InitOutput == Init => OutputInv
BY DEF Init, OutputInv, OutputInOrder

LEMMA NextOutput == TypeInv /\ OutputInv /\ [Next]_vars => OutputInv'
<1> SUFFICES ASSUME TypeInv, OutputInv, [Next]_vars PROVE OutputInv'
  OBVIOUS
<1> USE DEF TypeInv, TypeOK
<1> DEFINE Line == Faults \union {Header}
           Count == Len(csvFile) + Len(csvBuffer)
<1>1. csvFile \in Seq(Line) /\ csvBuffer \in Seq(Line)
  BY DEF FilesTypeOK
<1>2. OutputInOrder' /\ Count' = nextOutput' + 1
  <2>1. ASSUME FlushCsv, UNCHANGED nextOutput PROVE OutputInOrder' /\ Count' = nextOutput' + 1
    BY <2>1, FlushKeepsOrder DEF OutputInv
  <2>2. CASE Flush
    BY <2>1, <2>2 DEF Flush, pool, OutputInv, OutputInOrder
  <2>3. CASE WriteRow
    <3>1. /\ csvFile' = csvFile /\ nextOutput' = nextOutput + 1
          /\ csvBuffer' = Append(csvBuffer, nextOutput) /\ nextOutput \in Line
      BY <2>3 DEF WriteRow, PoolTypeOK
    <3>2. Len(csvFile) \in Nat /\ Len(csvBuffer) \in Nat
      BY <1>1, LenProperties
    <3>3. /\ Len(csvBuffer') = Len(csvBuffer) + 1
          /\ \A i \in 1 .. Len(csvBuffer) : csvBuffer'[i] = csvBuffer[i]
          /\ csvBuffer'[Len(csvBuffer) + 1] = nextOutput
      BY <1>1, <3>1, AppendProperties
    <3>4. nextOutput = Count - 1 /\ nextOutput \in Nat
      BY <3>2 DEF OutputInv, PoolTypeOK
    <3>5. ASSUME NEW i \in 1 .. Len(csvBuffer') PROVE csvBuffer'[i] = Len(csvFile') + i - 2
      <4>1. CASE i = Len(csvBuffer) + 1
        BY <3>1, <3>2, <3>3, <3>4, <4>1
      <4>2. CASE i # Len(csvBuffer) + 1
        BY <3>1, <3>2, <3>3, <3>5, <4>2 DEF OutputInv, OutputInOrder
      <4> QED
        BY <4>1, <4>2
    <3> QED
      BY <3>1, <3>2, <3>3, <3>4, <3>5 DEF OutputInv, OutputInOrder
  <2>4. CASE CloseCsv
    BY <2>1, <2>4 DEF CloseCsv, pool, OutputInv, OutputInOrder
  <2>5. ASSUME NEW w \in Workers, ChildStart(w) PROVE OutputInOrder' /\ Count' = nextOutput' + 1
    <3>1. csvFile' = csvFile /\ csvBuffer' = csvBuffer /\ nextOutput' = nextOutput
      BY <1>1, <2>5, ConcatEmptySeq DEF ChildStart, pool, OutputInv
    <3> QED
      BY <3>1 DEF OutputInv, OutputInOrder
  <2>6. CASE WriteCubeFile \/ UNCHANGED files
    <3>1. UNCHANGED <<csvFile, csvBuffer>>
      BY <2>6 DEF WriteCubeFile, files
    <3>2. CASE WriteRow
      BY <2>3, <3>2
    <3>3. CASE UNCHANGED nextOutput
      BY <3>1, <3>3 DEF OutputInv, OutputInOrder
    <3> QED
      BY <3>2, <3>3, OutputFrame
  <2> QED
    BY <2>2, <2>3, <2>4, <2>5, <2>6, FilesFrame
<1>3. (pc \in {"start", "assignFirst"} => csvBuffer = <<>>)'
  BY ForkingFrame DEF OutputInv, Flush, FlushCsv
<1>4. \A w \in Workers : copy'[w] = <<>>
  <2>1. CASE StartWorker
    BY <2>1 DEF StartWorker, OutputInv, WorkersTypeOK
  <2>2. ASSUME NEW v \in Workers, ChildStart(v) PROVE \A w \in Workers : copy'[w] = <<>>
    BY <2>2 DEF ChildStart, OutputInv, WorkersTypeOK
  <2> QED
    BY <2>1, <2>2, CopyFrame DEF OutputInv
<1> QED
  BY <1>2, <1>3, <1>4 DEF OutputInv

\* For any number of faults and workers the CSV keeps the order of the
\* faults: no completion order, and no buffer inherited over a fork, shows in it.
THEOREM OrderCorrect == Spec => []OutputInOrder
<1>1. Init => TypeInv /\ OutputInv
  BY InitType, InitOutput
<1>2. TypeInv /\ OutputInv /\ [Next]_vars => TypeInv' /\ OutputInv'
  BY NextType, NextOutput
<1>3. TypeInv /\ OutputInv => OutputInOrder
  BY DEF OutputInv
<1> QED
  BY <1>1, <1>2, <1>3, PTL DEF Spec
-----------------------------------------------------------------------------
(***************************************************************************)
(* What success means                                                      *)
(***************************************************************************)

\* From the first fault handed out to the last reply taken.
Collecting == {"enter", "flush", "start", "assignFirst", "collect", "poll", "scan",
               "header", "csv", "cubes"}
\* The labels before anything can have spoilt the run.
Running == Collecting \union {"write", "cubeFile", "stop"}
Closing == {"reap", "wait", "close", "returned"}

\* Cube files due for the rows written so far.
CubesDue == {f \in Saved : f < nextOutput /\ (pc = "cubeFile" => f # nextOutput - 1)}

\* Every result that arrived is written before the parent turns to anything
\* else, so once all have arrived all are written; and a run that is still
\* successful, or still running, has torn no row and missed no cube file.
SuccessInv ==
  /\ pc \in Collecting => nextOutput \notin ready
  /\ pc \in Running => succeeded
  /\ pc \in {"stop"} \union Closing /\ succeeded => nextOutput = FaultCount
  /\ pc # "terminate" /\ pc # "dead" /\ succeeded => ~torn /\ cubeFiles = CubesDue
  /\ pc = "returned" /\ succeeded => csvBuffer = <<>>

LEMMA InitSuccess == Init => SuccessInv
<1> SUFFICES ASSUME Init PROVE SuccessInv
  OBVIOUS
<1>1. pc = "enter" /\ nextOutput = 0 /\ ready = {} /\ succeeded /\ ~torn /\ cubeFiles = {}
  BY DEF Init
<1>2. \A f \in Saved : ~(f < 0)
  BY ConstantFacts DEF Faults
<1>3. CubesDue = {}
  BY <1>1, <1>2 DEF CubesDue
<1> QED
  BY <1>1, <1>3 DEF SuccessInv, Collecting, Running, Closing

\* When every fault has a result, none is missing.
LEMMA AllReady ==
  ASSUME PoolTypeOK, FaultCount = Cardinality(ready), nextOutput \notin ready
  PROVE  nextOutput = FaultCount
<1>1. IsFiniteSet(Faults) /\ Cardinality(Faults) = FaultCount
  BY FaultsFinite
<1>2. ready \in SUBSET Faults
  BY DEF PoolTypeOK
<1>3. ready = Faults
  BY <1>1, <1>2, FS_Subset
<1>4. nextOutput \notin Faults /\ nextOutput \in 0 .. FaultCount
  BY <1>3 DEF PoolTypeOK
<1> QED
  BY <1>4, ConstantFacts DEF Faults

LEMMA NextSuccess == TypeInv /\ SuccessInv /\ [Next]_vars => SuccessInv'
<1> SUFFICES ASSUME TypeInv, SuccessInv, [Next]_vars PROVE SuccessInv'
  OBVIOUS
<1> USE DEF Collecting, Running, Closing
<1>1. nextOutput \in 0 .. FaultCount /\ FaultCount \in Nat /\ Saved \subseteq Faults
  BY ConstantFacts DEF TypeInv, TypeOK, PoolTypeOK
<1>2. \A f \in Saved : f \in Int
  BY <1>1 DEF Faults
\* Steps that leave the results, the rows and the cube files alone.
<1>3. ASSUME UNCHANGED <<ready, nextOutput, torn, cubeFiles>>,
             pc # "cubeFile", pc' # "cubeFile"
      PROVE  CubesDue' = CubesDue
  BY <1>3 DEF CubesDue
<1>4. CASE Enter
  <2>1. FaultCount = 0 => nextOutput = FaultCount
    BY <1>1
  <2> QED
    BY <1>3, <1>4, <2>1 DEF Enter, SuccessInv, pool, files
<1>5. CASE Flush
  BY <1>3, <1>5 DEF Flush, SuccessInv, pool
<1>6. CASE StartWorker \/ Poll \/ Scan
  BY <1>3, <1>6 DEF StartWorker, Poll, Scan, SuccessInv, pool, files
<1>7. CASE AssignFirst
  BY <1>3, <1>7 DEF AssignFirst, AssignNextFault, SendIndex, SuccessInv, files
<1>8. CASE Collect
  <2>1. AllCompleted => nextOutput = FaultCount
    BY <1>8, AllReady DEF Collect, AllCompleted, SuccessInv, TypeInv, TypeOK, Control
  <2> QED
    BY <1>3, <1>8, <2>1 DEF Collect, SuccessInv, pool, files
<1>9. CASE ReceiveHeader
  BY <1>3, <1>9 DEF ReceiveHeader, ReceiveFrame, GiveUpReceiving, SuccessInv, files
<1>10. CASE ReceiveText
  <2>1. CubesDue' = CubesDue
    BY <1>10 DEF ReceiveText, ReceiveFrame, GiveUpReceiving, Accept, CubesDue
  <2> QED
    BY <1>10, <2>1 DEF ReceiveText, ReceiveFrame, GiveUpReceiving, Accept, SuccessInv, files
<1>11. CASE WriteRow
  <2>1. pc' # "terminate" => CubesDue' = CubesDue
    BY <1>1, <1>2, <1>11 DEF WriteRow, WriteResult, CubesDue
  <2> QED
    BY <1>11, <2>1 DEF WriteRow, WriteResult, SuccessInv
<1>12. CASE WriteCubeFile
  <2>1. nextOutput - 1 \in Saved
    BY <1>12 DEF WriteCubeFile, TypeInv, Control
  <2>2. CubesDue' = CubesDue \union {nextOutput - 1}
    BY <1>1, <1>2, <1>12, <2>1 DEF WriteCubeFile, CubesDue, pool
  <2> QED
    BY <1>12, <2>2 DEF WriteCubeFile, SuccessInv, pool
<1>13. CASE AssignNext
  BY <1>3, <1>13 DEF AssignNext, AssignNextFault, SendIndex, SuccessInv, files
<1>14. CASE SendStop
  BY <1>3, <1>14 DEF SendStop, SendIndex, SuccessInv, pool, files
<1>15. CASE Terminate \/ CloseSocket \/ WaitPid \/ Finish
  <2>1. CASE Terminate
    BY <2>1 DEF Terminate, SuccessInv, pool, files
  <2>2. CASE CloseSocket
    BY <1>3, <2>2 DEF CloseSocket, SuccessInv, pool, files
  <2>3. CASE WaitPid
    BY <1>3, <2>3 DEF WaitPid, Reap, SuccessInv, pool, files
  <2>4. CASE Finish
    BY <1>3, <2>4 DEF Finish, SuccessInv, pool, files
  <2> QED
    BY <1>15, <2>1, <2>2, <2>3, <2>4
<1>16. CASE CloseCsv
  BY <1>3, <1>16 DEF CloseCsv, FlushCsv, SuccessInv, pool
<1>17. CASE InterruptCall \/ CallFails
  BY <1>3, <1>17 DEF InterruptCall, CallFails, SuccessInv, pool, files
<1>18. CASE Signal \/ ParentDeath
  <2>1. CubesDue' = CubesDue \/ pc' = "dead"
    BY <1>18 DEF Signal, ParentDeath, control, pool, CubesDue
  <2> QED
    BY <1>18, <2>1 DEF Signal, ParentDeath, SuccessInv, control, pool, files, Handling, Blocking
<1>19. ASSUME UNCHANGED <<pc, succeeded, ready, nextOutput, torn, cubeFiles>>,
              csvBuffer = <<>> => csvBuffer' = <<>>
       PROVE  SuccessInv'
  BY <1>19 DEF SuccessInv, CubesDue
<1>20. CASE \E w \in Workers : ChildStep(w) \/ ChildKilled(w)
  BY <1>19, <1>20 DEF ChildStep, ChildStart, ChildReceive, ChildAnalyze, ChildSend, ChildFinish,
     ChildKilled, control, pool, files
<1>21. CASE UNCHANGED vars
  BY <1>19, <1>21 DEF vars, control, pool, files
<1> QED
  BY <1>4, <1>5, <1>6, <1>7, <1>8, <1>9, <1>10, <1>11, <1>12, <1>13, <1>14, <1>15, <1>16,
     <1>17, <1>18, <1>20, <1>21
  DEF Next, ParentStep, Environment, Terminated

\* A run that returns true has everything on disk, for any number of faults
\* and workers, whatever failed on the way.
THEOREM SuccessCorrect == Spec => []SuccessIsComplete
<1>1. Init => TypeInv /\ OutputInv /\ SuccessInv
  BY InitType, InitOutput, InitSuccess
<1>2. TypeInv /\ OutputInv /\ SuccessInv /\ [Next]_vars => TypeInv' /\ OutputInv' /\ SuccessInv'
  BY NextType, NextOutput, NextSuccess
<1>3. TypeInv /\ OutputInv /\ SuccessInv => SuccessIsComplete
  <2> SUFFICES ASSUME TypeInv, OutputInv, SuccessInv, pc = "returned", succeeded
               PROVE  Len(csvFile) = FaultCount + 1 /\ ~torn /\ cubeFiles = Saved
    BY DEF SuccessIsComplete
  <2>1. nextOutput = FaultCount /\ csvBuffer = <<>> /\ ~torn /\ cubeFiles = CubesDue
    BY DEF SuccessInv, Closing
  <2>2. CubesDue = Saved
    <3>1. \A f \in Saved : f < FaultCount
      BY ConstantFacts DEF Faults
    <3> QED
      BY <2>1, <3>1 DEF CubesDue
  <2>3. Len(csvFile) \in Nat
    BY LenProperties DEF TypeInv, TypeOK, FilesTypeOK
  <2> QED
    BY <2>1, <2>2, <2>3 DEF OutputInv
<1> QED
  BY <1>1, <1>2, <1>3, PTL DEF Spec
-----------------------------------------------------------------------------
(***************************************************************************)
(* The pool implements FaultReport                                         *)
(***************************************************************************)

Lines == csvFile \o csvBuffer
Outcome == IF pc # "returned" THEN "running" ELSE IF succeeded THEN "ok" ELSE "failed"

\* FaultPoolRun and the close after it return once.
LEMMA ReturnFrame ==
  [Next]_vars => \/ CloseCsv
                 \/ pc # "returned" /\ pc' # "returned"
                 \/ UNCHANGED <<pc, succeeded>>
BY DEF Next, ParentStep, ChildStep, Environment, Terminated, vars, control, Enter, Flush,
  StartWorker, AssignFirst, AssignNextFault, SendIndex, Collect, Poll, Scan, ReceiveHeader,
  ReceiveText, ReceiveFrame, GiveUpReceiving, Accept, WriteRow, WriteResult, WriteCubeFile,
  AssignNext, SendStop, Terminate, CloseSocket, WaitPid, Finish, Signal, InterruptCall,
  CallFails, ParentDeath, Handling, Blocking, ChildStart, ChildReceive, ChildAnalyze, ChildSend,
  ChildFinish, ChildKilled

LEMMA LinesLength ==
  ASSUME TypeInv, OutputInv
  PROVE  /\ Lines \in Seq(Faults \union {Header})
         /\ Len(Lines) - 1 = nextOutput
         /\ nextOutput \in 0 .. FaultCount
<1>1. csvFile \in Seq(Faults \union {Header}) /\ csvBuffer \in Seq(Faults \union {Header})
  BY DEF TypeInv, TypeOK, FilesTypeOK
<1>2. /\ Lines \in Seq(Faults \union {Header})
      /\ Len(Lines) = Len(csvFile) + Len(csvBuffer)
  BY <1>1, ConcatProperties DEF Lines
<1>3. nextOutput \in 0 .. FaultCount
  BY DEF TypeInv, TypeOK, PoolTypeOK
<1>4. Len(Lines) - 1 = nextOutput
  BY <1>2, <1>3, ConstantFacts DEF OutputInv
<1> QED
  BY <1>2, <1>3, <1>4

\* The lines grow by a row; every other step leaves them as they are.
LEMMA LinesNext ==
  TypeInv /\ OutputInv /\ [Next]_vars =>
    IF nextOutput' = nextOutput THEN Lines' = Lines ELSE Lines' = Append(Lines, nextOutput)
<1> SUFFICES ASSUME TypeInv, OutputInv, [Next]_vars
             PROVE  IF nextOutput' = nextOutput THEN Lines' = Lines
                    ELSE Lines' = Append(Lines, nextOutput)
  OBVIOUS
<1> USE DEF TypeInv, TypeOK
<1> DEFINE Line == Faults \union {Header}
<1>1. csvFile \in Seq(Line) /\ csvBuffer \in Seq(Line)
  BY DEF FilesTypeOK
<1>2. ASSUME FlushCsv PROVE Lines' = Lines
  BY <1>2, FlushKeepsOrder DEF OutputInv, Lines
<1>3. CASE WriteRow
  <2>1. nextOutput \in Line /\ nextOutput' # nextOutput
    BY <1>3 DEF WriteRow, PoolTypeOK
  <2>2. csvFile' = csvFile /\ csvBuffer' = Append(csvBuffer, nextOutput)
    BY <1>3 DEF WriteRow
  <2>3. csvFile \o Append(csvBuffer, nextOutput) = Append(csvFile \o csvBuffer, nextOutput)
    <3>1. <<nextOutput>> \in Seq(Line)
      BY <2>1
    <3>2. Append(csvBuffer, nextOutput) = csvBuffer \o <<nextOutput>>
      BY <1>1, <2>1, AppendIsConcat
    <3>3. csvFile \o csvBuffer \in Seq(Line)
      BY <1>1, ConcatProperties
    <3>4. Append(csvFile \o csvBuffer, nextOutput) = (csvFile \o csvBuffer) \o <<nextOutput>>
      BY <2>1, <3>3, AppendIsConcat
    <3> QED
      BY <1>1, <3>1, <3>2, <3>4, ConcatAssociative
  <2> QED
    BY <2>1, <2>2, <2>3 DEF Lines
<1>4. CASE Flush
  BY <1>2, <1>4 DEF Flush, pool, Lines
<1>5. CASE CloseCsv
  BY <1>2, <1>5 DEF CloseCsv, pool, Lines
<1>6. ASSUME NEW w \in Workers, ChildStart(w) PROVE Lines' = Lines /\ nextOutput' = nextOutput
  BY <1>1, <1>6, ConcatEmptySeq DEF ChildStart, pool, OutputInv, Lines
<1>7. CASE WriteCubeFile \/ UNCHANGED files
  BY <1>3, <1>7, OutputFrame DEF WriteCubeFile, files, Lines
<1> QED
  BY <1>3, <1>4, <1>5, <1>6, <1>7, FilesFrame DEF Flush, CloseCsv, pool

\* What a step of the report needs to know about the state.
LEMMA ReportState ==
  ASSUME TypeInv, OutputInv, SuccessInv
  PROVE  /\ Report!NextFault = nextOutput
         /\ pc \in {"write", "cubeFile", "close"} /\ succeeded =>
              ~torn /\ cubeFiles = CubesDue
         /\ cubeFiles = CubesDue /\ pc # "cubeFile" => Report!Settled
<1>1. Report!NextFault = nextOutput
  BY LinesLength DEF Report!NextFault, Lines
<1>2. pc \in {"write", "cubeFile", "close"} /\ succeeded => ~torn /\ cubeFiles = CubesDue
  BY DEF SuccessInv
<1>3. cubeFiles = CubesDue /\ pc # "cubeFile" => Report!Settled
  BY <1>1 DEF Report!Settled, CubesDue
<1> QED
  BY <1>1, <1>2, <1>3

LEMMA InitReport == Init => Report!Init
<1> SUFFICES ASSUME Init PROVE Report!Init
  OBVIOUS
<1>1. csvFile \o csvBuffer = <<Header>>
  <2>1. <<Header>> \in Seq(Faults \union {Header})
    OBVIOUS
  <2> QED
    BY <2>1, ConcatEmptySeq DEF Init
<1> QED
  BY <1>1, ConstantFacts DEF Init, Faults, Report!Init, Report!Header, Report!Faults

LEMMA NextReport ==
  TypeInv /\ OutputInv /\ SuccessInv /\ [Next]_vars => [Report!Next]_(Report!vars)
<1> SUFFICES ASSUME TypeInv, OutputInv, SuccessInv, [Next]_vars
             PROVE  [Report!Next]_(Report!vars)
  OBVIOUS
<1>1. nextOutput \in 0 .. FaultCount /\ FaultCount \in Nat
  BY LinesLength, ConstantFacts
<1>2. Outcome' = Outcome \/ CloseCsv
  BY ReturnFrame DEF Outcome
<1>3. CASE WriteRow
  <2>1. pc = "write" /\ pc' # "returned" /\ succeeded /\ nextOutput < FaultCount
    BY <1>3, <1>1
    DEF WriteRow, WriteResult, SuccessInv, Running, TypeInv, TypeOK, PoolTypeOK, Faults
  <2>2. nextOutput' = nextOutput + 1 /\ torn' \in BOOLEAN /\ cubeFiles' = cubeFiles
    BY <1>3 DEF WriteRow, WriteResult, TypeInv, TypeOK, FilesTypeOK
  <2>3. csvFile' \o csvBuffer' = Append(csvFile \o csvBuffer, nextOutput)
    BY <1>1, <2>2, LinesNext DEF Lines
  <2>4. Report!WriteRow
    BY <2>1, <2>2, <2>3, ReportState DEF Report!WriteRow
  <2> QED
    BY <2>4 DEF Report!Next
<1>4. CASE WriteCubeFile
  <2>1. csvFile' \o csvBuffer' = csvFile \o csvBuffer /\ torn' = torn
    BY <1>4 DEF WriteCubeFile
  <2>2. pc = "cubeFile" /\ pc' # "returned" /\ succeeded
    BY <1>4 DEF WriteCubeFile, SuccessInv, Running
  <2>3. CASE cubeFiles' = cubeFiles
    BY <2>1, <2>2, <2>3 DEF Report!vars
  <2>4. CASE cubeFiles' = cubeFiles \union {nextOutput - 1}
    <3>1. nextOutput - 1 \in Saved \ cubeFiles
      BY <1>4, <2>2, ReportState DEF WriteCubeFile, TypeInv, Control, CubesDue
    <3>2. Report!WriteCubes
      BY <2>1, <2>2, <2>4, <3>1, ReportState DEF Report!WriteCubes
    <3> QED
      BY <3>2 DEF Report!Next
  <2> QED
    BY <1>4, <2>3, <2>4 DEF WriteCubeFile
<1>5. CASE CloseCsv
  <2>1. nextOutput' = nextOutput /\ torn' = torn /\ cubeFiles' = cubeFiles
    BY <1>5 DEF CloseCsv, pool
  <2>2. csvFile' \o csvBuffer' = csvFile \o csvBuffer
    BY <2>1, LinesNext DEF Lines
  <2>3. CASE succeeded'
    <3>1. succeeded /\ nextOutput = FaultCount
      BY <1>5, <2>3 DEF CloseCsv, SuccessInv, Closing
    <3>2. Report!Succeed
      BY <1>5, <2>1, <2>2, <2>3, <3>1, ReportState DEF CloseCsv, Report!Succeed
    <3> QED
      BY <3>2 DEF Report!Next
  <2>4. CASE ~succeeded'
    <3>1. Len(Lines) \in 0 .. Len(Lines) /\ Lines = SubSeq(Lines, 1, Len(Lines))
      BY LinesLength, SubSeqFull
    <3>2. \E n \in 0 .. Len(Lines) : csvFile' \o csvBuffer' = SubSeq(Lines, 1, n)
      BY <2>2, <3>1 DEF Lines
    <3>3. torn' \in BOOLEAN
      BY <2>1 DEF TypeInv, TypeOK, FilesTypeOK
    <3>4. Report!Fail
      BY <1>5, <2>1, <2>4, <3>2, <3>3 DEF CloseCsv, Lines, Report!Fail
    <3> QED
      BY <3>4 DEF Report!Next
  <2> QED
    BY <2>3, <2>4
<1>6. ASSUME UNCHANGED <<nextOutput, torn, cubeFiles>>, ~CloseCsv
      PROVE  UNCHANGED Report!vars
  BY <1>2, <1>6, LinesNext DEF Report!vars, Lines, Outcome
<1>7. CASE Flush \/ \E w \in Workers : ChildStart(w)
  BY <1>5, <1>6, <1>7 DEF Flush, ChildStart, pool
<1>8. CASE UNCHANGED files
  BY <1>3, <1>5, <1>6, <1>8, OutputFrame DEF files
<1> QED
  BY <1>3, <1>4, <1>5, <1>7, <1>8, FilesFrame

\* The pool is an implementation of the report the serial loop promises: with
\* any number of workers its steps write what one process would have written.
THEOREM PoolImplementsReport == Spec => ImplementsReport
<1>1. Init => TypeInv /\ OutputInv /\ SuccessInv
  BY InitType, InitOutput, InitSuccess
<1>2. TypeInv /\ OutputInv /\ SuccessInv /\ [Next]_vars => TypeInv' /\ OutputInv' /\ SuccessInv'
  BY NextType, NextOutput, NextSuccess
<1> QED
  BY <1>1, <1>2, InitReport, NextReport, PTL DEF Spec, ImplementsReport, Report!Spec
-----------------------------------------------------------------------------
(***************************************************************************)
(* Pids                                                                    *)
(***************************************************************************)

\* The pids are those of the processes there are to wait for, and the loop of
\* wait_for_workers leaves none behind it.
ReapInv ==
  /\ \A w \in Workers : w \in pids <=> proc[w] \notin {"none", "reaped"}
  /\ pc \in {"enter", "close", "returned"} => pids = {}
  /\ pc \in {"reap", "wait"} => \A w \in pids : cursor <= w

\* A process is forked by StartWorker and goes with WaitPid; every other step
\* only takes it from one state to another.
LEMMA ProcessFrame ==
  ASSUME TypeInv, [Next]_vars
  PROVE  \/ StartWorker \/ WaitPid
         \/ /\ UNCHANGED pids
            /\ \A w \in Workers : proc'[w] \in {"none", "reaped"} <=> proc[w] \in {"none", "reaped"}
<1> DEFINE Gone(w) == proc[w] \in {"none", "reaped"}
<1>1. proc \in [Workers -> Alive \union Dead \union {"none", "reaped"}]
  BY DEF TypeInv, TypeOK, WorkersTypeOK
<1>2. ASSUME NEW w \in Workers, NEW how \in Dead, Exit(w, how), ~Gone(w)
      PROVE  \A v \in Workers : Gone(v)' <=> Gone(v)
  BY <1>1, <1>2 DEF Exit, Dead
<1>3. ASSUME TerminateWorkers PROVE \A v \in Workers : Gone(v)' <=> Gone(v)
  BY <1>1, <1>3 DEF TerminateWorkers, Alive
<1>4. ASSUME NEW w \in Workers, ChildStep(w) \/ ChildKilled(w)
      PROVE  UNCHANGED pids /\ \A v \in Workers : Gone(v)' <=> Gone(v)
  <2>1. UNCHANGED pids /\ ~Gone(w)
    BY <1>4 DEF ChildStep, ChildStart, ChildReceive, ChildAnalyze, ChildSend, ChildFinish,
                ChildKilled, Alive
  <2>2. CASE \E how \in Dead : Exit(w, how)
    BY <1>2, <2>1, <2>2
  <2>3. CASE ~ \E how \in Dead : Exit(w, how)
    <3>1. PICK state \in Alive : proc' = [proc EXCEPT ![w] = state]
      BY <1>4, <2>3 DEF ChildStep, ChildStart, ChildReceive, ChildAnalyze, ChildSend, ChildFinish,
                  ChildKilled, Alive, Dead
    <3> QED BY <1>1, <2>1, <3>1 DEF Alive
  <2> QED BY <2>1, <2>2, <2>3
<1>5. CASE Terminate
  BY <1>3, <1>5 DEF Terminate
<1>6. CASE InterruptCall
  BY <1>3, <1>6 DEF InterruptCall
<1>7. CASE UNCHANGED worker
  <2>1. UNCHANGED proc
    BY <1>7 DEF worker
  <2>2. StartWorker \/ WaitPid \/ UNCHANGED pids
    BY DEF Next, ParentStep, ChildStep, Environment, Terminated, vars, Enter, Flush, AssignFirst,
      Collect, Poll, Scan, ReceiveHeader, ReceiveText, ReceiveFrame, WriteRow, WriteCubeFile,
      AssignNext, SendStop, Terminate, CloseSocket, Finish, CloseCsv, Signal, InterruptCall,
      CallFails, ParentDeath, ChildStart, ChildReceive, ChildAnalyze, ChildSend, ChildFinish,
      ChildKilled
  <2> QED BY <2>1, <2>2
<1> QED BY <1>4, <1>5, <1>6, <1>7, WorkersFrame

LEMMA InitReap == Init => ReapInv
BY DEF Init, ReapInv

LEMMA NextReap == TypeInv /\ ReapInv /\ [Next]_vars => ReapInv'
<1> SUFFICES ASSUME TypeInv, ReapInv, [Next]_vars PROVE ReapInv'
  OBVIOUS
<1>1. /\ cursor \in Int /\ pids \subseteq Workers /\ Workers \subseteq Int
      /\ pc \in {"start", "wait"} => cursor \in Workers
      /\ proc \in [Workers -> Alive \union Dead \union {"none", "reaped"}]
  BY ConstantFacts DEF TypeInv, TypeOK, Control, AtWorker, ParentTypeOK, WorkersTypeOK, Workers
<1>2. \A w \in Workers : w \in pids' <=> proc'[w] \notin {"none", "reaped"}
  <2>1. CASE StartWorker
    <3>1. pc = "start" /\ cursor \in Workers
      BY <1>1, <2>1 DEF StartWorker
    <3> QED BY <1>1, <2>1, <3>1 DEF StartWorker, ReapInv
  <2>2. CASE WaitPid
    BY <1>1, <2>2 DEF WaitPid, Reap, ReapInv, Dead
  <2> QED BY <2>1, <2>2, ProcessFrame DEF ReapInv
<1>3. (pc \in {"enter", "close", "returned"} => pids = {})'
  <2>1. CASE Enter \/ CloseCsv
    BY <2>1 DEF Enter, CloseCsv, ReapInv
  <2>2. CASE Finish
    <3>1. pids' = pids /\ \A w \in pids : WorkerCount <= w
      BY <2>2 DEF Finish, ReapInv
    <3>2. \A w \in Workers : w < WorkerCount
      BY ConstantFacts DEF Workers
    <3> QED BY <1>1, <3>1, <3>2, ConstantFacts
  <2>3. CASE UNCHANGED <<control, pids>>
    BY <2>3 DEF control, ReapInv
  <2>4. ~(Enter \/ CloseCsv \/ Finish) =>
          pc' \notin {"enter", "close", "returned"} \/ UNCHANGED <<control, pids>>
    BY DEF Next, ParentStep, ChildStep, Environment, Terminated, vars, control, Flush,
      StartWorker, AssignFirst, AssignNextFault, SendIndex, Collect, Poll, Scan, ReceiveHeader,
      ReceiveText, GiveUpReceiving, Accept, WriteRow, WriteResult, WriteCubeFile,
      AssignNext, SendStop, Terminate, CloseSocket, WaitPid, Signal, InterruptCall,
      CallFails, ParentDeath, ChildStart, ChildReceive, ChildAnalyze, ChildSend, ChildFinish,
      ChildKilled
  <2> QED BY <2>1, <2>2, <2>3, <2>4
<1>4. (pc \in {"reap", "wait"} => \A w \in pids : cursor <= w)'
  <2>1. CASE SendStop \/ Terminate
    <3>1. pc' \in {"reap", "wait"} => cursor' = 0 /\ pids' = pids
      BY <2>1 DEF SendStop, SendIndex, Terminate
    <3>2. \A w \in Workers : 0 <= w
      BY ConstantFacts DEF Workers
    <3> QED BY <1>1, <3>1, <3>2
  <2>2. CASE CloseSocket
    BY <1>1, <2>2 DEF CloseSocket, Forked, ReapInv
  <2>3. CASE WaitPid
    BY <1>1, <2>3 DEF WaitPid, Reap, ReapInv
  <2>4. CASE UNCHANGED <<cursor, pids>> /\ pc \in {"reap", "wait"}
    BY <2>4 DEF ReapInv
  <2>5. ~(SendStop \/ Terminate \/ CloseSocket \/ WaitPid) =>
          pc' \notin {"reap", "wait"} \/ (UNCHANGED <<cursor, pids>> /\ pc \in {"reap", "wait"})
    BY DEF Next, ParentStep, ChildStep, Environment, Terminated, vars, control, Enter, Flush,
      StartWorker, AssignFirst, AssignNextFault, SendIndex, Collect, Poll, Scan, ReceiveHeader,
      ReceiveText, GiveUpReceiving, Accept, WriteRow, WriteResult, WriteCubeFile,
      AssignNext, Finish, CloseCsv, Signal, InterruptCall,
      CallFails, ParentDeath, ChildStart, ChildReceive, ChildAnalyze, ChildSend, ChildFinish,
      ChildKilled
  <2>6. CASE pc' \notin {"reap", "wait"}
    BY <2>6
  <2> QED BY <2>1, <2>2, <2>3, <2>4, <2>5, <2>6
<1> QED BY <1>2, <1>3, <1>4 DEF ReapInv

LEMMA ReapCorrect == Spec => []ReapInv
<1>1. TypeInv /\ ReapInv /\ [Next]_vars => TypeInv' /\ ReapInv'
  BY NextType, NextReap
<1> QED BY InitType, InitReap, <1>1, PTL DEF Spec

\* A pid the pool keeps is that of a process it has not waited for, for any
\* number of workers and any failures.
THEOREM PidsCorrect == Spec => []PidsAreOurs
<1>1. ReapInv /\ TypeInv => PidsAreOurs
  BY DEF ReapInv, PidsAreOurs, TypeInv, TypeOK, ParentTypeOK
<1>2. Spec => []TypeInv
  BY InitType, NextType, PTL DEF Spec
<1> QED BY ReapCorrect, <1>1, <1>2, PTL

\* The pool returns only when it has waited for every worker it forked.
THEOREM ReapedCorrect == Spec => []AllReaped
<1>1. ReapInv => AllReaped
  BY DEF ReapInv, AllReaped
<1> QED BY ReapCorrect, <1>1, PTL
-----------------------------------------------------------------------------
(***************************************************************************)
(* Hand-out                                                                *)
(***************************************************************************)

\* Labels from which the parent still hands out or accepts.
Serving == {"enter", "flush", "start", "assignFirst", "collect", "poll", "scan", "header",
            "csv", "cubes", "write", "cubeFile"}

\* Labels before which no worker at cursor or above has a task.
Forking == {"enter", "flush", "start", "assignFirst"}

\* Parts of the reply of w that the parent has read without accepting it yet.
Consumed(w) ==
  IF cursor # w THEN 0 ELSE IF pc = "csv" THEN 1 ELSE IF pc = "cubes" THEN 2 ELSE 0

ReplySize(f) == IF f \in Saved THEN 3 ELSE 2

\* Tasks are faults handed out, each to one worker, and so are the results.
TasksApart ==
  /\ \A w \in Workers : task[w] # NoFault => task[w] < nextFault
  /\ \A f \in ready : f < nextFault
  /\ \A v, w \in Workers : v # w /\ task[v] = task[w] => task[v] = NoFault

\* What worker w has in hand is its task, and the task is not done.
Busy(w) == proc[w] \in {"work", "send"} \/ (toChild[w] # <<>> /\ toChild[w][1] # NoFault)
BusyWithTask(w) ==
  /\ Busy(w) => task[w] \in Faults \ ready
  /\ proc[w] \in {"work", "send"} => job[w] = task[w]

\* At most one fault is on its way to worker w, before any stop request.
ToldOnce(w) ==
  /\ \A i \in 1 .. Len(toChild[w]) : toChild[w][i] \in {NoFault, task[w]}
  /\ \A i \in 2 .. Len(toChild[w]) : toChild[w][i] = NoFault
  /\ toChild[w] # <<>> /\ toChild[w][1] # NoFault => proc[w] \notin {"work", "send"}

\* The parts worker w sends and has sent are those of its task.
PartsOfTask(w) ==
  /\ outbox[w] # <<>> <=> proc[w] = "send"
  /\ \A i \in 1 .. Len(outbox[w]) : outbox[w][i].fault = task[w]
  /\ \A i \in 1 .. Len(toParent[w]) : toParent[w][i].fault = task[w]

\* No part is on its way before the task is analysed.
NoEarlyParts(w) ==
  proc[w] = "work" \/ (toChild[w] # <<>> /\ toChild[w][1] # NoFault) => toParent[w] = <<>>

\* While the parent serves, one reply is under way at most.
OneReply(w) ==
  pc \in Serving =>
    /\ \A i \in 1 .. Len(toChild[w]) : toChild[w][i] # NoFault
    /\ Consumed(w) + Len(toParent[w]) + Len(outbox[w]) <= ReplySize(task[w])
    /\ proc[w] = "work" \/ toChild[w] # <<>> => Consumed(w) = 0

\* A worker that has not been given its first fault.
Fresh(w) ==
  /\ task[w] = NoFault /\ toChild[w] = <<>> /\ toParent[w] = <<>>
  /\ proc[w] \notin {"work", "send"}

\* The state of worker w, its socket and its task agree.
WorkerOK(w) ==
  BusyWithTask(w) /\ ToldOnce(w) /\ PartsOfTask(w) /\ NoEarlyParts(w) /\ OneReply(w)

\* The inductive invariant.
HandOutInv ==
  /\ TasksApart
  /\ \A w \in Workers : WorkerOK(w)
  /\ pc \in Forking => \A w \in Workers : cursor <= w => Fresh(w)
  /\ pc \in {"write", "cubeFile"} => task[cursor] \in ready /\ toParent[cursor] = <<>>

\* What TypeInv says of the variables the hand-out is about.
LEMMA HandOutTypes ==
  ASSUME TypeInv
  PROVE  /\ task \in [Workers -> Faults \union {NoFault}]
         /\ job \in [Workers -> Faults \union {NoFault}]
         /\ ready \subseteq Faults /\ nextFault \in 0 .. FaultCount
         /\ proc \in [Workers -> Alive \union Dead \union {"none", "reaped"}]
         /\ outbox \in [Workers -> Seq(Parts)] /\ toParent \in [Workers -> Seq(Parts)]
         /\ toChild \in [Workers -> Seq(Faults \union {NoFault})]
         /\ cursor \in Int /\ Workers \subseteq Int /\ Faults \subseteq Nat
BY ConstantFacts DEF TypeInv, TypeOK, ParentTypeOK, PoolTypeOK, WorkersTypeOK, SocketsTypeOK,
   Workers, Faults

LEMMA InitHandOut == Init => HandOutInv
<1> SUFFICES ASSUME Init PROVE HandOutInv
  OBVIOUS
<1> USE DEF Init
<1>1. TasksApart
  <2>1. /\ \A w \in Workers : task[w] = NoFault
        /\ ready = {} /\ nextFault = 0
    OBVIOUS
  <2> QED BY <2>1 DEF TasksApart
<1>2. ASSUME NEW w \in Workers
      PROVE  WorkerOK(w) /\ Fresh(w)
  <2>1. /\ task[w] = NoFault /\ toChild[w] = <<>> /\ toParent[w] = <<>> /\ outbox[w] = <<>>
        /\ proc[w] = "none" /\ Consumed(w) = 0
    BY DEF Consumed
  <2>2. BusyWithTask(w) /\ ToldOnce(w) /\ PartsOfTask(w)
    BY <2>1 DEF BusyWithTask, Busy, ToldOnce, PartsOfTask
  <2> QED BY <2>1, <2>2 DEF WorkerOK, NoEarlyParts, OneReply, Fresh, ReplySize
<1> QED BY <1>1, <1>2 DEF HandOutInv

\* The parent goes on serving, reading a reply or writing results only where it was.
SamePlace ==
  /\ pc' \in Serving => pc \in Serving
  /\ pc' \in {"csv", "cubes"} => pc' = pc /\ cursor' = cursor
  /\ pc' \in {"write", "cubeFile"} => pc \in {"write", "cubeFile"} /\ cursor' = cursor
  /\ pc' \in Forking => pc \in Forking /\ cursor <= cursor'

\* The same for worker w, after a step that is not its own.
NotMine(w) ==
  /\ pc' \in Serving => pc \in Serving
  /\ Consumed(w)' \in {0, Consumed(w)}
  /\ toChild'[w] = toChild[w] /\ toParent'[w] = toParent[w]
  /\ task'[w] = task[w] /\ job'[w] = job[w]
  /\ task[w] \notin ready' \ ready

\* Worker w goes on with what it does, or stops doing it.
GoesOnOrStops(w) ==
  \/ proc'[w] = proc[w] /\ outbox'[w] = outbox[w]
  \/ proc'[w] \notin {"work", "send"} /\ outbox'[w] = <<>>

LEMMA ConsumedType == \A w : Consumed(w) \in {0, 1, 2}
BY DEF Consumed

LEMMA WorkerKept ==
  ASSUME TypeInv, NEW w \in Workers, WorkerOK(w), NotMine(w), GoesOnOrStops(w)
  PROVE  WorkerOK(w)'
<1>1. BusyWithTask(w) /\ ToldOnce(w) /\ PartsOfTask(w) /\ NoEarlyParts(w) /\ OneReply(w)
  BY DEF WorkerOK
<1>2. \/ proc'[w] = proc[w] /\ outbox'[w] = outbox[w]
      \/ proc'[w] \notin {"work", "send"} /\ outbox'[w] = <<>>
  BY DEF GoesOnOrStops
<1>3. /\ toChild'[w] = toChild[w] /\ toParent'[w] = toParent[w]
      /\ task'[w] = task[w] /\ job'[w] = job[w]
      /\ task[w] \notin ready' \ ready
  BY DEF NotMine
<1>4. BusyWithTask(w)'
  BY <1>1, <1>2, <1>3 DEF BusyWithTask, Busy
<1>5. ToldOnce(w)'
  BY <1>1, <1>2, <1>3 DEF ToldOnce
<1>6. PartsOfTask(w)'
  BY <1>1, <1>2, <1>3 DEF PartsOfTask
<1>7. NoEarlyParts(w)'
  BY <1>1, <1>2, <1>3 DEF NoEarlyParts
<1>8. OneReply(w)'
  <2> SUFFICES ASSUME pc' \in Serving
               PROVE  /\ \A i \in 1 .. Len(toChild[w]) : toChild[w][i] # NoFault
                      /\ Consumed(w)' + Len(toParent[w]) + Len(outbox'[w]) <= ReplySize(task[w])
                      /\ proc'[w] = "work" \/ toChild[w] # <<>> => Consumed(w)' = 0
    BY <1>3 DEF OneReply, ReplySize
  <2>1. /\ \A i \in 1 .. Len(toChild[w]) : toChild[w][i] # NoFault
        /\ Consumed(w) + Len(toParent[w]) + Len(outbox[w]) <= ReplySize(task[w])
        /\ proc[w] = "work" \/ toChild[w] # <<>> => Consumed(w) = 0
    BY <1>1 DEF OneReply, NotMine
  <2>2. Consumed(w)' \in {0, Consumed(w)} /\ Consumed(w) \in {0, 1, 2}
    BY ConsumedType DEF NotMine
  <2>3. Len(toParent[w]) \in Nat /\ Len(outbox[w]) \in Nat /\ ReplySize(task[w]) \in Nat
    BY HandOutTypes, LenProperties DEF ReplySize
  <2>4. Len(outbox'[w]) \in {0, Len(outbox[w])}
    BY <1>2
  <2>5. Consumed(w)' + Len(toParent[w]) + Len(outbox'[w]) <= ReplySize(task[w])
    BY <2>1, <2>2, <2>3, <2>4
  <2> QED BY <1>2, <2>1, <2>2, <2>5
<1> QED BY <1>4, <1>5, <1>6, <1>7, <1>8 DEF WorkerOK

\* A step that leaves the tasks alone and at most stops workers.
Quiet ==
  /\ SamePlace
  /\ UNCHANGED <<task, ready, nextFault, toChild, toParent, job>>
  /\ \A w \in Workers : GoesOnOrStops(w)

LEMMA QuietKeeps ==
  ASSUME TypeInv, TypeInv', HandOutInv, Quiet
  PROVE  HandOutInv'
<1>1. TasksApart'
  BY DEF TasksApart, Quiet, HandOutInv
<1>2. ASSUME NEW w \in Workers PROVE WorkerOK(w)'
  <2>1. Consumed(w)' \in {0, Consumed(w)}
    BY DEF Quiet, SamePlace, Consumed
  <2>2. NotMine(w) /\ GoesOnOrStops(w)
    BY <2>1 DEF Quiet, SamePlace, NotMine
  <2> QED BY <2>2, WorkerKept DEF HandOutInv
<1>3. (pc \in Forking => \A w \in Workers : cursor <= w => Fresh(w))'
  <2> SUFFICES ASSUME pc' \in Forking, NEW w \in Workers, cursor' <= w PROVE Fresh(w)'
    OBVIOUS
  <2>1. cursor \in Int /\ cursor' \in Int /\ w \in Int
    BY HandOutTypes, ConstantFacts DEF TypeInv, TypeOK, ParentTypeOK
  <2>2. pc \in Forking /\ cursor <= w
    BY <2>1 DEF Quiet, SamePlace
  <2>3. Fresh(w)
    BY <2>2 DEF HandOutInv, Forking
  <2> QED BY <2>3 DEF Fresh, Quiet, GoesOnOrStops
<1>4. (pc \in {"write", "cubeFile"} => task[cursor] \in ready /\ toParent[cursor] = <<>>)'
  BY DEF SamePlace, Quiet, HandOutInv
<1> QED BY <1>1, <1>2, <1>3, <1>4 DEF HandOutInv, Forking

\* If something is left behind the head, there is a second element.
LEMMA SecondPlace ==
  ASSUME NEW whole \in Nat, NEW rest, rest = whole - 1, whole > 0, rest # 0
  PROVE  1 \in 1 .. rest /\ 2 \in 1 .. whole
OBVIOUS

\* A worker starts on the fault it was told, or on the way out.
LEMMA ReceiveKeeps ==
  ASSUME TypeInv, HandOutInv, NEW w \in Workers, ChildReceive(w), ~Exit(w, "exit1")
  PROVE  HandOutInv'
<1> DEFINE s == toChild[w]
           index == s[1]
<1>1. /\ proc[w] = "recv" /\ s # <<>>
      /\ proc' = [proc EXCEPT ![w] = IF index = NoFault THEN "finish" ELSE "work"]
      /\ job' = [job EXCEPT ![w] = index]
      /\ toChild' = [toChild EXCEPT ![w] = Tail(@)]
      /\ UNCHANGED <<control, task, ready, nextFault, outbox, toParent>>
  BY DEF ChildReceive, pool
<1>2. /\ Len(s) \in Nat /\ Len(s) > 0 /\ Len(Tail(s)) = Len(s) - 1
      /\ \A i \in 1 .. Len(Tail(s)) : Tail(s)[i] = s[i + 1]
  BY <1>1, HandOutTypes, HeadTailProperties, LenProperties, EmptySeq
<1>3. WorkerOK(w)
  BY DEF HandOutInv
<1>4. \A i \in 1 .. Len(Tail(s)) : Tail(s)[i] = NoFault
  BY <1>2, <1>3 DEF WorkerOK, ToldOnce
<1>5. /\ toChild'[w] = Tail(s) /\ job'[w] = index
      /\ proc'[w] = IF index = NoFault THEN "finish" ELSE "work"
  BY <1>1, HandOutTypes
<1>6. Tail(s) # <<>> => Tail(s)[1] = NoFault
  <2>1. Tail(s) \in Seq(Faults \union {NoFault})
    BY <1>1, HandOutTypes, HeadTailProperties
  <2>2. Tail(s) # <<>> => Len(Tail(s)) >= 1
    BY <2>1
  <2>3. Tail(s) # <<>> => 1 \in 1 .. Len(Tail(s))
    BY <1>2, <2>2
  <2> HIDE DEF s
  <2> QED BY <1>4, <2>3
<1>7. index \in {NoFault, task[w]} /\ (index # NoFault => task[w] \in Faults \ ready)
  BY <1>1, <1>2, <1>3 DEF WorkerOK, ToldOnce, BusyWithTask, Busy
<1>8. outbox[w] = <<>> /\ (index # NoFault => toParent[w] = <<>>)
  BY <1>1, <1>3 DEF WorkerOK, PartsOfTask, NoEarlyParts
<1> HIDE DEF s, index
<1>9. WorkerOK(w)'
  <2>1. BusyWithTask(w)'
    <3>1. Busy(w)' => index # NoFault
      BY <1>5, <1>6 DEF Busy
    <3>2. proc'[w] \in {"work", "send"} => index # NoFault
      BY <1>5
    <3> QED BY <1>1, <1>5, <1>7, <3>1, <3>2 DEF BusyWithTask
  <2>2. ToldOnce(w)'
    <3>1. toChild'[w] # <<>> => toChild'[w][1] = NoFault
      BY <1>5, <1>6
    <3>2. \A i \in 1 .. Len(toChild'[w]) : toChild'[w][i] = NoFault
      BY <1>4, <1>5
    <3>3. \A i \in 2 .. Len(toChild'[w]) : i \in 1 .. Len(toChild'[w])
      BY <1>2, <1>5
    <3> QED BY <3>1, <3>2, <3>3 DEF ToldOnce
  <2>3. PartsOfTask(w)'
    BY <1>1, <1>3, <1>5, <1>8 DEF WorkerOK, PartsOfTask
  <2>4. NoEarlyParts(w)'
    BY <1>1, <1>5, <1>6, <1>8 DEF NoEarlyParts
  <2>5. OneReply(w)'
    <3> SUFFICES ASSUME pc \in Serving PROVE OneReply(w)'
      BY <1>1 DEF OneReply, control
    <3>1. /\ \A i \in 1 .. Len(s) : s[i] # NoFault
          /\ Consumed(w) + Len(toParent[w]) + Len(outbox[w]) <= ReplySize(task[w])
          /\ Consumed(w) = 0
      BY <1>1, <1>3 DEF WorkerOK, OneReply, s
    <3>2. Len(Tail(s)) = 0
      <4> SUFFICES ASSUME Len(Tail(s)) # 0 PROVE FALSE
        OBVIOUS
      <4>1. 1 \in 1 .. Len(Tail(s)) /\ 2 \in 1 .. Len(s)
        BY <1>2, SecondPlace
      <4>2. Tail(s)[1] = NoFault
        BY <1>4, <4>1
      <4>3. Tail(s)[1] = s[1 + 1] /\ 1 + 1 = 2
        BY <1>2, <4>1
      <4>4. s[2] # NoFault
        BY <3>1, <4>1
      <4> QED BY <4>2, <4>3, <4>4
    <3>3. Consumed(w)' = Consumed(w)
      BY <1>1 DEF Consumed, control
    <3>4. /\ \A i \in 1 .. Len(toChild'[w]) : toChild'[w][i] # NoFault
      BY <1>5, <3>2
    <3> QED BY <1>1, <3>1, <3>3, <3>4 DEF OneReply, ReplySize
  <2> QED BY <2>1, <2>2, <2>3, <2>4, <2>5 DEF WorkerOK
<1>10. ASSUME NEW v \in Workers, v # w PROVE WorkerOK(v)'
  <2>1. toChild'[v] = toChild[v] /\ job'[v] = job[v] /\ proc'[v] = proc[v]
    BY <1>1, <1>10, HandOutTypes
  <2>2. NotMine(v) /\ GoesOnOrStops(v)
    BY <1>1, <2>1 DEF NotMine, GoesOnOrStops, Consumed, control
  <2> QED BY <2>2, WorkerKept DEF HandOutInv
<1>11. TasksApart'
  BY <1>1 DEF HandOutInv, TasksApart
<1>12. ASSUME pc \in Forking, NEW v \in Workers, cursor <= v PROVE Fresh(v)'
  <2>1. Fresh(v)
    BY <1>12 DEF HandOutInv, Forking
  <2>2. v # w
    BY <1>1, <2>1 DEF Fresh, s
  <2>3. toChild'[v] = toChild[v] /\ proc'[v] = proc[v]
    BY <1>1, <2>2, HandOutTypes
  <2> QED BY <1>1, <2>1, <2>3 DEF Fresh
<1> QED BY <1>1, <1>9, <1>10, <1>11, <1>12 DEF HandOutInv, Forking, control

LEMMA ReplyParts ==
  ASSUME NEW f \in Faults, NEW ok \in BOOLEAN
  PROVE  /\ Reply(f, ok) # <<>> /\ Len(Reply(f, ok)) <= ReplySize(f)
         /\ \A i \in 1 .. Len(Reply(f, ok)) : Reply(f, ok)[i].fault = f
<1> DEFINE p == Part("header", f, TRUE)
           q == Part("csv", f, TRUE)
           r == Part("cubes", f, TRUE)
           failed == Part("header", f, FALSE)
<1>1. p.fault = f /\ q.fault = f /\ r.fault = f /\ failed.fault = f
  BY DEF Part
<1>2. Reply(f, ok) = IF ~ok THEN <<failed>> ELSE <<p, q>> \o (IF f \in Saved THEN <<r>> ELSE <<>>)
  BY DEF Reply
<1> HIDE DEF p, q, r, failed
<1> DEFINE S == {p, q, r}
           rest == IF f \in Saved THEN <<r>> ELSE <<>>
<1>3. <<p, q>> \in Seq(S) /\ Len(<<p, q>>) = 2 /\ \A i \in 1 .. 2 : <<p, q>>[i] \in {p, q}
  OBVIOUS
<1> HIDE DEF rest
<1>4. rest \in Seq(S) /\ Len(rest) = ReplySize(f) - 2 /\ (f \in Saved => rest[1] = r)
  <2>1. CASE f \in Saved
    <3>1. rest = <<r>> /\ ReplySize(f) = 3
      BY <2>1 DEF ReplySize, rest
    <3>2. <<r>> \in Seq(S) /\ Len(<<r>>) = 1 /\ <<r>>[1] = r
      OBVIOUS
    <3> HIDE DEF S
    <3>3. Len(rest) = ReplySize(f) - 2
      BY <3>1, <3>2
    <3> QED BY <3>1, <3>2, <3>3
  <2>2. CASE f \notin Saved
    <3>1. rest = <<>> /\ ReplySize(f) = 2
      BY <2>2 DEF ReplySize, rest
    <3> QED BY <2>2, <3>1, EmptySeq
  <2> QED BY <2>1, <2>2
<1>5. ReplySize(f) \in {2, 3} /\ (f \in Saved <=> ReplySize(f) = 3)
  BY DEF ReplySize
<1>6. CASE ok
  <2>1. Reply(f, ok) = <<p, q>> \o rest
    BY <1>2, <1>6 DEF rest
  <2>2. /\ Len(Reply(f, ok)) = ReplySize(f)
        /\ \A i \in 1 .. ReplySize(f) :
             Reply(f, ok)[i] = IF i <= 2 THEN <<p, q>>[i] ELSE rest[i - 2]
    BY <1>3, <1>4, <1>5, <2>1, ConcatProperties
  <2>3. \A i \in 1 .. ReplySize(f) : Reply(f, ok)[i] \in {p, q, r}
    <3> SUFFICES ASSUME NEW i \in 1 .. ReplySize(f) PROVE Reply(f, ok)[i] \in {p, q, r}
      OBVIOUS
    <3>1. CASE i <= 2
      BY <1>3, <1>5, <2>2, <3>1
    <3>2. CASE ~(i <= 2)
      <4>1. i = 3 /\ f \in Saved
        BY <1>5, <3>2
      <4> QED BY <1>4, <2>2, <4>1
    <3> QED BY <3>1, <3>2
  <2> QED BY <1>1, <1>5, <2>2, <2>3
<1>7. CASE ~ok
  BY <1>1, <1>2, <1>5, <1>7
<1> QED BY <1>6, <1>7

\* The reply of a worker is that of its task.
LEMMA AnalyzeKeeps ==
  ASSUME TypeInv, HandOutInv, NEW w \in Workers, ChildAnalyze(w), ~Exit(w, "exit1")
  PROVE  HandOutInv'
<1>1. PICK ok \in BOOLEAN : outbox' = [outbox EXCEPT ![w] = Reply(job[w], ok)]
  BY DEF ChildAnalyze
<1>2. /\ proc[w] = "work" /\ proc' = [proc EXCEPT ![w] = "send"]
      /\ UNCHANGED <<control, task, ready, nextFault, job, toChild, toParent>>
  BY DEF ChildAnalyze, pool
<1>3. WorkerOK(w)
  BY DEF HandOutInv
<1>4. job[w] = task[w] /\ task[w] \in Faults \ ready
  BY <1>2, <1>3 DEF WorkerOK, BusyWithTask, Busy
<1> DEFINE reply == Reply(task[w], ok)
<1>5. outbox'[w] = reply /\ proc'[w] = "send"
  BY <1>1, <1>2, <1>4, HandOutTypes
<1>6. /\ reply # <<>> /\ Len(reply) <= ReplySize(task[w])
      /\ \A i \in 1 .. Len(reply) : reply[i].fault = task[w]
  BY <1>4, ReplyParts
<1>7. toParent[w] = <<>> /\ (toChild[w] # <<>> => toChild[w][1] = NoFault)
  BY <1>2, <1>3 DEF WorkerOK, NoEarlyParts, ToldOnce
<1> HIDE DEF reply
<1>8. WorkerOK(w)'
  <2>1. BusyWithTask(w)'
    BY <1>2, <1>4, <1>5 DEF BusyWithTask, Busy
  <2>2. ToldOnce(w)'
    BY <1>2, <1>3, <1>7 DEF WorkerOK, ToldOnce
  <2>3. PartsOfTask(w)'
    BY <1>2, <1>5, <1>6, <1>7 DEF PartsOfTask
  <2>4. NoEarlyParts(w)'
    BY <1>2, <1>7 DEF NoEarlyParts
  <2>5. OneReply(w)'
    <3> SUFFICES ASSUME pc \in Serving PROVE OneReply(w)'
      BY <1>2 DEF OneReply, control
    <3>1. (\A i \in 1 .. Len(toChild[w]) : toChild[w][i] # NoFault) /\ Consumed(w) = 0
      BY <1>2, <1>3 DEF WorkerOK, OneReply
    <3>2. Consumed(w)' = 0 /\ Len(toParent[w]) = 0
      BY <1>2, <1>7, <3>1 DEF Consumed, control
    <3>3. Len(reply) \in Nat /\ ReplySize(task[w]) \in Nat
      BY <1>4, ReplyType, LenProperties DEF reply, ReplySize
    <3>4. Consumed(w)' + Len(toParent[w]) + Len(reply) <= ReplySize(task[w])
      BY <1>6, <3>2, <3>3
    <3>5. Consumed(w)' + Len(toParent'[w]) + Len(outbox'[w]) <= ReplySize(task'[w])
      BY <1>2, <1>5, <3>4
    <3> QED BY <1>2, <3>1, <3>2, <3>5 DEF OneReply, ReplySize
  <2> QED BY <2>1, <2>2, <2>3, <2>4, <2>5 DEF WorkerOK
<1>9. ASSUME NEW v \in Workers, v # w PROVE WorkerOK(v)'
  <2>1. outbox'[v] = outbox[v] /\ proc'[v] = proc[v]
    BY <1>1, <1>2, <1>9, HandOutTypes
  <2>2. NotMine(v) /\ GoesOnOrStops(v)
    BY <1>2, <2>1 DEF NotMine, GoesOnOrStops, Consumed, control
  <2> QED BY <2>2, WorkerKept DEF HandOutInv
<1>10. TasksApart'
  BY <1>2 DEF HandOutInv, TasksApart
<1>11. ASSUME pc \in Forking, NEW v \in Workers, cursor <= v PROVE Fresh(v)'
  <2>1. Fresh(v)
    BY <1>11 DEF HandOutInv, Forking
  <2>2. v # w
    BY <1>2, <2>1 DEF Fresh
  <2>3. proc'[v] = proc[v]
    BY <1>2, <2>2, HandOutTypes
  <2> QED BY <1>2, <2>1, <2>3 DEF Fresh
<1> QED BY <1>2, <1>8, <1>9, <1>10, <1>11 DEF HandOutInv, Forking, control

\* A part goes from the worker to the socket.
LEMMA SendKeeps ==
  ASSUME TypeInv, HandOutInv, NEW w \in Workers, ChildSend(w),
         UNCHANGED toParent => ~Exit(w, "exit1")
  PROVE  HandOutInv'
<1> DEFINE out == outbox[w]
           sent == toParent[w]
<1>1. /\ proc[w] = "send" /\ out # <<>>
      /\ toParent' = [toParent EXCEPT ![w] = Append(@, Head(out))]
      /\ UNCHANGED <<control, task, ready, nextFault, job, toChild>>
  BY DEF ChildSend, pool
<1>2. \/ proc'[w] \notin {"work", "send"} /\ outbox'[w] = <<>>
      \/ /\ outbox'[w] = Tail(out)
         /\ proc'[w] = IF Tail(out) = <<>> THEN "recv" ELSE "send"
  <2>1. CASE Exit(w, "exit1")
    BY <2>1, HandOutTypes DEF Exit
  <2>2. CASE ~Exit(w, "exit1")
    BY <1>1, <2>2, HandOutTypes DEF ChildSend
  <2> QED BY <2>1, <2>2
<1>3. \A v \in Workers : v # w => /\ proc'[v] = proc[v] /\ outbox'[v] = outbox[v]
                                  /\ toParent'[v] = toParent[v]
  <2>1. \A v \in Workers : v # w => proc'[v] = proc[v] /\ outbox'[v] = outbox[v]
    <3>1. CASE Exit(w, "exit1")
      BY <3>1, HandOutTypes DEF Exit
    <3>2. CASE ~Exit(w, "exit1")
      BY <1>1, <3>2, HandOutTypes DEF ChildSend
    <3> QED BY <3>1, <3>2
  <2> QED BY <1>1, <2>1, HandOutTypes
<1>4. out \in Seq(Parts) /\ sent \in Seq(Parts) /\ toParent'[w] = Append(sent, Head(out))
  BY <1>1, HandOutTypes
<1>5. /\ Len(out) \in Nat /\ Len(out) > 0 /\ Len(sent) \in Nat
      /\ Head(out) = out[1] /\ Head(out) \in Parts
      /\ Tail(out) \in Seq(Parts) /\ Len(Tail(out)) = Len(out) - 1
      /\ \A i \in 1 .. Len(Tail(out)) : Tail(out)[i] = out[i + 1]
  BY <1>1, <1>4, HeadTailProperties, LenProperties, EmptySeq
<1>6. /\ Len(Append(sent, Head(out))) = Len(sent) + 1
      /\ \A i \in 1 .. Len(sent) : Append(sent, Head(out))[i] = sent[i]
      /\ Append(sent, Head(out))[Len(sent) + 1] = Head(out)
  BY <1>4, <1>5, AppendProperties
<1>7. WorkerOK(w)
  BY DEF HandOutInv
<1>8. Len(outbox'[w]) \in 0 .. Len(out) - 1
  <2>1. Len(Tail(out)) \in 0 .. Len(out) - 1 /\ 0 \in 0 .. Len(out) - 1
    BY <1>5
  <2>2. CASE outbox'[w] = <<>>
    BY <2>1, <2>2
  <2>3. CASE outbox'[w] = Tail(out)
    BY <2>1, <2>3
  <2> QED BY <1>2, <2>2, <2>3
<1> HIDE DEF out, sent
<1>9. WorkerOK(w)'
  <2>1. BusyWithTask(w)'
    <3>1. Busy(w) /\ job[w] = task[w] /\ task[w] \in Faults \ ready
      BY <1>1, <1>7 DEF WorkerOK, BusyWithTask, Busy
    <3> QED BY <1>1, <3>1 DEF BusyWithTask
  <2>2. ToldOnce(w)'
    <3>1. toChild[w] # <<>> => toChild[w][1] = NoFault
      BY <1>1, <1>7 DEF WorkerOK, ToldOnce
    <3> QED BY <1>1, <1>7, <3>1 DEF WorkerOK, ToldOnce
  <2>3. PartsOfTask(w)'
    <3>1. /\ \A i \in 1 .. Len(out) : out[i].fault = task[w]
          /\ \A i \in 1 .. Len(sent) : sent[i].fault = task[w]
      BY <1>7 DEF WorkerOK, PartsOfTask, out, sent
    <3>2. outbox'[w] # <<>> <=> proc'[w] = "send"
      BY <1>2
    <3>3. \A i \in 1 .. Len(outbox'[w]) : outbox'[w][i].fault = task[w]
      <4>1. \A i \in 1 .. Len(Tail(out)) : Tail(out)[i].fault = task[w]
        BY <1>5, <3>1
      <4>2. CASE outbox'[w] = <<>>
        BY <4>2
      <4>3. CASE outbox'[w] = Tail(out)
        BY <4>1, <4>3
      <4> QED BY <1>2, <4>2, <4>3
    <3>4. \A i \in 1 .. Len(Append(sent, Head(out))) : Append(sent, Head(out))[i].fault = task[w]
      <4>1. Head(out).fault = task[w]
        BY <1>5, <3>1
      <4>2. \A i \in 1 .. Len(Append(sent, Head(out))) : i \in 1 .. Len(sent) \/ i = Len(sent) + 1
        BY <1>5, <1>6
      <4> QED BY <1>6, <3>1, <4>1, <4>2
    <3> QED BY <1>1, <1>4, <3>2, <3>3, <3>4 DEF PartsOfTask
  <2>4. NoEarlyParts(w)'
    <3>1. toChild[w] # <<>> => toChild[w][1] = NoFault
      BY <1>1, <1>7 DEF WorkerOK, ToldOnce
    <3> QED BY <1>1, <1>2, <3>1 DEF NoEarlyParts
  <2>5. OneReply(w)'
    <3> SUFFICES ASSUME pc \in Serving PROVE OneReply(w)'
      BY <1>1 DEF OneReply, control
    <3>1. /\ \A i \in 1 .. Len(toChild[w]) : toChild[w][i] # NoFault
          /\ Consumed(w) + Len(sent) + Len(out) <= ReplySize(task[w])
          /\ toChild[w] # <<>> => Consumed(w) = 0
      BY <1>7 DEF WorkerOK, OneReply, out, sent
    <3>2. Consumed(w)' = Consumed(w) /\ Consumed(w) \in {0, 1, 2} /\ ReplySize(task[w]) \in Nat
      BY <1>1, ConsumedType DEF Consumed, control, ReplySize
    <3>3. Consumed(w) + (Len(sent) + 1) + Len(outbox'[w]) <= ReplySize(task[w])
      BY <1>5, <1>8, <3>1, <3>2
    <3>4. Consumed(w)' + Len(toParent'[w]) + Len(outbox'[w]) <= ReplySize(task'[w])
      BY <1>1, <1>4, <1>6, <3>2, <3>3
    <3>5. proc'[w] # "work"
      BY <1>2
    <3> QED BY <1>1, <3>1, <3>2, <3>4, <3>5 DEF OneReply, ReplySize
  <2> QED BY <2>1, <2>2, <2>3, <2>4, <2>5 DEF WorkerOK
<1>10. ASSUME NEW v \in Workers, v # w PROVE WorkerOK(v)'
  <2>1. NotMine(v) /\ GoesOnOrStops(v)
    BY <1>1, <1>3, <1>10 DEF NotMine, GoesOnOrStops, Consumed, control
  <2> QED BY <2>1, WorkerKept DEF HandOutInv
<1>11. TasksApart'
  BY <1>1 DEF HandOutInv, TasksApart
<1>12. ASSUME pc \in Forking, NEW v \in Workers, cursor <= v PROVE Fresh(v)'
  <2>1. Fresh(v)
    BY <1>12 DEF HandOutInv, Forking
  <2>2. v # w
    BY <1>1, <2>1 DEF Fresh
  <2> QED BY <1>1, <1>3, <2>1, <2>2 DEF Fresh
<1>13. ASSUME pc \in {"write", "cubeFile"} PROVE task[cursor] \in ready /\ toParent'[cursor] = <<>>
  <2>1. cursor \in Workers /\ task[cursor] \in ready /\ toParent[cursor] = <<>>
    BY <1>13 DEF HandOutInv, TypeInv, Control, AtWorker
  <2>2. task[w] \notin ready
    BY <1>1, <1>7 DEF WorkerOK, BusyWithTask, Busy
  <2> QED BY <1>3, <2>1, <2>2
<1> QED BY <1>1, <1>9, <1>10, <1>11, <1>12, <1>13 DEF HandOutInv, Forking, control

\* A worker without a task gets one, or becomes idle.
LEMMA AssignKeeps ==
  ASSUME TypeInv, HandOutInv, NEW w \in Workers, NEW next \in Labels,
         AssignNextFault(w, next), pc \in Serving,
         toChild[w] = <<>>, toParent[w] = <<>>, proc[w] \notin {"work", "send"},
         UNCHANGED <<ready, proc, job, outbox, toParent>>,
         \A v \in Workers : Consumed(v)' = 0
  PROVE  /\ TasksApart' /\ \A v \in Workers : WorkerOK(v)'
         /\ \A v \in Workers : v # w => task'[v] = task[v] /\ toChild'[v] = toChild[v]
<1>1. WorkerOK(w) /\ TasksApart
  BY DEF HandOutInv
<1>2. outbox[w] = <<>>
  BY <1>1 DEF WorkerOK, PartsOfTask
<1>3. CASE nextFault = FaultCount
  <2>1. task' = [task EXCEPT ![w] = NoFault] /\ UNCHANGED <<nextFault, toChild>>
    BY <1>3 DEF AssignNextFault
  <2>2. task'[w] = NoFault /\ \A v \in Workers : v # w => task'[v] = task[v]
    BY <2>1, HandOutTypes
  <2>3. TasksApart'
    BY <1>1, <2>1, <2>2 DEF TasksApart
  <2>4. WorkerOK(w)'
    <3>1. BusyWithTask(w)' /\ ToldOnce(w)' /\ PartsOfTask(w)' /\ NoEarlyParts(w)'
      BY <1>2, <2>1, <2>2 DEF BusyWithTask, Busy, ToldOnce, PartsOfTask, NoEarlyParts
    <3>2. OneReply(w)'
      BY <1>2, <2>1 DEF OneReply, ReplySize
    <3> QED BY <3>1, <3>2 DEF WorkerOK
  <2>5. ASSUME NEW v \in Workers, v # w PROVE WorkerOK(v)'
    <3>1. NotMine(v) /\ GoesOnOrStops(v)
      BY <2>1, <2>2, <2>5 DEF NotMine, GoesOnOrStops
    <3> QED BY <3>1, WorkerKept DEF HandOutInv
  <2> QED BY <2>1, <2>2, <2>3, <2>4, <2>5
<1>4. CASE nextFault # FaultCount
  <2>1. /\ task' = [task EXCEPT ![w] = nextFault] /\ nextFault' = nextFault + 1
        /\ UNCHANGED toChild \/ toChild' = [toChild EXCEPT ![w] = Append(@, nextFault)]
    BY <1>4 DEF AssignNextFault, SendIndex
  <2>2. task'[w] = nextFault /\ \A v \in Workers : v # w => task'[v] = task[v]
    BY <2>1, HandOutTypes
  <2>3. nextFault \in Faults /\ nextFault # NoFault /\ nextFault \notin ready
    <3>1. nextFault \in Faults
      BY <1>4, HandOutTypes, ConstantFacts DEF Faults
    <3>2. nextFault \in Nat
      BY <3>1, HandOutTypes
    <3>3. ~(nextFault < nextFault)
      BY <3>2
    <3>4. nextFault \notin ready
      BY <1>1, <3>3 DEF TasksApart
    <3> QED BY <3>1, <3>2, <3>4
  <2>4. /\ toChild'[w] \in {<<>>, <<nextFault>>}
        /\ \A v \in Workers : v # w => toChild'[v] = toChild[v]
    BY <2>1, HandOutTypes
  <2>5. TasksApart'
    <3>1. \A v \in Workers : v # w /\ task[v] # NoFault => task[v] < nextFault
      BY <1>1 DEF TasksApart
    <3>2. nextFault \in Nat /\ \A v \in Workers : task[v] # NoFault => task[v] \in Nat
      BY <2>3, HandOutTypes
    <3>3. \A v \in Workers : task'[v] # NoFault => task'[v] < nextFault'
      BY <2>1, <2>2, <3>1, <3>2
    <3>4. \A f \in ready' : f < nextFault'
      BY <1>1, <2>1, <3>2, HandOutTypes DEF TasksApart
    <3>5. \A u, v \in Workers : u # v /\ task'[u] = task'[v] => task'[u] = NoFault
      BY <1>1, <2>2, <3>1, <3>2 DEF TasksApart
    <3> QED BY <3>3, <3>4, <3>5 DEF TasksApart
  <2>6. WorkerOK(w)'
    <3>1. /\ Len(toChild'[w]) \in {0, 1}
          /\ \A i \in 1 .. Len(toChild'[w]) : toChild'[w][i] = nextFault
      BY <2>4
    <3>2. BusyWithTask(w)'
      BY <2>2, <2>3 DEF BusyWithTask
    <3>3. ToldOnce(w)'
      BY <2>2, <3>1 DEF ToldOnce
    <3>4. PartsOfTask(w)' /\ NoEarlyParts(w)'
      BY <1>2 DEF PartsOfTask, NoEarlyParts
    <3>5. OneReply(w)'
      BY <1>2, <2>3, <3>1 DEF OneReply, ReplySize
    <3> QED BY <3>2, <3>3, <3>4, <3>5 DEF WorkerOK
  <2>7. ASSUME NEW v \in Workers, v # w PROVE WorkerOK(v)'
    <3>1. NotMine(v) /\ GoesOnOrStops(v)
      BY <2>2, <2>4, <2>7 DEF NotMine, GoesOnOrStops
    <3> QED BY <3>1, WorkerKept DEF HandOutInv
  <2> QED BY <2>2, <2>4, <2>5, <2>6, <2>7
<1> QED BY <1>3, <1>4

LEMMA AssignFirstKeeps ==
  ASSUME TypeInv, TypeInv', HandOutInv, AssignFirst
  PROVE  HandOutInv'
<1> DEFINE next == IF cursor = WorkerCount - 1 THEN "collect" ELSE "start"
<1>1. /\ pc = "assignFirst" /\ AssignNextFault(cursor, next)
      /\ cursor' = IF cursor = WorkerCount - 1 THEN 0 ELSE cursor + 1
      /\ UNCHANGED <<ready, proc, job, outbox, toParent>>
  BY DEF AssignFirst, worker
<1>2. cursor \in Workers /\ next \in Labels /\ pc \in Serving
  BY <1>1 DEF TypeInv, Control, AtWorker, Labels, Handling, Blocking, Serving
<1>3. Fresh(cursor) /\ \A v \in Workers : cursor <= v => Fresh(v)
  BY <1>1, <1>2, HandOutTypes DEF HandOutInv, Forking
<1>4. pc' \in {"collect", "start", "terminate"} /\ (pc' = "start" => cursor' = cursor + 1)
  BY <1>1 DEF AssignNextFault, SendIndex
<1>5. \A v \in Workers : Consumed(v)' = 0
  BY <1>4 DEF Consumed
<1> HIDE DEF next
<1>6. /\ TasksApart' /\ \A v \in Workers : WorkerOK(v)'
      /\ \A v \in Workers : v # cursor => task'[v] = task[v] /\ toChild'[v] = toChild[v]
  <2>1. toChild[cursor] = <<>> /\ toParent[cursor] = <<>> /\ proc[cursor] \notin {"work", "send"}
    BY <1>3 DEF Fresh
  <2> QED BY <1>1, <1>2, <1>5, <2>1, AssignKeeps
<1>7. ASSUME pc' = "start", NEW v \in Workers, cursor' <= v PROVE Fresh(v)'
  <2>1. v # cursor /\ cursor <= v
    BY <1>2, <1>4, <1>7, HandOutTypes
  <2> QED BY <1>1, <1>3, <1>6, <2>1 DEF Fresh
<1> QED BY <1>4, <1>6, <1>7 DEF HandOutInv, Forking

LEMMA AssignNextKeeps ==
  ASSUME TypeInv, HandOutInv, AssignNext
  PROVE  HandOutInv'
<1>1. /\ pc = "write" /\ AssignNextFault(cursor, "scan")
      /\ UNCHANGED <<ready, proc, job, outbox, toParent>>
  BY DEF AssignNext, worker
<1>2. cursor \in Workers /\ "scan" \in Labels /\ pc \in Serving
  BY <1>1 DEF TypeInv, Control, AtWorker, Labels, Handling, Blocking, Serving
<1>3. task[cursor] \in ready /\ toParent[cursor] = <<>> /\ WorkerOK(cursor)
  BY <1>1, <1>2 DEF HandOutInv
<1>4. pc' \in {"scan", "terminate"}
  BY <1>1 DEF AssignNextFault, SendIndex
<1>5. \A v \in Workers : Consumed(v)' = 0
  BY <1>4 DEF Consumed
<1>6. proc[cursor] \notin {"work", "send"} /\ toChild[cursor] = <<>>
  <2>1. ~Busy(cursor)
    BY <1>3 DEF WorkerOK, BusyWithTask
  <2>2. \A i \in 1 .. Len(toChild[cursor]) : toChild[cursor][i] # NoFault
    BY <1>2, <1>3 DEF WorkerOK, OneReply
  <2>3. toChild[cursor] # <<>> => 1 \in 1 .. Len(toChild[cursor])
    BY <1>2, HandOutTypes, LenProperties, EmptySeq
  <2> QED BY <2>1, <2>2, <2>3 DEF Busy
<1>7. TasksApart' /\ \A v \in Workers : WorkerOK(v)'
  BY <1>1, <1>2, <1>3, <1>5, <1>6, AssignKeeps
<1> QED BY <1>4, <1>7 DEF HandOutInv, Forking

\* A stop request leaves what the worker has in hand.
LEMMA StopKeeps ==
  ASSUME TypeInv, HandOutInv, SendStop
  PROVE  HandOutInv'
<1>1. /\ cursor \in Workers
      /\ UNCHANGED toChild \/ toChild' = [toChild EXCEPT ![cursor] = Append(@, NoFault)]
      /\ UNCHANGED <<task, ready, nextFault, proc, job, outbox, toParent>>
      /\ pc' \in {"reap", "stop", "terminate"}
  BY DEF SendStop, SendIndex, TypeInv, Control, AtWorker, pool, worker
<1>2. TasksApart'
  BY <1>1 DEF HandOutInv, TasksApart
<1>3. ASSUME NEW w \in Workers PROVE WorkerOK(w)'
  <2> DEFINE s == toChild[w]
  <2>1. WorkerOK(w)
    BY DEF HandOutInv
  <2>2. toChild'[w] = s \/ toChild'[w] = Append(s, NoFault)
    BY <1>1, HandOutTypes
  <2>3. s \in Seq(Faults \union {NoFault})
    BY HandOutTypes
  <2>4. /\ Len(s) \in Nat /\ Len(Append(s, NoFault)) = Len(s) + 1
        /\ \A i \in 1 .. Len(s) : Append(s, NoFault)[i] = s[i]
        /\ Append(s, NoFault)[Len(s) + 1] = NoFault
        /\ s # <<>> => Len(s) > 0
    BY <2>3, AppendProperties, LenProperties, EmptySeq
  <2>5. toChild'[w] # <<>> /\ toChild'[w][1] # NoFault => s # <<>> /\ s[1] # NoFault
    <3>1. CASE toChild'[w] = Append(s, NoFault) /\ s = <<>>
      <4>1. Len(s) = 0
        BY <3>1
      <4> QED BY <2>4, <3>1, <4>1
    <3>2. CASE toChild'[w] = Append(s, NoFault) /\ s # <<>>
      BY <2>4, <3>2
    <3> QED BY <2>2, <3>1, <3>2
  <2> HIDE DEF s
  <2>6. BusyWithTask(w)'
    BY <1>1, <2>1, <2>5 DEF WorkerOK, BusyWithTask, Busy, s
  <2>7. ToldOnce(w)'
    <3>1. /\ \A i \in 1 .. Len(s) : s[i] \in {NoFault, task[w]}
          /\ \A i \in 2 .. Len(s) : s[i] = NoFault
      BY <2>1 DEF WorkerOK, ToldOnce, s
    <3>2. CASE toChild'[w] = s
      BY <1>1, <2>1, <3>2 DEF WorkerOK, ToldOnce, s
    <3>3. CASE toChild'[w] = Append(s, NoFault)
      <4>1. ASSUME NEW i \in 1 .. Len(toChild'[w])
            PROVE  toChild'[w][i] \in {NoFault, task[w]} /\ (i # 1 => toChild'[w][i] = NoFault)
        <5>1. CASE i = Len(s) + 1
          BY <2>4, <3>3, <5>1
        <5>2. CASE i # Len(s) + 1
          <6>1. i \in 1 .. Len(s) /\ (i # 1 => i \in 2 .. Len(s))
            BY <2>4, <3>3, <4>1, <5>2
          <6> QED BY <2>4, <3>1, <3>3, <6>1
        <5> QED BY <5>1, <5>2
      <4>2. \A i \in 2 .. Len(toChild'[w]) : i \in 1 .. Len(toChild'[w]) /\ i # 1
        BY <2>4, <3>3
      <4>3. toChild'[w] # <<>> /\ toChild'[w][1] # NoFault => proc'[w] \notin {"work", "send"}
        BY <1>1, <2>1, <2>5 DEF WorkerOK, ToldOnce, s
      <4> QED BY <1>1, <4>1, <4>2, <4>3 DEF ToldOnce
    <3> QED BY <2>2, <3>2, <3>3
  <2>8. PartsOfTask(w)'
    BY <1>1, <2>1 DEF WorkerOK, PartsOfTask
  <2>9. NoEarlyParts(w)'
    BY <1>1, <2>1, <2>5 DEF WorkerOK, NoEarlyParts, s
  <2>10. OneReply(w)'
    BY <1>1 DEF OneReply, Serving
  <2> QED BY <2>6, <2>7, <2>8, <2>9, <2>10 DEF WorkerOK
<1> QED BY <1>1, <1>2, <1>3 DEF HandOutInv, Forking

\* Counting the parts of a reply.
LEMMA CountRead ==
  ASSUME NEW c \in Nat, NEW l \in Nat, NEW t, t = l - 1, NEW o \in Nat, NEW r \in Nat,
         c + l + o <= r
  PROVE  (c + 1) + t + o <= r
OBVIOUS

LEMMA CountLast ==
  ASSUME NEW c \in Nat, NEW l \in Nat, l > 0, NEW o \in Nat, NEW r \in Nat,
         c + l + o <= r, r <= c + 1
  PROVE  l = 1 /\ o = 0
OBVIOUS

\* The part the parent takes from the socket counts as consumed.
LEMMA ReadKeepsWorker ==
  ASSUME TypeInv, HandOutInv, NEW w \in Workers, toParent[w] # <<>>,
         toParent' = [toParent EXCEPT ![w] = Tail(@)],
         UNCHANGED <<task, ready, nextFault, toChild, proc, job, outbox>>,
         pc' \in Serving => pc \in Serving /\ Consumed(w)' = Consumed(w) + 1
  PROVE  WorkerOK(w)'
<1> DEFINE s == toParent[w]
<1>1. WorkerOK(w)
  BY DEF HandOutInv
<1>2. toParent'[w] = Tail(s)
  BY HandOutTypes
<1>3. /\ Len(s) \in Nat /\ Len(Tail(s)) = Len(s) - 1
      /\ \A i \in 1 .. Len(Tail(s)) : Tail(s)[i] = s[i + 1]
  BY HandOutTypes, HeadTailProperties, LenProperties
<1>4. proc[w] # "work" /\ (toChild[w] # <<>> => toChild[w][1] = NoFault)
  BY <1>1 DEF WorkerOK, NoEarlyParts
<1>5. BusyWithTask(w)' /\ ToldOnce(w)'
  BY <1>1 DEF WorkerOK, BusyWithTask, Busy, ToldOnce
<1>6. PartsOfTask(w)'
  <2>1. \A i \in 1 .. Len(Tail(s)) : i + 1 \in 1 .. Len(s)
    BY <1>3
  <2>2. \A i \in 1 .. Len(s) : s[i].fault = task[w]
    BY <1>1 DEF WorkerOK, PartsOfTask
  <2>3. \A i \in 1 .. Len(Tail(s)) : Tail(s)[i].fault = task[w]
    BY <1>3, <2>1, <2>2
  <2> HIDE DEF s
  <2> QED BY <1>1, <1>2, <2>3 DEF WorkerOK, PartsOfTask
<1>7. NoEarlyParts(w)'
  BY <1>4 DEF NoEarlyParts
<1>8. OneReply(w)'
  <2> SUFFICES ASSUME pc' \in Serving PROVE OneReply(w)'
    BY DEF OneReply
  <2>1. /\ \A i \in 1 .. Len(toChild[w]) : toChild[w][i] # NoFault
        /\ Consumed(w) + Len(s) + Len(outbox[w]) <= ReplySize(task[w])
    BY <1>1 DEF WorkerOK, OneReply
  <2>2. toChild[w] = <<>>
    <3>1. toChild[w] # <<>> => 1 \in 1 .. Len(toChild[w])
      BY HandOutTypes, LenProperties, EmptySeq
    <3> QED BY <1>4, <2>1, <3>1
  <2>3. Consumed(w) \in Nat /\ Len(outbox[w]) \in Nat /\ ReplySize(task[w]) \in Nat
    BY HandOutTypes, LenProperties DEF ReplySize, Consumed
  <2> HIDE DEF s
  <2>4. (Consumed(w) + 1) + Len(Tail(s)) + Len(outbox[w]) <= ReplySize(task[w])
    BY <1>3, <2>1, <2>3, CountRead
  <2>5. Consumed(w)' + Len(toParent'[w]) + Len(outbox'[w]) <= ReplySize(task'[w])
    BY <1>2, <2>4
  <2> QED BY <1>4, <2>2, <2>5 DEF OneReply, ReplySize
<1> QED BY <1>5, <1>6, <1>7, <1>8 DEF WorkerOK

\* The parent reads a header, or a text that is not the last.
LEMMA ReadKeeps ==
  ASSUME TypeInv, HandOutInv, cursor \in Workers, toParent[cursor] # <<>>,
         toParent' = [toParent EXCEPT ![cursor] = Tail(@)],
         UNCHANGED <<cursor, task, ready, nextFault, toChild, proc, job, outbox>>,
         \/ pc = "header" /\ pc' \in {"csv", "terminate"}
         \/ pc = "csv" /\ pc' = "cubes"
  PROVE  HandOutInv'
<1>1. WorkerOK(cursor)'
  <2>1. pc' \in Serving => pc \in Serving /\ Consumed(cursor)' = Consumed(cursor) + 1
    BY DEF Serving, Consumed
  <2> QED BY <2>1, ReadKeepsWorker
<1>2. ASSUME NEW v \in Workers, v # cursor PROVE WorkerOK(v)'
  <2>1. toParent'[v] = toParent[v]
    BY <1>2, HandOutTypes
  <2>2. Consumed(v)' = 0 /\ pc \in Serving
    BY <1>2 DEF Consumed, Serving
  <2>3. NotMine(v) /\ GoesOnOrStops(v)
    BY <2>1, <2>2 DEF NotMine, GoesOnOrStops
  <2> QED BY <2>3, WorkerKept DEF HandOutInv
<1>3. TasksApart'
  BY DEF HandOutInv, TasksApart
<1> QED BY <1>1, <1>2, <1>3 DEF HandOutInv, Forking

\* The last text of a reply is read and the result accepted.
LEMMA AcceptKeeps ==
  ASSUME TypeInv, HandOutInv, NEW w \in Workers, cursor = w,
         pc \in {"csv", "cubes"}, pc = "csv" => ~HasCubes(w),
         Accept(w), toParent[w] # <<>>,
         toParent' = [toParent EXCEPT ![w] = Tail(@)],
         UNCHANGED <<cursor, task, nextFault, toChild, proc, job, outbox>>
  PROVE  HandOutInv'
<1> DEFINE f == task[w]
           s == toParent[w]
<1>1. f \in Faults \ ready /\ pc \in Serving
  BY DEF TypeInv, Control, AtWorker, Serving
<1>2. ready' = ready \union {f} /\ pc' = "write"
  BY DEF Accept
<1>3. WorkerOK(w) /\ TasksApart
  BY <1>1 DEF HandOutInv
<1>4. toParent'[w] = Tail(s) /\ \A v \in Workers : v # w => toParent'[v] = toParent[v]
  BY <1>1, HandOutTypes
<1>5. s \in Seq(Parts) /\ Len(s) \in Nat /\ Len(s) > 0 /\ Len(outbox[w]) \in Nat
  BY <1>1, HandOutTypes, LenProperties, EmptySeq
<1>6. ReplySize(f) <= Consumed(w) + 1
  BY DEF ReplySize, Consumed, HasCubes
<1>7. Consumed(w) \in Nat /\ ReplySize(f) \in Nat
  BY DEF ReplySize, Consumed
<1>8. Consumed(w) + Len(s) + Len(outbox[w]) <= ReplySize(f)
  BY <1>1, <1>3 DEF WorkerOK, OneReply
<1>9. Len(s) = 1 /\ Len(outbox[w]) = 0
  BY <1>5, <1>6, <1>7, <1>8, CountLast
<1>10. Tail(s) = <<>> /\ outbox[w] = <<>>
  <2>1. Tail(s) \in Seq(Parts) /\ Len(Tail(s)) = 0
    BY <1>5, <1>9, HeadTailProperties
  <2>2. outbox[w] \in Seq(Parts)
    BY <1>1, HandOutTypes
  <2> QED BY <1>9, <2>1, <2>2, EmptySeq
<1>11. proc[w] \notin {"work", "send"} /\ (toChild[w] # <<>> => toChild[w][1] = NoFault)
  BY <1>3, <1>10 DEF WorkerOK, NoEarlyParts, PartsOfTask
<1>12. \A v \in Workers : Consumed(v)' = 0
  BY <1>2 DEF Consumed
<1> HIDE DEF f, s
<1>13. WorkerOK(w)'
  <2>1. BusyWithTask(w)' /\ ToldOnce(w)' /\ NoEarlyParts(w)'
    BY <1>3, <1>11 DEF WorkerOK, BusyWithTask, Busy, ToldOnce, NoEarlyParts
  <2>2. PartsOfTask(w)'
    <3>1. toParent'[w] = <<>> /\ outbox'[w] = <<>> /\ proc'[w] # "send"
      BY <1>4, <1>10, <1>11
    <3>2. Len(toParent'[w]) = 0 /\ Len(outbox'[w]) = 0
      BY <3>1, EmptySeq
    <3>3. 1 .. 0 = {}
      OBVIOUS
    <3> QED BY <3>1, <3>2, <3>3 DEF PartsOfTask
  <2>3. OneReply(w)'
    <3>1. Consumed(w)' + Len(toParent'[w]) + Len(outbox'[w]) = 0
      <4>1. toParent'[w] = <<>> /\ outbox'[w] = <<>>
        BY <1>4, <1>10
      <4>2. Consumed(w)' = 0
        BY <1>1, <1>12
      <4>3. Len(toParent'[w]) = 0 /\ Len(outbox'[w]) = 0
        BY <4>1, EmptySeq
      <4> QED BY <4>2, <4>3
    <3>2. \A i \in 1 .. Len(toChild[w]) : toChild[w][i] # NoFault
      BY <1>1, <1>3 DEF WorkerOK, OneReply
    <3>3. ReplySize(task[w])' \in Nat
      BY DEF ReplySize
    <3>4. Consumed(w)' = 0
      BY <1>1, <1>12
    <3>5. (Consumed(w) + Len(toParent[w]) + Len(outbox[w]) <= ReplySize(task[w]))'
      BY <3>1, <3>3
    <3>6. (\A i \in 1 .. Len(toChild[w]) : toChild[w][i] # NoFault)'
      BY <3>2
    <3> QED BY <3>4, <3>5, <3>6 DEF OneReply
  <2> QED BY <2>1, <2>2, <2>3 DEF WorkerOK
<1>14. ASSUME NEW v \in Workers, v # w PROVE WorkerOK(v)'
  <2>1. task[v] # f
    <3>1. f # NoFault
      BY <1>1, HandOutTypes
    <3> QED BY <1>1, <1>3, <1>14, <3>1 DEF TasksApart, f
  <2>2. NotMine(v) /\ GoesOnOrStops(v)
    BY <1>1, <1>2, <1>4, <1>12, <1>14, <2>1 DEF NotMine, GoesOnOrStops
  <2> QED BY <2>2, WorkerKept DEF HandOutInv
<1>15. TasksApart'
  <2>1. f < nextFault
    BY <1>1, <1>3, HandOutTypes DEF TasksApart, f
  <2> QED BY <1>2, <1>3, <2>1 DEF TasksApart
<1>16. task'[w] \in ready' /\ toParent'[w] = <<>>
  BY <1>2, <1>4, <1>10 DEF f
<1> QED BY <1>2, <1>13, <1>14, <1>15, <1>16 DEF HandOutInv, Forking

LEMMA HeaderKeeps ==
  ASSUME TypeInv, TypeInv', HandOutInv, ReceiveHeader
  PROVE  HandOutInv'
<1>1. pc = "header" /\ cursor \in Workers /\ ReceiveFrame
  BY DEF ReceiveHeader, TypeInv, Control, AtWorker
<1>2. CASE GiveUpReceiving
  <2>1. Quiet
    BY <1>1, <1>2 DEF Quiet, GiveUpReceiving, ReceiveFrame, SamePlace, GoesOnOrStops,
                     Serving, Forking, worker
  <2> QED BY <2>1, QuietKeeps
<1>3. CASE ~GiveUpReceiving
  <2>1. /\ toParent[cursor] # <<>> /\ toParent' = [toParent EXCEPT ![cursor] = Tail(@)]
        /\ pc' \in {"csv", "terminate"} /\ UNCHANGED ready
    BY <1>3 DEF ReceiveHeader
  <2>2. UNCHANGED <<cursor, task, nextFault, toChild, proc, job, outbox>>
    BY <1>1 DEF ReceiveFrame, worker
  <2> QED BY <1>1, <2>1, <2>2, ReadKeeps
<1> QED BY <1>2, <1>3

LEMMA TextKeeps ==
  ASSUME TypeInv, TypeInv', HandOutInv, ReceiveText
  PROVE  HandOutInv'
<1>1. pc \in {"csv", "cubes"} /\ cursor \in Workers /\ ReceiveFrame
  BY DEF ReceiveText, TypeInv, Control, AtWorker
<1>2. CASE GiveUpReceiving
  <2>1. Quiet
    BY <1>1, <1>2 DEF Quiet, GiveUpReceiving, ReceiveFrame, SamePlace, GoesOnOrStops,
                     Serving, Forking, worker
  <2> QED BY <2>1, QuietKeeps
<1>3. CASE ~GiveUpReceiving
  <2>1. toParent[cursor] # <<>> /\ toParent' = [toParent EXCEPT ![cursor] = Tail(@)]
    BY <1>3 DEF ReceiveText
  <2>2. UNCHANGED <<cursor, task, nextFault, toChild, proc, job, outbox>>
    BY <1>1 DEF ReceiveFrame, worker
  <2>3. CASE pc = "csv" /\ HasCubes(cursor)
    <3>1. pc' = "cubes" /\ UNCHANGED ready
      BY <1>3, <2>3 DEF ReceiveText
    <3> QED BY <1>1, <2>1, <2>2, <2>3, <3>1, ReadKeeps
  <2>4. CASE ~(pc = "csv" /\ HasCubes(cursor))
    <3>1. Accept(cursor)
      BY <1>3, <2>4 DEF ReceiveText
    <3> QED BY <1>1, <2>1, <2>2, <2>4, <3>1, AcceptKeeps
  <2> QED BY <2>3, <2>4
<1> QED BY <1>2, <1>3

\* The parent's other steps hand nothing out and take nothing in.
LEMMA ParentQuiet ==
  ASSUME TypeInv, HandOutInv, ParentStep,
         ~(AssignFirst \/ AssignNext \/ ReceiveHeader \/ ReceiveText \/ SendStop)
  PROVE  Quiet
<1>1. CASE StartWorker
  <2>1. pc = "start" /\ cursor \in Workers
    BY <1>1 DEF StartWorker, TypeInv, Control, AtWorker
  <2>2. Fresh(cursor) /\ WorkerOK(cursor)
    BY <2>1, HandOutTypes DEF HandOutInv, Forking
  <2>3. outbox[cursor] = <<>>
    BY <2>2 DEF Fresh, WorkerOK, PartsOfTask
  <2>4. \A w \in Workers : GoesOnOrStops(w)
    BY <1>1, <2>1, <2>3, HandOutTypes DEF StartWorker, worker, GoesOnOrStops
  <2>5. SamePlace
    BY <1>1, HandOutTypes DEF StartWorker, SamePlace, Serving, Forking
  <2> QED BY <1>1, <2>4, <2>5 DEF StartWorker, Quiet
<1>2. CASE WaitPid
  <2>1. pc = "wait" /\ cursor \in Workers /\ proc[cursor] \in Dead
    BY <1>2 DEF WaitPid, TypeInv, Control, AtWorker
  <2>2. WorkerOK(cursor)
    BY <2>1 DEF HandOutInv
  <2>3. outbox[cursor] = <<>>
    BY <2>1, <2>2 DEF WorkerOK, PartsOfTask, Dead
  <2>4. \A w \in Workers : GoesOnOrStops(w)
    BY <1>2, <2>1, <2>3, HandOutTypes DEF WaitPid, Reap, GoesOnOrStops
  <2>5. SamePlace
    BY <1>2 DEF WaitPid, SamePlace, Serving, Forking
  <2> QED BY <1>2, <2>4, <2>5 DEF WaitPid, Quiet, pool, sockets
<1>3. CASE Terminate
  <2>1. \A w \in Workers : GoesOnOrStops(w)
    BY <1>3 DEF Terminate, TerminateWorkers, GoesOnOrStops
  <2>2. SamePlace
    BY <1>3 DEF Terminate, SamePlace, Serving, Forking
  <2> QED BY <1>3, <2>1, <2>2 DEF Terminate, Quiet, pool
<1>4. CASE Enter \/ Flush \/ Collect \/ Poll \/ Scan
  <2>1. SamePlace
    BY <1>4, HandOutTypes DEF Enter, Flush, Collect, Poll, Scan, SamePlace, Serving, Forking
  <2>2. UNCHANGED <<task, ready, nextFault, toChild, toParent, job, proc, outbox>>
    BY <1>4 DEF Enter, Flush, Collect, Poll, Scan, pool, worker, sockets
  <2> QED BY <2>1, <2>2 DEF Quiet, GoesOnOrStops
<1>5. CASE WriteRow \/ WriteCubeFile \/ CloseSocket \/ Finish \/ CloseCsv
  <2>1. SamePlace
    BY <1>5 DEF WriteRow, WriteResult, WriteCubeFile, CloseSocket, Finish, CloseCsv, SamePlace,
                Serving, Forking
  <2>2. UNCHANGED <<task, ready, nextFault, toChild, toParent, job, proc, outbox>>
    BY <1>5 DEF WriteRow, WriteCubeFile, CloseSocket, Finish, CloseCsv, pool, worker, sockets
  <2> QED BY <2>1, <2>2 DEF Quiet, GoesOnOrStops
<1> QED BY <1>1, <1>2, <1>3, <1>4, <1>5 DEF ParentStep

LEMMA EnvironmentQuiet ==
  ASSUME TypeInv, HandOutInv, Environment
  PROVE  Quiet
<1>1. CASE Signal \/ CallFails \/ ParentDeath
  <2>1. SamePlace
    BY <1>1, HandOutTypes DEF Signal, CallFails, ParentDeath, SamePlace, Serving, Forking, control
  <2>2. UNCHANGED <<task, ready, nextFault, toChild, toParent, job, proc, outbox>>
    BY <1>1 DEF Signal, CallFails, ParentDeath, pool, worker, sockets
  <2> QED BY <2>1, <2>2 DEF Quiet, GoesOnOrStops
<1>2. CASE InterruptCall
  <2>1. \A w \in Workers : GoesOnOrStops(w)
    BY <1>2 DEF InterruptCall, TerminateWorkers, GoesOnOrStops
  <2>2. SamePlace
    BY <1>2 DEF InterruptCall, SamePlace, Serving, Forking
  <2> QED BY <1>2, <2>1, <2>2 DEF InterruptCall, Quiet, pool
<1>3. ASSUME NEW w \in Workers, ChildKilled(w) PROVE Quiet
  <2>1. \A v \in Workers : GoesOnOrStops(v)
    BY <1>3, HandOutTypes DEF ChildKilled, Exit, GoesOnOrStops
  <2>2. SamePlace
    BY <1>3, HandOutTypes DEF ChildKilled, SamePlace, Serving, Forking, control
  <2> QED BY <1>3, <2>1, <2>2 DEF ChildKilled, Quiet, pool
<1> QED BY <1>1, <1>2, <1>3 DEF Environment

LEMMA ChildKeeps ==
  ASSUME TypeInv, TypeInv', HandOutInv, NEW w \in Workers, ChildStep(w)
  PROVE  HandOutInv'
<1>1. ASSUME NEW how \in Dead, Exit(w, how),
             UNCHANGED <<control, task, ready, nextFault, toChild, toParent, job>>
      PROVE  HandOutInv'
  <2>1. \A v \in Workers : GoesOnOrStops(v)
    BY <1>1, HandOutTypes DEF Exit, GoesOnOrStops, Dead
  <2>2. SamePlace
    BY <1>1, HandOutTypes DEF SamePlace, Serving, Forking, control
  <2>3. Quiet
    BY <1>1, <2>1, <2>2 DEF Quiet
  <2> QED BY <2>3, QuietKeeps
<1>2. "exit0" \in Dead /\ "exit1" \in Dead
  BY DEF Dead
<1>3. CASE ChildStart(w)
  <2>1. outbox[w] = <<>>
    BY <1>3 DEF ChildStart, HandOutInv, WorkerOK, PartsOfTask
  <2>2. \A v \in Workers : GoesOnOrStops(v)
    BY <1>3, <2>1, HandOutTypes DEF ChildStart, GoesOnOrStops
  <2>3. SamePlace
    BY <1>3, HandOutTypes DEF ChildStart, SamePlace, Serving, Forking, control
  <2>4. Quiet
    BY <1>3, <2>2, <2>3 DEF ChildStart, Quiet, pool
  <2> QED BY <2>4, QuietKeeps
<1>4. CASE ChildReceive(w)
  <2>1. Exit(w, "exit1") => UNCHANGED <<control, task, ready, nextFault, toChild, toParent, job>>
    <3> SUFFICES ASSUME Exit(w, "exit1") PROVE UNCHANGED <<job, toChild>>
      BY <1>4 DEF ChildReceive, pool
    <3>1. proc'[w] = "exit1"
      BY HandOutTypes DEF Exit
    <3> QED BY <1>4, <3>1, HandOutTypes DEF ChildReceive
  <2> QED BY <1>1, <1>2, <1>4, <2>1, ReceiveKeeps
<1>5. CASE ChildAnalyze(w)
  <2>1. UNCHANGED <<control, task, ready, nextFault, toChild, toParent, job>>
    BY <1>5 DEF ChildAnalyze, pool
  <2> QED BY <1>1, <1>2, <1>5, <2>1, AnalyzeKeeps
<1>6. CASE ChildSend(w)
  <2>1. UNCHANGED <<control, task, ready, nextFault, toChild, job>>
    BY <1>6 DEF ChildSend, pool
  <2> QED BY <1>1, <1>2, <1>6, <2>1, SendKeeps
<1>7. CASE ChildFinish(w)
  <2>1. /\ Exit(w, "exit0")
        /\ UNCHANGED <<control, task, ready, nextFault, toChild, toParent, job>>
    BY <1>7 DEF ChildFinish, pool
  <2> QED BY <1>1, <1>2, <2>1
<1> QED BY <1>3, <1>4, <1>5, <1>6, <1>7 DEF ChildStep

LEMMA NextHandOut == TypeInv /\ HandOutInv /\ [Next]_vars => HandOutInv'
<1> SUFFICES ASSUME TypeInv, HandOutInv, [Next]_vars PROVE HandOutInv'
  OBVIOUS
<1>1. TypeInv'
  BY NextType
<1>2. CASE ParentStep
  BY <1>1, <1>2, ParentQuiet, QuietKeeps, AssignFirstKeeps, AssignNextKeeps, HeaderKeeps, TextKeeps,
     StopKeeps
<1>3. CASE Environment
  BY <1>1, <1>3, EnvironmentQuiet, QuietKeeps
<1>4. CASE \E w \in Workers : ChildStep(w)
  BY <1>1, <1>4, ChildKeeps
<1>5. CASE UNCHANGED vars
  <2>1. Quiet
    BY <1>5, HandOutTypes DEF vars, control, pool, worker, sockets, Quiet, SamePlace, GoesOnOrStops
  <2> QED BY <1>1, <2>1, QuietKeeps
<1> QED BY <1>2, <1>3, <1>4, <1>5 DEF Next, Terminated

LEMMA HandOutCorrect == Spec => []HandOutInv
<1>1. TypeInv /\ HandOutInv /\ [Next]_vars => TypeInv' /\ HandOutInv'
  BY NextType, NextHandOut
<1> QED BY InitType, InitHandOut, <1>1, PTL DEF Spec

\* No two workers analyse the same fault, and none analyses one whose result
\* has arrived, for any number of faults and workers and any failures.
THEOREM OnceCorrect == Spec => []AnalysedOnce
<1>1. HandOutInv => AnalysedOnce
  <2> SUFFICES ASSUME HandOutInv, NEW v \in Workers, NEW w \in Workers, proc[v] = "work", v # w
               PROVE  ~(proc[w] \in {"work", "send"} /\ job[w] = job[v]) /\ job[v] \notin ready
    BY DEF AnalysedOnce
  <2>1. BusyWithTask(v) /\ BusyWithTask(w) /\ TasksApart
    BY DEF HandOutInv, WorkerOK
  <2>2. job[v] = task[v] /\ task[v] \in Faults \ ready
    BY <2>1 DEF BusyWithTask, Busy
  <2>3. task[v] # NoFault
    BY <2>2, ConstantFacts DEF Faults
  <2>4. proc[w] \in {"work", "send"} => job[w] = task[w]
    BY <2>1 DEF BusyWithTask
  <2> QED BY <2>1, <2>2, <2>3, <2>4 DEF TasksApart
<1> QED BY HandOutCorrect, <1>1, PTL

\* Whatever is on its way from a worker is about the fault the parent has it
\* down for, for any number of faults and workers and any failures.
THEOREM ReplyCorrect == Spec => []ReplyMatchesTask
<1>1. HandOutInv => ReplyMatchesTask
  BY DEF HandOutInv, WorkerOK, PartsOfTask, ReplyMatchesTask
<1> QED BY HandOutCorrect, <1>1, PTL
=============================================================================
