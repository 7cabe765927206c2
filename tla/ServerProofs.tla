---------------------------- MODULE ServerProofs ----------------------------
(* Theorems about the server's threads, for any number of connections, any  *)
(* handler limit and any queue capacity.                                    *)
EXTENDS Server, FiniteSetTheorems, TLAPS

-----------------------------------------------------------------------------
(* The inductive invariant, in parts.                                      *)

BeforeSubmit == {"reading", "monitor", "submit"}
AfterSubmit == {"queued", "running", "closed"}

(* A handler thread lives exactly as long as it owns its connection.       *)
HandlerOwns == \A c \in Conn : handler[c] = "live" <=> where[c] \in BeforeSubmit

(* A queued request is in the queue; what is in the queue was submitted.   *)
QueuedIsInQueue ==
  \A c \in Conn : where[c] = "queued" => \E i \in 1..Len(queue) : queue[i] = c
QueueWasSubmitted == \A i \in 1..Len(queue) : where[queue[i]] \in AfterSubmit

(* At most one request runs, and only while the worker is running it.      *)
RunsAlone ==
  /\ \A c \in Conn : where[c] = "running" => worker = "running"
  /\ \A c, d \in Conn : where[c] = "running" /\ where[d] = "running" => c = d

(* An ended worker leaves an empty queue, and ends only when no one is left *)
(* who could submit.                                                       *)
EndedWorker ==
  /\ worker \in {"dead", "exited"} => queue = <<>>
  /\ worker = "exited" =>
       main \in {"stopping", "stopped"} /\ \A c \in Conn : handler[c] # "live"

(* Main knows every live handler, until a panicked one cuts join_all short. *)
LiveIsJoined ==
  \A c \in Conn :
    handler[c] = "live" =>
      \/ c \in joins
      \/ main \in {"stopping", "stopped"} /\ \E d \in Conn : handler[d] = "panicked"

MainPhases ==
  /\ main = "loading" => worker = "loading" /\ joins = {} /\ queue = <<>>
  /\ main = "stopped" => worker \in {"dead", "exited"}
  /\ main \in {"stopping", "stopped"} => joins = {}

(* A token is cancelled only for a reason.                                 *)
CancelHasCause == \A c \in cancelled : c \in gone \/ shutdown

(* After a late accept main is on its way to test shutdown, or beyond.     *)
LateLeaves ==
  /\ late <= 1
  /\ late = 1 => shutdown /\ main \in {"check", "joining", "stopping", "stopped"}

Owners == HandlerOwns /\ QueuedIsInQueue /\ QueueWasSubmitted /\ RunsAlone
Phases == EndedWorker /\ LiveIsJoined /\ MainPhases
ServerInv == TypeOK /\ Owners /\ Phases /\ CancelHasCause /\ NoSilentDrop /\ LateLeaves

-----------------------------------------------------------------------------
(* Type correctness.                                                       *)

(* Every step keeps the variables in their types. *)
LEMMA TypeStep ==
  ASSUME TypeOK, [Next]_vars
  PROVE  TypeOK'
<1>1. CASE Signal
  BY <1>1 DEF Signal, TypeOK, MainStates, WorkerStates,
         Places, Replies
<1>2. CASE LoadOk
  BY <1>2 DEF LoadOk, TypeOK, MainStates, WorkerStates,
         Places, Replies
<1>3. CASE LoadFails
  BY <1>3 DEF LoadFails, TypeOK, MainStates, WorkerStates,
         Places, Replies
<1>4. CASE LeaveLoop
  BY <1>4 DEF LeaveLoop, StopRequested, TypeOK, MainStates, WorkerStates,
         Places, Replies
<1>5. CASE ReapFinished
  BY <1>5 DEF ReapFinished, StopRequested, Ended, TypeOK, MainStates, WorkerStates,
         Places, Replies
<1>6. CASE ReapPanicked
  BY <1>6 DEF ReapPanicked, StopRequested, Ended, TypeOK, MainStates, WorkerStates,
         Places, Replies
<1>7. CASE AcceptNone
  BY <1>7 DEF AcceptNone, TypeOK, MainStates, WorkerStates,
         Places, Replies
<1>8. CASE AcceptFails
  BY <1>8 DEF AcceptFails, TypeOK, MainStates, WorkerStates,
         Places, Replies
<1>9. CASE AllJoined
  BY <1>9 DEF AllJoined, TypeOK, MainStates, WorkerStates,
         Places, Replies
<1>10. CASE JoinWorker
  BY <1>10 DEF JoinWorker, TypeOK, MainStates, WorkerStates,
         Places, Replies
<1>11. ASSUME NEW c \in Conn, TurnAway(c) PROVE TypeOK'
  BY <1>11 DEF TurnAway, CountLate, TypeOK, MainStates, WorkerStates,
         Places, Replies
<1>12. ASSUME NEW c \in Conn, Accept(c) PROVE TypeOK'
  BY <1>12 DEF Accept, CountLate, TypeOK, MainStates, WorkerStates,
         Places, Replies
<1>13. ASSUME NEW c \in Conn, SpawnFails(c) PROVE TypeOK'
  BY <1>13 DEF SpawnFails, CountLate, TypeOK, MainStates, WorkerStates,
         Places, Replies
<1>14. ASSUME NEW c \in Conn, JoinHandler(c) PROVE TypeOK'
  BY <1>14 DEF JoinHandler, Ended, TypeOK, MainStates, WorkerStates,
         Places, Replies
<1>15. ASSUME NEW c \in Conn, Connect(c) PROVE TypeOK'
  BY <1>15 DEF Connect, TypeOK, MainStates, WorkerStates,
         Places, Replies
<1>16. ASSUME NEW c \in Conn, ClientLeaves(c) PROVE TypeOK'
  BY <1>16 DEF ClientLeaves, TypeOK, MainStates, WorkerStates,
         Places, Replies
<1>17. ASSUME NEW c \in Conn, ReadRequest(c) PROVE TypeOK'
  BY <1>17 DEF ReadRequest, TypeOK, MainStates, WorkerStates,
         Places, Replies
<1>18. ASSUME NEW c \in Conn, RejectRequest(c) PROVE TypeOK'
  BY <1>18 DEF RejectRequest, TypeOK, MainStates, WorkerStates,
         Places, Replies
<1>19. ASSUME NEW c \in Conn, StartMonitor(c) PROVE TypeOK'
  BY <1>19 DEF StartMonitor, TypeOK, MainStates, WorkerStates,
         Places, Replies
<1>20. ASSUME NEW c \in Conn, StartMonitorPanics(c) PROVE TypeOK'
  BY <1>20 DEF StartMonitorPanics, TypeOK, MainStates, WorkerStates,
         Places, Replies
<1>21. ASSUME NEW c \in Conn, Submit(c) PROVE TypeOK'
  <2>1. queue' \in Seq(Conn) /\ Len(queue') <= QueueCap
    BY <1>21, ServerAssumption DEF Submit, QueueFull, TypeOK
  <2> QED
    BY <1>21, <2>1 DEF Submit, TypeOK, Places
<1>22. ASSUME NEW c \in Conn, SubmitRefused(c) PROVE TypeOK'
  BY <1>22 DEF SubmitRefused, ReceiverAlive, TypeOK, MainStates, WorkerStates,
         Places, Replies
<1>23. CASE Receive
  <2>1. queue' \in Seq(Conn) /\ Len(queue') <= QueueCap /\ Head(queue) \in Conn
    BY <1>23, ServerAssumption DEF Receive, TypeOK
  <2>2. where' \in [Conn -> Places] /\ worker' \in WorkerStates
    BY <1>23, <2>1 DEF Receive, TypeOK, Places, WorkerStates
  <2> QED
    BY <1>23, <2>1, <2>2 DEF Receive, TypeOK
<1>24. CASE DropReceiver
  <2>1. queue' \in Seq(Conn) /\ Len(queue') <= QueueCap
    BY <1>24, ServerAssumption DEF DropReceiver
  <2>2. where' \in [Conn -> Places]
    BY <1>24 DEF DropReceiver, TypeOK, Places
  <2> QED
    BY <1>24, <2>1, <2>2 DEF DropReceiver, TypeOK, WorkerStates
<1>25. CASE WorkerExits
  BY <1>25 DEF WorkerExits, NoSenders, TypeOK, MainStates, WorkerStates,
         Places, Replies
<1>26. ASSUME NEW c \in Conn, RunEnds(c) PROVE TypeOK'
  BY <1>26 DEF RunEnds, TypeOK, MainStates, WorkerStates,
         Places, Replies
<1>27. ASSUME NEW c \in Conn, RunPanics(c) PROVE TypeOK'
  BY <1>27 DEF RunPanics, TypeOK, MainStates, WorkerStates,
         Places, Replies
<1>28. ASSUME NEW c \in Conn, MonitorPoll(c) PROVE TypeOK'
  BY <1>28 DEF MonitorPoll, Finished, TypeOK, MainStates, WorkerStates,
         Places, Replies
<1>29. ASSUME NEW c \in Conn, MonitorLook(c) PROVE TypeOK'
  BY <1>29 DEF MonitorLook, PeekSaysGone, TypeOK, MainStates, WorkerStates,
         Places, Replies
<1>30. CASE UNCHANGED vars
  BY <1>30 DEF vars, TypeOK, MainStates, WorkerStates,
         Places, Replies
<1> QED
  BY <1>1, <1>2, <1>3, <1>4, <1>5, <1>6, <1>7, <1>8, <1>9, <1>10, <1>11, <1>12, <1>13, <1>14, <1>15, <1>16, <1>17,
     <1>18, <1>19, <1>20, <1>21, <1>22, <1>23, <1>24, <1>25, <1>26, <1>27, <1>28, <1>29, <1>30
  DEF Next, Terminated, MainStep, HandlerStep, WorkerStep, RunStep, MonitorStep

-----------------------------------------------------------------------------
(* Who owns a connection.                                                  *)

(* Every connection keeps one owner. *)
LEMMA OwnersStep ==
  ASSUME TypeOK, Owners, MainPhases, [Next]_vars
  PROVE  Owners'
<1>1. CASE Signal
  BY <1>1 DEF Signal, Owners, HandlerOwns,
         QueuedIsInQueue, QueueWasSubmitted, RunsAlone, BeforeSubmit, AfterSubmit,
         TypeOK
<1>2. CASE LoadOk
  BY <1>2 DEF LoadOk, Owners, HandlerOwns, QueuedIsInQueue, QueueWasSubmitted,
         RunsAlone, MainPhases
<1>3. CASE LoadFails
  BY <1>3 DEF LoadFails, Owners, HandlerOwns, QueuedIsInQueue, QueueWasSubmitted,
         RunsAlone, MainPhases
<1>4. CASE LeaveLoop
  BY <1>4 DEF LeaveLoop, StopRequested, Owners, HandlerOwns,
         QueuedIsInQueue, QueueWasSubmitted, RunsAlone, BeforeSubmit, AfterSubmit,
         TypeOK
<1>5. CASE ReapFinished
  BY <1>5 DEF ReapFinished, StopRequested, Ended, Owners, HandlerOwns,
         QueuedIsInQueue, QueueWasSubmitted, RunsAlone, BeforeSubmit, AfterSubmit,
         TypeOK
<1>6. CASE ReapPanicked
  BY <1>6 DEF ReapPanicked, StopRequested, Ended, Owners, HandlerOwns,
         QueuedIsInQueue, QueueWasSubmitted, RunsAlone, BeforeSubmit, AfterSubmit,
         TypeOK
<1>7. CASE AcceptNone
  BY <1>7 DEF AcceptNone, Owners, HandlerOwns,
         QueuedIsInQueue, QueueWasSubmitted, RunsAlone, BeforeSubmit, AfterSubmit,
         TypeOK
<1>8. CASE AcceptFails
  BY <1>8 DEF AcceptFails, Owners, HandlerOwns,
         QueuedIsInQueue, QueueWasSubmitted, RunsAlone, BeforeSubmit, AfterSubmit,
         TypeOK
<1>9. CASE AllJoined
  BY <1>9 DEF AllJoined, Owners, HandlerOwns,
         QueuedIsInQueue, QueueWasSubmitted, RunsAlone, BeforeSubmit, AfterSubmit,
         TypeOK
<1>10. CASE JoinWorker
  BY <1>10 DEF JoinWorker, Owners, HandlerOwns,
         QueuedIsInQueue, QueueWasSubmitted, RunsAlone, BeforeSubmit, AfterSubmit,
         TypeOK
<1>11. ASSUME NEW c \in Conn, TurnAway(c) PROVE Owners'
  BY <1>11 DEF TurnAway, CountLate, Owners, HandlerOwns,
         QueuedIsInQueue, QueueWasSubmitted, RunsAlone, BeforeSubmit, AfterSubmit,
         TypeOK
<1>12. ASSUME NEW c \in Conn, Accept(c) PROVE Owners'
  BY <1>12 DEF Accept, CountLate, Owners, HandlerOwns,
         QueuedIsInQueue, QueueWasSubmitted, RunsAlone, BeforeSubmit, AfterSubmit,
         TypeOK
<1>13. ASSUME NEW c \in Conn, SpawnFails(c) PROVE Owners'
  BY <1>13 DEF SpawnFails, CountLate, Owners, HandlerOwns,
         QueuedIsInQueue, QueueWasSubmitted, RunsAlone, BeforeSubmit, AfterSubmit,
         TypeOK
<1>14. ASSUME NEW c \in Conn, JoinHandler(c) PROVE Owners'
  BY <1>14 DEF JoinHandler, Ended, Owners, HandlerOwns,
         QueuedIsInQueue, QueueWasSubmitted, RunsAlone, BeforeSubmit, AfterSubmit,
         TypeOK
<1>15. ASSUME NEW c \in Conn, Connect(c) PROVE Owners'
  BY <1>15 DEF Connect, Owners, HandlerOwns,
         QueuedIsInQueue, QueueWasSubmitted, RunsAlone, BeforeSubmit, AfterSubmit,
         TypeOK
<1>16. ASSUME NEW c \in Conn, ClientLeaves(c) PROVE Owners'
  BY <1>16 DEF ClientLeaves, Owners, HandlerOwns,
         QueuedIsInQueue, QueueWasSubmitted, RunsAlone, BeforeSubmit, AfterSubmit,
         TypeOK
<1>17. ASSUME NEW c \in Conn, ReadRequest(c) PROVE Owners'
  BY <1>17 DEF ReadRequest, Owners, HandlerOwns,
         QueuedIsInQueue, QueueWasSubmitted, RunsAlone, BeforeSubmit, AfterSubmit,
         TypeOK
<1>18. ASSUME NEW c \in Conn, RejectRequest(c) PROVE Owners'
  BY <1>18 DEF RejectRequest, Owners, HandlerOwns,
         QueuedIsInQueue, QueueWasSubmitted, RunsAlone, BeforeSubmit, AfterSubmit,
         TypeOK
<1>19. ASSUME NEW c \in Conn, StartMonitor(c) PROVE Owners'
  BY <1>19 DEF StartMonitor, Owners, HandlerOwns,
         QueuedIsInQueue, QueueWasSubmitted, RunsAlone, BeforeSubmit, AfterSubmit,
         TypeOK
<1>20. ASSUME NEW c \in Conn, StartMonitorPanics(c) PROVE Owners'
  BY <1>20 DEF StartMonitorPanics, Owners, HandlerOwns,
         QueuedIsInQueue, QueueWasSubmitted, RunsAlone, BeforeSubmit, AfterSubmit,
         TypeOK
<1>21. ASSUME NEW c \in Conn, Submit(c) PROVE Owners'
  BY <1>21 DEF Submit, ReceiverAlive, QueueFull, Owners, HandlerOwns,
         QueuedIsInQueue, QueueWasSubmitted, RunsAlone, BeforeSubmit, AfterSubmit,
         TypeOK
<1>22. ASSUME NEW c \in Conn, SubmitRefused(c) PROVE Owners'
  BY <1>22 DEF SubmitRefused, ReceiverAlive, Owners, HandlerOwns,
         QueuedIsInQueue, QueueWasSubmitted, RunsAlone, BeforeSubmit, AfterSubmit,
         TypeOK
<1>23. CASE Receive
  <2>1. /\ Head(queue) \in Conn /\ Head(queue) = queue[1]
        /\ where[Head(queue)] \in AfterSubmit
        /\ Len(queue) \in Nat /\ Len(queue) >= 1
    BY <1>23 DEF Receive, Owners, QueueWasSubmitted, TypeOK
  <2>2. /\ Len(queue') = Len(queue) - 1
        /\ \A i \in 1..Len(queue') : queue'[i] = queue[i + 1]
    BY <1>23 DEF Receive, TypeOK
  <2>3. /\ where'[Head(queue)] \in {"running", "closed"}
        /\ \A c \in Conn \ {Head(queue)} : where'[c] = where[c]
        /\ handler' = handler
    BY <1>23, <2>1 DEF Receive, TypeOK
  <2>4. HandlerOwns'
    BY <2>1, <2>3 DEF Owners, HandlerOwns, BeforeSubmit, AfterSubmit
  <2>5. QueuedIsInQueue'
    <3> SUFFICES ASSUME NEW c \in Conn, where'[c] = "queued"
                 PROVE  \E i \in 1..Len(queue') : queue'[i] = c
      BY DEF QueuedIsInQueue
    <3>1. c # Head(queue) /\ where[c] = "queued"
      BY <2>3
    <3>2. PICK i \in 1..Len(queue) : queue[i] = c
      BY <3>1 DEF Owners, QueuedIsInQueue
    <3>3. i - 1 \in 1..Len(queue') /\ queue'[i - 1] = c
      BY <2>1, <2>2, <3>1, <3>2
    <3> QED
      BY <3>3
  <2>6. QueueWasSubmitted'
    <3> SUFFICES ASSUME NEW i \in 1..Len(queue') PROVE where'[queue'[i]] \in AfterSubmit
      BY DEF QueueWasSubmitted
    <3>1. i + 1 \in 1..Len(queue) /\ queue'[i] = queue[i + 1] /\ queue[i + 1] \in Conn
      BY <2>1, <2>2 DEF TypeOK
    <3>2. where[queue[i + 1]] \in AfterSubmit
      BY <3>1 DEF Owners, QueueWasSubmitted
    <3> QED
      BY <2>3, <3>1, <3>2 DEF AfterSubmit
  <2>7. RunsAlone'
    BY <1>23, <2>1 DEF Receive, Owners, RunsAlone, TypeOK
  <2> QED
    BY <2>4, <2>5, <2>6, <2>7 DEF Owners
<1>24. CASE DropReceiver
  BY <1>24 DEF DropReceiver, Owners, HandlerOwns,
         QueuedIsInQueue, QueueWasSubmitted, RunsAlone, BeforeSubmit, AfterSubmit,
         TypeOK
<1>25. CASE WorkerExits
  BY <1>25 DEF WorkerExits, NoSenders, Owners, HandlerOwns,
         QueuedIsInQueue, QueueWasSubmitted, RunsAlone, BeforeSubmit, AfterSubmit,
         TypeOK
<1>26. ASSUME NEW c \in Conn, RunEnds(c) PROVE Owners'
  BY <1>26 DEF RunEnds, Owners, HandlerOwns,
         QueuedIsInQueue, QueueWasSubmitted, RunsAlone, BeforeSubmit, AfterSubmit,
         TypeOK
<1>27. ASSUME NEW c \in Conn, RunPanics(c) PROVE Owners'
  BY <1>27 DEF RunPanics, Owners, HandlerOwns,
         QueuedIsInQueue, QueueWasSubmitted, RunsAlone, BeforeSubmit, AfterSubmit,
         TypeOK
<1>28. ASSUME NEW c \in Conn, MonitorPoll(c) PROVE Owners'
  BY <1>28 DEF MonitorPoll, Finished, Owners, HandlerOwns,
         QueuedIsInQueue, QueueWasSubmitted, RunsAlone, BeforeSubmit, AfterSubmit,
         TypeOK
<1>29. ASSUME NEW c \in Conn, MonitorLook(c) PROVE Owners'
  BY <1>29 DEF MonitorLook, PeekSaysGone, Owners, HandlerOwns,
         QueuedIsInQueue, QueueWasSubmitted, RunsAlone, BeforeSubmit, AfterSubmit,
         TypeOK
<1>30. CASE UNCHANGED vars
  BY <1>30 DEF vars, Owners, HandlerOwns,
         QueuedIsInQueue, QueueWasSubmitted, RunsAlone, BeforeSubmit, AfterSubmit,
         TypeOK
<1> QED
  BY <1>1, <1>2, <1>3, <1>4, <1>5, <1>6, <1>7, <1>8, <1>9, <1>10, <1>11, <1>12, <1>13, <1>14, <1>15, <1>16, <1>17,
     <1>18, <1>19, <1>20, <1>21, <1>22, <1>23, <1>24, <1>25, <1>26, <1>27, <1>28, <1>29, <1>30
  DEF Next, Terminated, MainStep, HandlerStep, WorkerStep, RunStep, MonitorStep

-----------------------------------------------------------------------------
(* How far the threads have come.                                          *)

(* The main thread and the worker end in order. *)
LEMMA PhasesStep ==
  ASSUME TypeOK, Owners, Phases, [Next]_vars
  PROVE  Phases'
<1>1. CASE Signal
  BY <1>1 DEF Signal, Phases,
         EndedWorker, LiveIsJoined, MainPhases, TypeOK, Owners,
         HandlerOwns, QueuedIsInQueue, RunsAlone, BeforeSubmit
<1>2. CASE LoadOk
  BY <1>2 DEF LoadOk, Phases,
         EndedWorker, LiveIsJoined, MainPhases, TypeOK, Owners,
         HandlerOwns, QueuedIsInQueue, RunsAlone, BeforeSubmit
<1>3. CASE LoadFails
  BY <1>3 DEF LoadFails, Phases,
         EndedWorker, LiveIsJoined, MainPhases, TypeOK, Owners,
         HandlerOwns, QueuedIsInQueue, RunsAlone, BeforeSubmit
<1>4. CASE LeaveLoop
  BY <1>4 DEF LeaveLoop, StopRequested, Phases,
         EndedWorker, LiveIsJoined, MainPhases, TypeOK, Owners,
         HandlerOwns, QueuedIsInQueue, RunsAlone, BeforeSubmit
<1>5. CASE ReapFinished
  BY <1>5 DEF ReapFinished, StopRequested, Ended, Phases,
         EndedWorker, LiveIsJoined, MainPhases, TypeOK, Owners,
         HandlerOwns, QueuedIsInQueue, RunsAlone, BeforeSubmit
<1>6. CASE ReapPanicked
  BY <1>6 DEF ReapPanicked, StopRequested, Ended, Phases,
         EndedWorker, LiveIsJoined, MainPhases, TypeOK, Owners,
         HandlerOwns, QueuedIsInQueue, RunsAlone, BeforeSubmit
<1>7. CASE AcceptNone
  BY <1>7 DEF AcceptNone, Phases,
         EndedWorker, LiveIsJoined, MainPhases, TypeOK, Owners,
         HandlerOwns, QueuedIsInQueue, RunsAlone, BeforeSubmit
<1>8. CASE AcceptFails
  BY <1>8 DEF AcceptFails, Phases,
         EndedWorker, LiveIsJoined, MainPhases, TypeOK, Owners,
         HandlerOwns, QueuedIsInQueue, RunsAlone, BeforeSubmit
<1>9. CASE AllJoined
  BY <1>9 DEF AllJoined, Phases,
         EndedWorker, LiveIsJoined, MainPhases, TypeOK, Owners,
         HandlerOwns, QueuedIsInQueue, RunsAlone, BeforeSubmit
<1>10. CASE JoinWorker
  BY <1>10 DEF JoinWorker, Phases,
         EndedWorker, LiveIsJoined, MainPhases, TypeOK, Owners,
         HandlerOwns, QueuedIsInQueue, RunsAlone, BeforeSubmit
<1>11. ASSUME NEW c \in Conn, TurnAway(c) PROVE Phases'
  BY <1>11 DEF TurnAway, CountLate, Phases,
         EndedWorker, LiveIsJoined, MainPhases, TypeOK, Owners,
         HandlerOwns, QueuedIsInQueue, RunsAlone, BeforeSubmit
<1>12. ASSUME NEW c \in Conn, Accept(c) PROVE Phases'
  BY <1>12 DEF Accept, CountLate, Phases,
         EndedWorker, LiveIsJoined, MainPhases, TypeOK, Owners,
         HandlerOwns, QueuedIsInQueue, RunsAlone, BeforeSubmit
<1>13. ASSUME NEW c \in Conn, SpawnFails(c) PROVE Phases'
  BY <1>13 DEF SpawnFails, CountLate, Phases,
         EndedWorker, LiveIsJoined, MainPhases, TypeOK, Owners,
         HandlerOwns, QueuedIsInQueue, RunsAlone, BeforeSubmit
<1>14. ASSUME NEW c \in Conn, JoinHandler(c) PROVE Phases'
  BY <1>14 DEF JoinHandler, Ended, Phases,
         EndedWorker, LiveIsJoined, MainPhases, TypeOK, Owners,
         HandlerOwns, QueuedIsInQueue, RunsAlone, BeforeSubmit
<1>15. ASSUME NEW c \in Conn, Connect(c) PROVE Phases'
  BY <1>15 DEF Connect, Phases,
         EndedWorker, LiveIsJoined, MainPhases, TypeOK, Owners,
         HandlerOwns, QueuedIsInQueue, RunsAlone, BeforeSubmit
<1>16. ASSUME NEW c \in Conn, ClientLeaves(c) PROVE Phases'
  BY <1>16 DEF ClientLeaves, Phases,
         EndedWorker, LiveIsJoined, MainPhases, TypeOK, Owners,
         HandlerOwns, QueuedIsInQueue, RunsAlone, BeforeSubmit
<1>17. ASSUME NEW c \in Conn, ReadRequest(c) PROVE Phases'
  BY <1>17 DEF ReadRequest, Phases,
         EndedWorker, LiveIsJoined, MainPhases, TypeOK, Owners,
         HandlerOwns, QueuedIsInQueue, RunsAlone, BeforeSubmit
<1>18. ASSUME NEW c \in Conn, RejectRequest(c) PROVE Phases'
  BY <1>18 DEF RejectRequest, Phases,
         EndedWorker, LiveIsJoined, MainPhases, TypeOK, Owners,
         HandlerOwns, QueuedIsInQueue, RunsAlone, BeforeSubmit
<1>19. ASSUME NEW c \in Conn, StartMonitor(c) PROVE Phases'
  BY <1>19 DEF StartMonitor, Phases,
         EndedWorker, LiveIsJoined, MainPhases, TypeOK, Owners,
         HandlerOwns, QueuedIsInQueue, RunsAlone, BeforeSubmit
<1>20. ASSUME NEW c \in Conn, StartMonitorPanics(c) PROVE Phases'
  BY <1>20 DEF StartMonitorPanics, Phases,
         EndedWorker, LiveIsJoined, MainPhases, TypeOK, Owners,
         HandlerOwns, QueuedIsInQueue, RunsAlone, BeforeSubmit
<1>21. ASSUME NEW c \in Conn, Submit(c) PROVE Phases'
  BY <1>21 DEF Submit, ReceiverAlive, QueueFull, Phases,
         EndedWorker, LiveIsJoined, MainPhases, TypeOK, Owners,
         HandlerOwns, QueuedIsInQueue, RunsAlone, BeforeSubmit
<1>22. ASSUME NEW c \in Conn, SubmitRefused(c) PROVE Phases'
  BY <1>22 DEF SubmitRefused, ReceiverAlive, Phases,
         EndedWorker, LiveIsJoined, MainPhases, TypeOK, Owners,
         HandlerOwns, QueuedIsInQueue, RunsAlone, BeforeSubmit
<1>23. CASE Receive
  BY <1>23 DEF Receive, Phases,
         EndedWorker, LiveIsJoined, MainPhases, TypeOK, Owners,
         HandlerOwns, QueuedIsInQueue, RunsAlone, BeforeSubmit
<1>24. CASE DropReceiver
  BY <1>24 DEF DropReceiver, Phases,
         EndedWorker, LiveIsJoined, MainPhases, TypeOK, Owners,
         HandlerOwns, QueuedIsInQueue, RunsAlone, BeforeSubmit
<1>25. CASE WorkerExits
  BY <1>25 DEF WorkerExits, NoSenders, Phases,
         EndedWorker, LiveIsJoined, MainPhases, TypeOK, Owners,
         HandlerOwns, QueuedIsInQueue, RunsAlone, BeforeSubmit
<1>26. ASSUME NEW c \in Conn, RunEnds(c) PROVE Phases'
  BY <1>26 DEF RunEnds, Phases,
         EndedWorker, LiveIsJoined, MainPhases, TypeOK, Owners,
         HandlerOwns, QueuedIsInQueue, RunsAlone, BeforeSubmit
<1>27. ASSUME NEW c \in Conn, RunPanics(c) PROVE Phases'
  BY <1>27 DEF RunPanics, Phases,
         EndedWorker, LiveIsJoined, MainPhases, TypeOK, Owners,
         HandlerOwns, QueuedIsInQueue, RunsAlone, BeforeSubmit
<1>28. ASSUME NEW c \in Conn, MonitorPoll(c) PROVE Phases'
  BY <1>28 DEF MonitorPoll, Finished, Phases,
         EndedWorker, LiveIsJoined, MainPhases, TypeOK, Owners,
         HandlerOwns, QueuedIsInQueue, RunsAlone, BeforeSubmit
<1>29. ASSUME NEW c \in Conn, MonitorLook(c) PROVE Phases'
  BY <1>29 DEF MonitorLook, PeekSaysGone, Phases,
         EndedWorker, LiveIsJoined, MainPhases, TypeOK, Owners,
         HandlerOwns, QueuedIsInQueue, RunsAlone, BeforeSubmit
<1>30. CASE UNCHANGED vars
  BY <1>30 DEF vars, Phases,
         EndedWorker, LiveIsJoined, MainPhases, TypeOK, Owners,
         HandlerOwns, QueuedIsInQueue, RunsAlone, BeforeSubmit
<1> QED
  BY <1>1, <1>2, <1>3, <1>4, <1>5, <1>6, <1>7, <1>8, <1>9, <1>10, <1>11, <1>12, <1>13, <1>14, <1>15, <1>16, <1>17,
     <1>18, <1>19, <1>20, <1>21, <1>22, <1>23, <1>24, <1>25, <1>26, <1>27, <1>28, <1>29, <1>30
  DEF Next, Terminated, MainStep, HandlerStep, WorkerStep, RunStep, MonitorStep

-----------------------------------------------------------------------------
(* What has happened to a request.                                         *)

(* Tokens are cancelled and sockets closed for a reason. *)
LEMMA CauseStep ==
  ASSUME TypeOK, Owners, MainPhases, CancelHasCause, NoSilentDrop, [Next]_vars
  PROVE  (CancelHasCause /\ NoSilentDrop)'
<1>1. CASE Signal
  BY <1>1 DEF Signal, TypeOK, Owners, MainPhases,
         HandlerOwns, BeforeSubmit, RunsAlone, CancelHasCause, NoSilentDrop
<1>2. CASE LoadOk
  BY <1>2 DEF LoadOk, TypeOK, Owners, MainPhases,
         HandlerOwns, BeforeSubmit, RunsAlone, CancelHasCause, NoSilentDrop
<1>3. CASE LoadFails
  BY <1>3 DEF LoadFails, TypeOK, Owners, MainPhases,
         HandlerOwns, BeforeSubmit, RunsAlone, CancelHasCause, NoSilentDrop
<1>4. CASE LeaveLoop
  BY <1>4 DEF LeaveLoop, StopRequested, TypeOK, Owners, MainPhases,
         HandlerOwns, BeforeSubmit, RunsAlone, CancelHasCause, NoSilentDrop
<1>5. CASE ReapFinished
  BY <1>5 DEF ReapFinished, StopRequested, Ended, TypeOK, Owners, MainPhases,
         HandlerOwns, BeforeSubmit, RunsAlone, CancelHasCause, NoSilentDrop
<1>6. CASE ReapPanicked
  BY <1>6 DEF ReapPanicked, StopRequested, Ended, TypeOK, Owners, MainPhases,
         HandlerOwns, BeforeSubmit, RunsAlone, CancelHasCause, NoSilentDrop
<1>7. CASE AcceptNone
  BY <1>7 DEF AcceptNone, TypeOK, Owners, MainPhases,
         HandlerOwns, BeforeSubmit, RunsAlone, CancelHasCause, NoSilentDrop
<1>8. CASE AcceptFails
  BY <1>8 DEF AcceptFails, TypeOK, Owners, MainPhases,
         HandlerOwns, BeforeSubmit, RunsAlone, CancelHasCause, NoSilentDrop
<1>9. CASE AllJoined
  BY <1>9 DEF AllJoined, TypeOK, Owners, MainPhases,
         HandlerOwns, BeforeSubmit, RunsAlone, CancelHasCause, NoSilentDrop
<1>10. CASE JoinWorker
  BY <1>10 DEF JoinWorker, TypeOK, Owners, MainPhases,
         HandlerOwns, BeforeSubmit, RunsAlone, CancelHasCause, NoSilentDrop
<1>11. ASSUME NEW c \in Conn, TurnAway(c) PROVE (CancelHasCause /\ NoSilentDrop)'
  BY <1>11 DEF TurnAway, CountLate, TypeOK, Owners, MainPhases,
         HandlerOwns, BeforeSubmit, RunsAlone, CancelHasCause, NoSilentDrop
<1>12. ASSUME NEW c \in Conn, Accept(c) PROVE (CancelHasCause /\ NoSilentDrop)'
  BY <1>12 DEF Accept, CountLate, TypeOK, Owners, MainPhases,
         HandlerOwns, BeforeSubmit, RunsAlone, CancelHasCause, NoSilentDrop
<1>13. ASSUME NEW c \in Conn, SpawnFails(c) PROVE (CancelHasCause /\ NoSilentDrop)'
  BY <1>13 DEF SpawnFails, CountLate, TypeOK, Owners, MainPhases,
         HandlerOwns, BeforeSubmit, RunsAlone, CancelHasCause, NoSilentDrop
<1>14. ASSUME NEW c \in Conn, JoinHandler(c) PROVE (CancelHasCause /\ NoSilentDrop)'
  BY <1>14 DEF JoinHandler, Ended, TypeOK, Owners, MainPhases,
         HandlerOwns, BeforeSubmit, RunsAlone, CancelHasCause, NoSilentDrop
<1>15. ASSUME NEW c \in Conn, Connect(c) PROVE (CancelHasCause /\ NoSilentDrop)'
  BY <1>15 DEF Connect, TypeOK, Owners, MainPhases,
         HandlerOwns, BeforeSubmit, RunsAlone, CancelHasCause, NoSilentDrop
<1>16. ASSUME NEW c \in Conn, ClientLeaves(c) PROVE (CancelHasCause /\ NoSilentDrop)'
  BY <1>16 DEF ClientLeaves, TypeOK, Owners, MainPhases,
         HandlerOwns, BeforeSubmit, RunsAlone, CancelHasCause, NoSilentDrop
<1>17. ASSUME NEW c \in Conn, ReadRequest(c) PROVE (CancelHasCause /\ NoSilentDrop)'
  BY <1>17 DEF ReadRequest, TypeOK, Owners, MainPhases,
         HandlerOwns, BeforeSubmit, RunsAlone, CancelHasCause, NoSilentDrop
<1>18. ASSUME NEW c \in Conn, RejectRequest(c) PROVE (CancelHasCause /\ NoSilentDrop)'
  BY <1>18 DEF RejectRequest, TypeOK, Owners, MainPhases,
         HandlerOwns, BeforeSubmit, RunsAlone, CancelHasCause, NoSilentDrop
<1>19. ASSUME NEW c \in Conn, StartMonitor(c) PROVE (CancelHasCause /\ NoSilentDrop)'
  BY <1>19 DEF StartMonitor, TypeOK, Owners, MainPhases,
         HandlerOwns, BeforeSubmit, RunsAlone, CancelHasCause, NoSilentDrop
<1>20. ASSUME NEW c \in Conn, StartMonitorPanics(c) PROVE (CancelHasCause /\ NoSilentDrop)'
  BY <1>20 DEF StartMonitorPanics, TypeOK, Owners, MainPhases,
         HandlerOwns, BeforeSubmit, RunsAlone, CancelHasCause, NoSilentDrop
<1>21. ASSUME NEW c \in Conn, Submit(c) PROVE (CancelHasCause /\ NoSilentDrop)'
  BY <1>21 DEF Submit, ReceiverAlive, QueueFull, TypeOK, Owners, MainPhases,
         HandlerOwns, BeforeSubmit, RunsAlone, CancelHasCause, NoSilentDrop
<1>22. ASSUME NEW c \in Conn, SubmitRefused(c) PROVE (CancelHasCause /\ NoSilentDrop)'
  BY <1>22 DEF SubmitRefused, ReceiverAlive, TypeOK, Owners, MainPhases,
         HandlerOwns, BeforeSubmit, RunsAlone, CancelHasCause, NoSilentDrop
<1>23. CASE Receive
  BY <1>23 DEF Receive, TypeOK, Owners, MainPhases,
         HandlerOwns, BeforeSubmit, RunsAlone, CancelHasCause, NoSilentDrop
<1>24. CASE DropReceiver
  BY <1>24 DEF DropReceiver, TypeOK, Owners, MainPhases,
         HandlerOwns, BeforeSubmit, RunsAlone, CancelHasCause, NoSilentDrop
<1>25. CASE WorkerExits
  BY <1>25 DEF WorkerExits, NoSenders, TypeOK, Owners, MainPhases,
         HandlerOwns, BeforeSubmit, RunsAlone, CancelHasCause, NoSilentDrop
<1>26. ASSUME NEW c \in Conn, RunEnds(c) PROVE (CancelHasCause /\ NoSilentDrop)'
  BY <1>26 DEF RunEnds, TypeOK, Owners, MainPhases,
         HandlerOwns, BeforeSubmit, RunsAlone, CancelHasCause, NoSilentDrop
<1>27. ASSUME NEW c \in Conn, RunPanics(c) PROVE (CancelHasCause /\ NoSilentDrop)'
  BY <1>27 DEF RunPanics, TypeOK, Owners, MainPhases,
         HandlerOwns, BeforeSubmit, RunsAlone, CancelHasCause, NoSilentDrop
<1>28. ASSUME NEW c \in Conn, MonitorPoll(c) PROVE (CancelHasCause /\ NoSilentDrop)'
  BY <1>28 DEF MonitorPoll, Finished, TypeOK, Owners, MainPhases,
         HandlerOwns, BeforeSubmit, RunsAlone, CancelHasCause, NoSilentDrop
<1>29. ASSUME NEW c \in Conn, MonitorLook(c) PROVE (CancelHasCause /\ NoSilentDrop)'
  BY <1>29 DEF MonitorLook, PeekSaysGone, TypeOK, Owners, MainPhases,
         HandlerOwns, BeforeSubmit, RunsAlone, CancelHasCause, NoSilentDrop
<1>30. CASE UNCHANGED vars
  BY <1>30 DEF vars, TypeOK, Owners, MainPhases,
         HandlerOwns, BeforeSubmit, RunsAlone, CancelHasCause, NoSilentDrop
<1> QED
  BY <1>1, <1>2, <1>3, <1>4, <1>5, <1>6, <1>7, <1>8, <1>9, <1>10, <1>11, <1>12, <1>13, <1>14, <1>15, <1>16, <1>17,
     <1>18, <1>19, <1>20, <1>21, <1>22, <1>23, <1>24, <1>25, <1>26, <1>27, <1>28, <1>29, <1>30
  DEF Next, Terminated, MainStep, HandlerStep, WorkerStep, RunStep, MonitorStep

(* A late accept is the last. *)
LEMMA LateStep ==
  ASSUME TypeOK, LateLeaves, [Next]_vars
  PROVE  LateLeaves'
<1>1. CASE Signal
  BY <1>1 DEF Signal, LateLeaves, TypeOK
<1>2. CASE LoadOk
  BY <1>2 DEF LoadOk, LateLeaves, TypeOK
<1>3. CASE LoadFails
  BY <1>3 DEF LoadFails, LateLeaves, TypeOK
<1>4. CASE LeaveLoop
  BY <1>4 DEF LeaveLoop, StopRequested, LateLeaves, TypeOK
<1>5. CASE ReapFinished
  BY <1>5 DEF ReapFinished, StopRequested, Ended, LateLeaves, TypeOK
<1>6. CASE ReapPanicked
  BY <1>6 DEF ReapPanicked, StopRequested, Ended, LateLeaves, TypeOK
<1>7. CASE AcceptNone
  BY <1>7 DEF AcceptNone, LateLeaves, TypeOK
<1>8. CASE AcceptFails
  BY <1>8 DEF AcceptFails, LateLeaves, TypeOK
<1>9. CASE AllJoined
  BY <1>9 DEF AllJoined, LateLeaves, TypeOK
<1>10. CASE JoinWorker
  BY <1>10 DEF JoinWorker, LateLeaves, TypeOK
<1>11. ASSUME NEW c \in Conn, TurnAway(c) PROVE LateLeaves'
  BY <1>11 DEF TurnAway, CountLate, LateLeaves, TypeOK
<1>12. ASSUME NEW c \in Conn, Accept(c) PROVE LateLeaves'
  BY <1>12 DEF Accept, CountLate, LateLeaves, TypeOK
<1>13. ASSUME NEW c \in Conn, SpawnFails(c) PROVE LateLeaves'
  BY <1>13 DEF SpawnFails, CountLate, LateLeaves, TypeOK
<1>14. ASSUME NEW c \in Conn, JoinHandler(c) PROVE LateLeaves'
  BY <1>14 DEF JoinHandler, Ended, LateLeaves, TypeOK
<1>15. ASSUME NEW c \in Conn, Connect(c) PROVE LateLeaves'
  BY <1>15 DEF Connect, LateLeaves, TypeOK
<1>16. ASSUME NEW c \in Conn, ClientLeaves(c) PROVE LateLeaves'
  BY <1>16 DEF ClientLeaves, LateLeaves, TypeOK
<1>17. ASSUME NEW c \in Conn, ReadRequest(c) PROVE LateLeaves'
  BY <1>17 DEF ReadRequest, LateLeaves, TypeOK
<1>18. ASSUME NEW c \in Conn, RejectRequest(c) PROVE LateLeaves'
  BY <1>18 DEF RejectRequest, LateLeaves, TypeOK
<1>19. ASSUME NEW c \in Conn, StartMonitor(c) PROVE LateLeaves'
  BY <1>19 DEF StartMonitor, LateLeaves, TypeOK
<1>20. ASSUME NEW c \in Conn, StartMonitorPanics(c) PROVE LateLeaves'
  BY <1>20 DEF StartMonitorPanics, LateLeaves, TypeOK
<1>21. ASSUME NEW c \in Conn, Submit(c) PROVE LateLeaves'
  BY <1>21 DEF Submit, ReceiverAlive, QueueFull, LateLeaves, TypeOK
<1>22. ASSUME NEW c \in Conn, SubmitRefused(c) PROVE LateLeaves'
  BY <1>22 DEF SubmitRefused, ReceiverAlive, LateLeaves, TypeOK
<1>23. CASE Receive
  BY <1>23 DEF Receive, LateLeaves, TypeOK
<1>24. CASE DropReceiver
  BY <1>24 DEF DropReceiver, LateLeaves, TypeOK
<1>25. CASE WorkerExits
  BY <1>25 DEF WorkerExits, NoSenders, LateLeaves, TypeOK
<1>26. ASSUME NEW c \in Conn, RunEnds(c) PROVE LateLeaves'
  BY <1>26 DEF RunEnds, LateLeaves, TypeOK
<1>27. ASSUME NEW c \in Conn, RunPanics(c) PROVE LateLeaves'
  BY <1>27 DEF RunPanics, LateLeaves, TypeOK
<1>28. ASSUME NEW c \in Conn, MonitorPoll(c) PROVE LateLeaves'
  BY <1>28 DEF MonitorPoll, Finished, LateLeaves, TypeOK
<1>29. ASSUME NEW c \in Conn, MonitorLook(c) PROVE LateLeaves'
  BY <1>29 DEF MonitorLook, PeekSaysGone, LateLeaves, TypeOK
<1>30. CASE UNCHANGED vars
  BY <1>30 DEF vars, LateLeaves, TypeOK
<1> QED
  BY <1>1, <1>2, <1>3, <1>4, <1>5, <1>6, <1>7, <1>8, <1>9, <1>10, <1>11, <1>12, <1>13, <1>14, <1>15, <1>16, <1>17,
     <1>18, <1>19, <1>20, <1>21, <1>22, <1>23, <1>24, <1>25, <1>26, <1>27, <1>28, <1>29, <1>30
  DEF Next, Terminated, MainStep, HandlerStep, WorkerStep, RunStep, MonitorStep

-----------------------------------------------------------------------------
(* The theorems.                                                           *)

(* The inductive invariant holds of every reachable state. *)
THEOREM Invariance == Spec => []ServerInv
<1>1. Init => ServerInv
  <2>1. Init => TypeOK
    <3>1. <<>> \in Seq(Conn) /\ Len(<<>>) <= QueueCap
      BY ServerAssumption
    <3>2. ASSUME Init
          PROVE  /\ where \in [Conn -> Places]
                 /\ handler \in [Conn -> {"none", "live", "finished", "panicked"}]
                 /\ monitor \in [Conn -> {"none", "poll", "look", "off"}]
                 /\ reply \in [Conn -> Replies]
      BY <3>2 DEF Init, Places, Replies
    <3>3. ASSUME Init
          PROVE  /\ main \in MainStates /\ worker \in WorkerStates
                 /\ shutdown \in BOOLEAN /\ late \in Nat
                 /\ joins \subseteq Conn /\ cancelled \subseteq Conn
                 /\ gone \subseteq Conn
                 /\ queue \in Seq(Conn) /\ Len(queue) <= QueueCap
      BY <3>1, <3>3 DEF Init, MainStates, WorkerStates
    <3> QED
      BY <3>2, <3>3 DEF TypeOK
  <2>2. Init => Owners
    BY DEF Init, Owners, HandlerOwns, QueuedIsInQueue, QueueWasSubmitted,
           RunsAlone, BeforeSubmit
  <2>3. Init => Phases
    BY DEF Init, Phases, EndedWorker, LiveIsJoined, MainPhases
  <2>4. Init => CancelHasCause /\ NoSilentDrop /\ LateLeaves
    BY DEF Init, CancelHasCause, NoSilentDrop, LateLeaves
  <2> QED
    BY <2>1, <2>2, <2>3, <2>4 DEF ServerInv
<1>2. ServerInv /\ [Next]_vars => ServerInv'
  <2> SUFFICES ASSUME ServerInv, [Next]_vars PROVE ServerInv'
    OBVIOUS
  <2>1. TypeOK'
    BY TypeStep DEF ServerInv
  <2>2. Owners'
    BY OwnersStep DEF ServerInv, Phases
  <2>3. Phases'
    BY PhasesStep DEF ServerInv
  <2>4. CancelHasCause' /\ NoSilentDrop'
    BY CauseStep DEF ServerInv, Phases
  <2>5. LateLeaves'
    BY LateStep DEF ServerInv
  <2> QED
    BY <2>1, <2>2, <2>3, <2>4, <2>5 DEF ServerInv
<1> QED
  BY <1>1, <1>2, PTL DEF Spec

(* The threads keep every variable in its type, the queue within its *)
(* capacity included (sync_channel's bound, tested by try_send). *)
THEOREM TypeCorrect == Spec => []TypeOK
<1>1. ServerInv => TypeOK
  BY DEF ServerInv
<1> QED
  BY <1>1, Invariance, PTL

(* An ended worker leaves no request in the queue or running. *)
THEOREM NothingStranded == Spec => []NoRequestStranded
<1>1. ServerInv => NoRequestStranded
  BY DEF ServerInv, NoRequestStranded, Phases, EndedWorker, Owners,
         QueuedIsInQueue, RunsAlone, TypeOK
<1> QED
  BY <1>1, Invariance, PTL

(* A client that stays is answered, unless the server stops or a thread *)
(* panicked. *)
THEOREM ClientsAreAnswered == Spec => []NoSilentDrop
<1>1. ServerInv => NoSilentDrop
  BY DEF ServerInv
<1> QED
  BY <1>1, Invariance, PTL

(* At most one connection is accepted after the signal. *)
THEOREM OneLateAccept == Spec => []AtMostOneLateAccept
<1>1. ServerInv => AtMostOneLateAccept
  BY DEF ServerInv, LateLeaves, AtMostOneLateAccept
<1> QED
  BY <1>1, Invariance, PTL

(* run returns only when the handlers and the worker are done with every *)
(* connection, up to the double panic ExitsQuiet names. *)
THEOREM StopsQuietly == Spec => []ExitsQuiet
<1>1. ServerInv => ExitsQuiet
  <2> SUFFICES ASSUME ServerInv, main = "stopped" PROVE ExitsQuiet
    BY DEF ExitsQuiet
  <2>1. worker \in {"dead", "exited"} /\ queue = <<>>
    BY DEF ServerInv, Phases, EndedWorker, MainPhases
  <2>2. \A c \in Conn : where[c] \notin {"queued", "running"}
    BY <2>1 DEF ServerInv, Owners, QueuedIsInQueue, RunsAlone
  <2>3. CASE \A c \in Conn : handler[c] # "live"
    BY <2>2, <2>3 DEF ServerInv, TypeOK, Places, Owners, HandlerOwns, BeforeSubmit,
                      ExitsQuiet
  <2>4. CASE \E c \in Conn : handler[c] = "live"
    <3>1. worker = "dead"
      BY <2>1, <2>4 DEF ServerInv, Phases, EndedWorker
    <3> QED
      BY <3>1, <2>4 DEF ServerInv, Phases, MainPhases, LiveIsJoined, ExitsQuiet
  <2> QED
    BY <2>3, <2>4
<1> QED
  BY <1>1, Invariance, PTL

-----------------------------------------------------------------------------
(* What the server holds is bounded.                                       *)

LiveBound == Cardinality(Live) <= ConnLimit

(* No handler is live that was not, unless a connection is accepted. *)
LEMMA LiveOnlyGrowsByAccept ==
  ASSUME TypeOK, [Next]_vars, \A c \in Conn : ~Accept(c)
  PROVE  Live' \subseteq Live
<1>1. CASE UNCHANGED vars
  BY <1>1 DEF vars, Live
<1>2. CASE Signal \/ Terminated \/ \E c \in Conn : Connect(c) \/ ClientLeaves(c)
  BY <1>2 DEF Signal, Terminated, Connect, ClientLeaves, vars, Live
<1>3. CASE MainStep
  BY <1>3 DEF MainStep, LoadOk, LoadFails, LeaveLoop, ReapFinished, ReapPanicked,
              AcceptNone, AcceptFails, AllJoined, JoinWorker, TurnAway, SpawnFails,
              JoinHandler, Live
<1>4. CASE WorkerStep
  BY <1>4 DEF WorkerStep, Receive, RunStep, RunEnds, RunPanics, DropReceiver,
              WorkerExits, Live
<1>5. CASE \E c \in Conn : HandlerStep(c)
  <2> PICK c \in Conn : HandlerStep(c)
    BY <1>5
  <2>1. \/ UNCHANGED handler
        \/ \E s \in {"finished", "panicked"} : handler' = [handler EXCEPT ![c] = s]
    BY DEF HandlerStep, ReadRequest, RejectRequest, StartMonitor, StartMonitorPanics,
           Submit, SubmitRefused
  <2> QED
    BY <2>1 DEF TypeOK, Live
<1>6. CASE \E c \in Conn : MonitorStep(c)
  BY <1>6 DEF MonitorStep, MonitorPoll, MonitorLook, Live
<1> QED
  BY <1>1, <1>2, <1>3, <1>4, <1>5, <1>6 DEF Next

(* A connection is accepted below the limit only, while main knows every live *)
(* handler. *)
LEMMA LiveStep ==
  ASSUME TypeOK, LiveIsJoined, LiveBound, [Next]_vars
  PROVE  LiveBound'
<1>1. IsFiniteSet(Live) /\ IsFiniteSet(joins)
  BY ServerAssumption, FS_Subset DEF TypeOK, Live
<1>2. CASE \A c \in Conn : ~Accept(c)
  <2>1. Live' \subseteq Live
    BY <1>2, LiveOnlyGrowsByAccept
  <2>2. Cardinality(Live') <= Cardinality(Live)
    BY <1>1, <2>1, FS_Subset
  <2>3. Cardinality(Live') \in Nat /\ Cardinality(Live) \in Nat
    BY <1>1, <2>1, FS_Subset, FS_CardinalityType
  <2> QED
    BY <2>2, <2>3, ServerAssumption DEF LiveBound
<1>3. CASE \E c \in Conn : Accept(c)
  <2> PICK c \in Conn : Accept(c)
    BY <1>3
  <2>1. Live \subseteq joins
    BY DEF LiveIsJoined, Accept, Live
  <2>2. Live' \subseteq Live \cup {c}
    BY DEF Accept, Live, TypeOK
  <2>3. Cardinality(Live) <= Cardinality(joins) /\ Cardinality(joins) < ConnLimit
    <3>1. Cardinality(Live) <= Cardinality(joins)
      BY <1>1, <2>1, FS_Subset
    <3>2. Cardinality(joins) \in Nat
      BY <1>1, FS_CardinalityType
    <3> QED
      BY <3>1, <3>2, ServerAssumption DEF Accept, IsFull
  <2>4. IsFiniteSet(Live \cup {c}) /\ Cardinality(Live \cup {c}) <= Cardinality(Live) + 1
    <3>1. Cardinality(Live) \in Nat
      BY <1>1, FS_CardinalityType
    <3>2. /\ IsFiniteSet(Live \cup {c})
          /\ Cardinality(Live \cup {c})
               = IF c \in Live THEN Cardinality(Live) ELSE Cardinality(Live) + 1
      BY <1>1, FS_AddElement, Zenon
    <3>3. (IF c \in Live THEN Cardinality(Live) ELSE Cardinality(Live) + 1)
            <= Cardinality(Live) + 1
      BY <3>1
    <3> QED
      BY <3>2, <3>3
  <2>5. Cardinality(Live') <= Cardinality(Live \cup {c})
    BY <2>2, <2>4, FS_Subset
  <2>6. /\ Cardinality(Live') \in Nat /\ Cardinality(Live) \in Nat
        /\ Cardinality(Live \cup {c}) \in Nat /\ Cardinality(joins) \in Nat
    BY <1>1, <2>2, <2>4, FS_Subset, FS_CardinalityType
  <2> QED
    BY <2>3, <2>4, <2>5, <2>6, ServerAssumption DEF LiveBound
<1> QED
  BY <1>2, <1>3

(* A queued request has a place of its own in the queue. *)
LEMMA QueuedBound ==
  ASSUME TypeOK, QueuedIsInQueue
  PROVE  Cardinality({c \in Conn : where[c] = "queued"}) <= QueueCap
<1> DEFINE Q == {c \in Conn : where[c] = "queued"}
           f == [c \in Q |-> CHOOSE i \in 1..Len(queue) : queue[i] = c]
<1>1. IsFiniteSet(Q) /\ Cardinality(Q) \in Nat
  BY ServerAssumption, FS_Subset, FS_CardinalityType
<1>2. Len(queue) \in Nat
  BY DEF TypeOK
<1>3. IsFiniteSet(1..Len(queue)) /\ Cardinality(1..Len(queue)) = Len(queue)
  <2>1. 1 \in Int /\ Len(queue) \in Int
    BY <1>2
  <2>2. /\ IsFiniteSet(1..Len(queue))
        /\ Cardinality(1..Len(queue))
             = IF 1 > Len(queue) THEN 0 ELSE Len(queue) - 1 + 1
    <3> HIDE DEF Q, f
    <3> QED
      BY <2>1, FS_Interval, Zenon
  <2>3. (IF 1 > Len(queue) THEN 0 ELSE Len(queue) - 1 + 1) = Len(queue)
    BY <1>2
  <2> QED
    BY <2>2, <2>3
<1>4. \A c \in Q : f[c] \in 1..Len(queue) /\ queue[f[c]] = c
  BY DEF QueuedIsInQueue
<1>5. f \in [Q -> 1..Len(queue)]
  BY <1>4
<1>6. ~(Cardinality(1..Len(queue)) < Cardinality(Q))
  <2> SUFFICES ASSUME Cardinality(1..Len(queue)) < Cardinality(Q) PROVE FALSE
    OBVIOUS
  <2>1. \E x, y \in Q : x # y /\ f[x] = f[y]
    <3> HIDE DEF Q, f
    <3> QED
      BY <1>1, <1>3, <1>5, FS_PigeonHole
  <2> QED
    BY <2>1, <1>4
<1> QED
  BY <1>1, <1>2, <1>3, <1>6, ServerAssumption DEF TypeOK

(* For any number of connections, the server holds no more live handlers than *)
(* its limit, no more waiting requests than its queue, and one that runs. *)
THEOREM HoldingsBounded == Spec => []OpenBound
<1>1. Init => LiveBound
  <2> SUFFICES ASSUME Init PROVE LiveBound
    OBVIOUS
  <2>1. Live = {}
    BY DEF Init, Live
  <2> QED
    BY <2>1, FS_EmptySet, ServerAssumption DEF LiveBound
<1>2. ServerInv /\ LiveBound /\ [Next]_vars => LiveBound'
  BY LiveStep DEF ServerInv, Phases
<1>3. ServerInv /\ LiveBound => OpenBound
  <2> SUFFICES ASSUME ServerInv, LiveBound PROVE OpenBound
    OBVIOUS
  <2> DEFINE R == {c \in Conn : where[c] = "running"}
  <2>1. R = {} \/ \E c : R = {c}
    BY DEF ServerInv, Owners, RunsAlone
  <2>2. Cardinality(R) = 0 \/ Cardinality(R) = 1
    <3> HIDE DEF R
    <3>1. CASE R = {}
      BY <3>1, FS_EmptySet, Zenon
    <3>2. CASE \E c : R = {c}
      BY <3>2, FS_Singleton, Zenon
    <3> QED
      BY <2>1, <3>1, <3>2
  <2> QED
    BY <2>2, QueuedBound DEF ServerInv, Owners, LiveBound, OpenBound
<1> QED
  BY <1>1, <1>2, <1>3, Invariance, PTL DEF Spec
=============================================================================
