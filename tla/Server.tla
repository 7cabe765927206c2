------------------------------- MODULE Server -------------------------------
(***************************************************************************)
(* The threads of `runNburn serve` (crates/rnb-cli/src/server): the main   *)
(* thread's accept loop and shutdown (run in mod.rs, ConnectionThreads in  *)
(* lifecycle.rs), one handler thread per connection (handle_connection),   *)
(* the bounded queue to the engine worker (rnb-scheduler request_queue.rs, *)
(* a std sync_channel), the worker thread (worker.rs) and one detached     *)
(* monitor thread per request that turns a client's departure or a         *)
(* shutdown into a cancelled token.                                        *)
(*                                                                         *)
(* A panic unwinds its thread only.  What a request asks for is abstracted:*)
(* ResponseStore models what the worker does with it.  A socket is closed  *)
(* here when the server's last owner other than the monitor drops it.      *)
(***************************************************************************)
EXTENDS Integers, Sequences, FiniteSets

CONSTANTS Conn,        \* connections clients may open
          ConnLimit,   \* ConnectionThreads::limit, at least 1
          QueueCap,    \* capacity of the execution queue, at least 1
          Leaving,     \* clients that may leave before they are answered
          Pipelined    \* clients that leave unread bytes behind the request

ASSUME ServerAssumption ==
  /\ IsFiniteSet(Conn)
  /\ ConnLimit \in Nat \ {0}
  /\ QueueCap \in Nat \ {0}
  /\ Leaving \subseteq Conn
  /\ Pipelined \subseteq Conn

VARIABLES main,       \* where the main thread is in run
          worker,     \* the engine worker thread
          shutdown,   \* the process-wide cancellation, set by a signal
          where,      \* who owns each connection, and how far it has come
          handler,    \* each connection's handler thread
          joins,      \* connections whose JoinHandle main still holds
          queue,      \* the execution queue
          monitor,    \* each request's monitor thread
          cancelled,  \* requests whose token is cancelled
          gone,       \* clients that have closed their connection
          reply,      \* what was written to each connection
          late        \* history: connections accepted after the signal

vars == <<main, worker, shutdown, where, handler, joins, queue, monitor,
          cancelled, gone, reply, late>>

MainStates == {"loading", "check", "accept", "joining", "stopping", "stopped"}
WorkerStates == {"loading", "idle", "running", "unwinding", "dead", "exited"}
Places == {"away", "backlog", "reading", "monitor", "submit", "queued",
           "running", "closed"}
Replies == {"none", "answer", "rejected", "overloaded", "unavailable"}

TypeOK ==
  /\ main \in MainStates
  /\ worker \in WorkerStates
  /\ shutdown \in BOOLEAN
  /\ where \in [Conn -> Places]
  /\ handler \in [Conn -> {"none", "live", "finished", "panicked"}]
  /\ joins \subseteq Conn
  /\ queue \in Seq(Conn) /\ Len(queue) <= QueueCap
  /\ monitor \in [Conn -> {"none", "poll", "look", "off"}]
  /\ cancelled \subseteq Conn
  /\ gone \subseteq Conn
  /\ reply \in [Conn -> Replies]
  /\ late \in Nat

Init ==
  /\ main = "loading"
  /\ worker = "loading"
  /\ shutdown = FALSE
  /\ where = [c \in Conn |-> "away"]
  /\ handler = [c \in Conn |-> "none"]
  /\ joins = {}
  /\ queue = <<>>
  /\ monitor = [c \in Conn |-> "none"]
  /\ cancelled = {}
  /\ gone = {}
  /\ reply = [c \in Conn |-> "none"]
  /\ late = 0

Up == main # "stopped"
Ended(c) == handler[c] \in {"finished", "panicked"}

-----------------------------------------------------------------------------
(* Plausible slips in the code, used to show that the checks notice them.  *)
HandlersOverfull == Cardinality(joins) > ConnLimit
QueueOverfull == Len(queue) > QueueCap
ReceiverOutlivesWorker == TRUE
DrainBacklogFirst == shutdown /\ \A c \in Conn : where[c] # "backlog"
WeakHandlerSenders == main = "stopping"
SenderKeptByMain == main = "stopped" /\ \A c \in Conn : handler[c] # "live"
TimeoutIsAnError(c) == {TRUE}
EofIsData(c) == {FALSE}
FinishedOnlyIfCancelled(c) == where[c] = "closed" /\ c \in cancelled
-----------------------------------------------------------------------------
(* Conditions the threads test.                                            *)

IsFull == Cardinality(joins) >= ConnLimit
QueueFull == Len(queue) >= QueueCap
\* The receiver is a local of the worker thread; it is dropped, with what is
\* still queued, when that thread returns or has unwound.
ReceiverAlive == worker \in {"idle", "running", "unwinding"}
StopRequested == shutdown
\* Every WorkerSender is dropped: main's in Worker::stop, a handler's when its
\* closure ends.
NoSenders == main = "stopping" /\ \A c \in Conn : handler[c] # "live"
\* RequestCancellation is dropped with the work it belongs to.
Finished(c) == where[c] = "closed"
\* What peek may say of the client: end of stream or an error (TRUE), or data
\* or a timeout (FALSE).  Unread bytes hide a FIN, but not a reset.
PeekSaysGone(c) ==
  IF c \notin gone THEN {FALSE} ELSE IF c \in Pipelined THEN BOOLEAN ELSE {TRUE}

-----------------------------------------------------------------------------
(* The environment: clients and signals.                                   *)

Connect(c) ==
  /\ Up
  /\ where[c] = "away"
  /\ where' = [where EXCEPT ![c] = "backlog"]
  /\ UNCHANGED <<main, worker, shutdown, handler, joins, queue, monitor,
                 cancelled, gone, reply, late>>

ClientLeaves(c) ==
  /\ Up
  /\ c \in Leaving
  /\ where[c] \notin {"away", "closed"}
  /\ gone' = gone \cup {c}
  /\ UNCHANGED <<main, worker, shutdown, where, handler, joins, queue, monitor,
                 cancelled, reply, late>>

Signal ==
  /\ Up
  /\ shutdown' = TRUE
  /\ UNCHANGED <<main, worker, where, handler, joins, queue, monitor,
                 cancelled, gone, reply, late>>

-----------------------------------------------------------------------------
(* The main thread.                                                        *)

LoadOk ==
  /\ main = "loading"
  /\ main' = "check"
  /\ worker' = "idle"
  /\ UNCHANGED <<shutdown, where, handler, joins, queue, monitor, cancelled,
                 gone, reply, late>>

\* The model does not load, has no chat template, or the load panics.
LoadFails ==
  /\ main = "loading"
  /\ main' = "stopped"
  /\ worker' = "exited"
  /\ UNCHANGED <<shutdown, where, handler, joins, queue, monitor, cancelled,
                 gone, reply, late>>

LeaveLoop ==
  /\ main = "check"
  /\ StopRequested
  /\ main' = "joining"
  /\ shutdown' = TRUE
  /\ UNCHANGED <<worker, where, handler, joins, queue, monitor, cancelled,
                 gone, reply, late>>

\* reap_finished joins the handlers that have ended.
ReapFinished ==
  /\ main = "check"
  /\ ~StopRequested
  /\ \A c \in joins : handler[c] # "panicked"
  /\ joins' = {c \in joins : ~Ended(c)}
  /\ main' = "accept"
  /\ UNCHANGED <<worker, shutdown, where, handler, queue, monitor, cancelled,
                 gone, reply, late>>

\* The first handler found to have panicked is an error: some that had ended
\* well may have been joined before it, the others are left.
ReapPanicked ==
  /\ main = "check"
  /\ ~StopRequested
  /\ \E p \in joins, others \in SUBSET {c \in joins : handler[c] = "finished"} :
       /\ handler[p] = "panicked"
       /\ joins' = joins \ (others \cup {p})
  /\ main' = "joining"
  /\ shutdown' = TRUE
  /\ UNCHANGED <<worker, where, handler, queue, monitor, cancelled, gone,
                 reply, late>>

AcceptNone ==
  /\ main = "accept"
  /\ \A c \in Conn : where[c] # "backlog"
  /\ main' = "check"
  /\ UNCHANGED <<worker, shutdown, where, handler, joins, queue, monitor,
                 cancelled, gone, reply, late>>

\* accept fails, or set_nonblocking fails on the accepted stream (c), which is
\* then dropped.
AcceptFails ==
  /\ main = "accept"
  /\ main' = "joining"
  /\ shutdown' = TRUE
  /\ \/ UNCHANGED where
     \/ \E c \in Conn : /\ where[c] = "backlog"
                        /\ where' = [where EXCEPT ![c] = "closed"]
  /\ UNCHANGED <<worker, handler, joins, queue, monitor, cancelled, gone,
                 reply, late>>

CountLate == late' = IF shutdown THEN late + 1 ELSE late

\* At the limit the connection is answered 429 and dropped.
TurnAway(c) ==
  /\ main = "accept"
  /\ where[c] = "backlog"
  /\ IsFull
  /\ main' = "check"
  /\ where' = [where EXCEPT ![c] = "closed"]
  /\ reply' = [reply EXCEPT ![c] = "overloaded"]
  /\ CountLate
  /\ UNCHANGED <<worker, shutdown, handler, joins, queue, monitor, cancelled,
                 gone>>

Accept(c) ==
  /\ main = "accept"
  /\ where[c] = "backlog"
  /\ ~IsFull
  /\ main' = "check"
  /\ where' = [where EXCEPT ![c] = "reading"]
  /\ handler' = [handler EXCEPT ![c] = "live"]
  /\ joins' = joins \cup {c}
  /\ CountLate
  /\ UNCHANGED <<worker, shutdown, queue, monitor, cancelled, gone, reply>>

\* No thread can be spawned for the connection: it is dropped with the closure
\* and the server stops.
SpawnFails(c) ==
  /\ main = "accept"
  /\ where[c] = "backlog"
  /\ ~IsFull
  /\ main' = "joining"
  /\ shutdown' = TRUE
  /\ where' = [where EXCEPT ![c] = "closed"]
  /\ CountLate
  /\ UNCHANGED <<worker, handler, joins, queue, monitor, cancelled, gone, reply>>

\* join_all waits for one handler after another; one that panicked ends it
\* early and drops the remaining JoinHandles, which detaches their threads.
JoinHandler(c) ==
  /\ main = "joining"
  /\ c \in joins
  /\ Ended(c)
  /\ IF handler[c] = "panicked"
     THEN main' = "stopping" /\ joins' = {}
     ELSE joins' = joins \ {c} /\ UNCHANGED main
  /\ UNCHANGED <<worker, shutdown, where, handler, queue, monitor, cancelled,
                 gone, reply, late>>

AllJoined ==
  /\ main = "joining"
  /\ joins = {}
  /\ main' = "stopping"
  /\ UNCHANGED <<worker, shutdown, where, handler, joins, queue, monitor,
                 cancelled, gone, reply, late>>

\* Worker::stop has dropped main's sender and waits for the worker thread.
JoinWorker ==
  /\ main = "stopping"
  /\ worker \in {"dead", "exited"}
  /\ main' = "stopped"
  /\ UNCHANGED <<worker, shutdown, where, handler, joins, queue, monitor,
                 cancelled, gone, reply, late>>

-----------------------------------------------------------------------------
(* A handler thread.                                                       *)

ReadRequest(c) ==
  /\ Up
  /\ where[c] = "reading"
  /\ where' = [where EXCEPT ![c] = "monitor"]
  /\ UNCHANGED <<main, worker, shutdown, handler, joins, queue, monitor,
                 cancelled, gone, reply, late>>

\* Malformed, unauthorised, or not received before the deadline.
RejectRequest(c) ==
  /\ Up
  /\ where[c] = "reading"
  /\ where' = [where EXCEPT ![c] = "closed"]
  /\ handler' = [handler EXCEPT ![c] = "finished"]
  /\ reply' = [reply EXCEPT ![c] = "rejected"]
  /\ UNCHANGED <<main, worker, shutdown, joins, queue, monitor, cancelled,
                 gone, late>>

\* RequestCancellation::monitor; the request goes without a monitor if the
\* stream cannot be cloned.
StartMonitor(c) ==
  /\ Up
  /\ where[c] = "monitor"
  /\ where' = [where EXCEPT ![c] = "submit"]
  /\ \E m \in {"poll", "none"} : monitor' = [monitor EXCEPT ![c] = m]
  /\ UNCHANGED <<main, worker, shutdown, handler, joins, queue, cancelled, gone,
                 reply, late>>

\* thread::spawn panics if it cannot start the monitor; the handler unwinds.
StartMonitorPanics(c) ==
  /\ Up
  /\ where[c] = "monitor"
  /\ where' = [where EXCEPT ![c] = "closed"]
  /\ handler' = [handler EXCEPT ![c] = "panicked"]
  /\ UNCHANGED <<main, worker, shutdown, joins, queue, monitor, cancelled, gone,
                 reply, late>>

\* The request is handed to the queue and the closure returns.
Submit(c) ==
  /\ Up
  /\ where[c] = "submit"
  /\ ReceiverAlive
  /\ ~QueueFull
  /\ queue' = Append(queue, c)
  /\ where' = [where EXCEPT ![c] = "queued"]
  /\ handler' = [handler EXCEPT ![c] = "finished"]
  /\ UNCHANGED <<main, worker, shutdown, joins, monitor, cancelled, gone, reply,
                 late>>

\* The queue is full (429) or its receiver is gone (500).
SubmitRefused(c) ==
  /\ Up
  /\ where[c] = "submit"
  /\ ReceiverAlive => QueueFull
  /\ reply' = [reply EXCEPT
       ![c] = IF ReceiverAlive THEN "overloaded" ELSE "unavailable"]
  /\ where' = [where EXCEPT ![c] = "closed"]
  /\ handler' = [handler EXCEPT ![c] = "finished"]
  /\ UNCHANGED <<main, worker, shutdown, joins, queue, monitor, cancelled, gone,
                 late>>

-----------------------------------------------------------------------------
(* The engine worker.                                                      *)

\* A request whose token is already cancelled is dropped without a reply.
Receive ==
  /\ Up
  /\ worker = "idle"
  /\ queue # <<>>
  /\ queue' = Tail(queue)
  /\ IF Head(queue) \in cancelled
     THEN where' = [where EXCEPT ![Head(queue)] = "closed"] /\ UNCHANGED worker
     ELSE where' = [where EXCEPT ![Head(queue)] = "running"] /\ worker' = "running"
  /\ UNCHANGED <<main, shutdown, handler, joins, monitor, cancelled, gone,
                 reply, late>>

\* handle_worker_request returns: what it wrote, or the error written for it,
\* is the answer.  A cancelled request may end with nothing written.
RunEnds(c) ==
  /\ Up
  /\ where[c] = "running"
  /\ worker' = "idle"
  /\ where' = [where EXCEPT ![c] = "closed"]
  /\ \/ reply' = [reply EXCEPT ![c] = "answer"]
     \/ c \in cancelled /\ UNCHANGED reply
  /\ UNCHANGED <<main, shutdown, handler, joins, queue, monitor, cancelled,
                 gone, late>>

\* The unwinding drops the work first; the receiver lives a little longer.
RunPanics(c) ==
  /\ Up
  /\ where[c] = "running"
  /\ worker' = "unwinding"
  /\ where' = [where EXCEPT ![c] = "closed"]
  /\ UNCHANGED <<main, shutdown, handler, joins, queue, monitor, cancelled,
                 gone, reply, late>>

DropReceiver ==
  /\ Up
  /\ worker = "unwinding"
  /\ worker' = "dead"
  /\ queue' = <<>>
  /\ where' = [c \in Conn |-> IF where[c] = "queued" THEN "closed" ELSE where[c]]
  /\ UNCHANGED <<main, shutdown, handler, joins, monitor, cancelled, gone,
                 reply, late>>

\* recv fails once the queue is empty and the last sender is gone.
WorkerExits ==
  /\ Up
  /\ worker = "idle"
  /\ queue = <<>>
  /\ NoSenders
  /\ worker' = "exited"
  /\ UNCHANGED <<main, shutdown, where, handler, joins, queue, monitor,
                 cancelled, gone, reply, late>>

-----------------------------------------------------------------------------
(* A monitor thread: test the finished flag, then shutdown and the client. *)

MonitorPoll(c) ==
  /\ Up
  /\ monitor[c] = "poll"
  /\ monitor' = [monitor EXCEPT ![c] = IF Finished(c) THEN "off" ELSE "look"]
  /\ UNCHANGED <<main, worker, shutdown, where, handler, joins, queue,
                 cancelled, gone, reply, late>>

MonitorLook(c) ==
  /\ Up
  /\ monitor[c] = "look"
  /\ \/ /\ shutdown \/ TRUE \in PeekSaysGone(c)
        /\ monitor' = [monitor EXCEPT ![c] = "off"]
        /\ cancelled' = cancelled \cup {c}
     \/ /\ ~shutdown
        /\ FALSE \in PeekSaysGone(c)
        /\ monitor' = [monitor EXCEPT ![c] = "poll"]
        /\ UNCHANGED cancelled
  /\ UNCHANGED <<main, worker, shutdown, where, handler, joins, queue, gone,
                 reply, late>>

-----------------------------------------------------------------------------
Terminated == main = "stopped" /\ UNCHANGED vars

MainStep ==
  \/ LoadOk \/ LoadFails \/ LeaveLoop
  \/ ReapFinished \/ ReapPanicked
  \/ AcceptNone \/ AcceptFails
  \/ AllJoined \/ JoinWorker
  \/ \E c \in Conn : \/ TurnAway(c) \/ Accept(c) \/ SpawnFails(c)
                     \/ JoinHandler(c)

HandlerStep(c) ==
  \/ ReadRequest(c) \/ RejectRequest(c)
  \/ StartMonitor(c) \/ StartMonitorPanics(c)
  \/ Submit(c) \/ SubmitRefused(c)

RunStep == \E c \in Conn : RunEnds(c) \/ RunPanics(c)

WorkerStep == Receive \/ RunStep \/ DropReceiver \/ WorkerExits

MonitorStep(c) == MonitorPoll(c) \/ MonitorLook(c)

Next ==
  \/ Signal \/ Terminated
  \/ MainStep \/ WorkerStep
  \/ \E c \in Conn : \/ Connect(c) \/ ClientLeaves(c)
                     \/ HandlerStep(c) \/ MonitorStep(c)

Spec == Init /\ [][Next]_vars

\* The fairness of the threads: main is never blocked for ever (accept polls);
\* a handler reads against a deadline; a monitor's peek times out.  A generation
\* need not end until its token is cancelled: the engine tests the token at each
\* token it generates.
Fairness ==
  /\ WF_vars(MainStep)
  /\ WF_vars(Receive \/ DropReceiver \/ WorkerExits)
  /\ \A c \in Conn :
       /\ WF_vars(HandlerStep(c))
       /\ WF_vars(MonitorStep(c))
       /\ WF_vars(c \in cancelled /\ RunEnds(c))

FairSpec == Spec /\ Fairness

\* What max_tokens and the write timeouts add: the worker always goes on.
GenerationsEnd == WF_vars(WorkerStep)

-----------------------------------------------------------------------------
(* Properties.                                                             *)

\* A request the queue accepted is owned by somebody who will answer or drop
\* it: once the worker thread has ended nothing is left in the queue or
\* running, whichever way it ended (worker_loop returning, a panic, and a
\* submit racing either).
NoRequestStranded ==
  worker \in {"dead", "exited"} =>
    queue = <<>> /\ \A c \in Conn : where[c] \notin {"queued", "running"}

\* A client that is still there gets an answer or a status line.  Its socket
\* is closed without one only in a shutdown, after the worker panicked, or
\* when its own handler panicked because no monitor thread could be spawned.
NoSilentDrop ==
  \A c \in Conn :
    where[c] = "closed" /\ reply[c] = "none" =>
      c \in gone \/ shutdown \/ worker \in {"unwinding", "dead"}
        \/ handler[c] = "panicked"

\* "Stop new accepts" (README.md): the loop tests shutdown before it accepts,
\* so one connection can slip in after the signal, and never a second.
AtMostOneLateAccept == late <= 1

\* What the server holds at any moment is bounded, whatever the clients do: the
\* handler threads, also those join_all detached, the requests whose handlers
\* have ended and that wait for the worker, and the one that runs.
Live == {c \in Conn : handler[c] = "live"}
OpenBound ==
  /\ Cardinality(Live) <= ConnLimit
  /\ Cardinality({c \in Conn : where[c] = "queued"}) <= QueueCap
  /\ Cardinality({c \in Conn : where[c] = "running"}) <= 1

\* When run returns, every accepted connection has been let go by its handler
\* and the worker, although join_all gives up at the first panicked handler:
\* the worker outlives every sender.  Only a worker that panicked as well
\* leaves handlers behind.
ExitsQuiet ==
  main = "stopped" =>
    \/ \A c \in Conn : where[c] \in {"away", "backlog", "closed"}
    \/ worker = "dead" /\ \E c \in Conn : handler[c] = "panicked"

\* A shutdown is carried through: whatever the handlers, the worker and the
\* monitors are doing, run returns.  Generations have to end by themselves,
\* since a request without a monitor is not cancelled.
ShutdownCompletes == GenerationsEnd => (shutdown ~> main = "stopped")

\* Every connection the kernel accepted is dealt with: it is closed by the
\* server, or the process ends, as long as generations end.
EveryConnectionEnds ==
  GenerationsEnd =>
    \A c \in Conn : where[c] = "backlog" ~> where[c] = "closed" \/ main = "stopped"

\* No monitor thread outlives its request for ever.
MonitorsEnd ==
  \A c \in Conn :
    where[c] = "closed" ~> monitor[c] \in {"none", "off"} \/ main = "stopped"

\* "Cancel active or queued generation" (README.md): a generation that would
\* not end by itself ends once the server shuts down or its client is gone,
\* given that it has a monitor and the client left no unread bytes behind.
CancellationEndsWork ==
  \A c \in Conn :
    /\ where[c] = "running"
    /\ monitor[c] # "none"
    /\ shutdown \/ c \in gone \ Pipelined
    ~> where[c] = "closed" \/ main = "stopped"
=============================================================================
