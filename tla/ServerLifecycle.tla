--------------------------- MODULE ServerLifecycle ---------------------------
(***************************************************************************)
(* The server process of main() (src/src/concurrency/rw_lock.cpp): the     *)
(* signal handler's flag, the Listener's accept thread (part_000), the     *)
(* ThreadPool's workers (part_008) and the ShutdownCoordinator's phases    *)
(* (the shutdown.cpp part of src/src/storage/page.hpp).                    *)
(*                                                                         *)
(* Threads: the main thread (mpc), the accept thread (apc), the workers    *)
(* (wpc).  A client connection goes out -> backlog -> accepted -> queued   *)
(* -> handling -> closed.  A connection still in the listen backlog when   *)
(* the listening socket is closed is "dropped" by the kernel; one that the *)
(* accept thread hands to a stopped pool is "rejected": submit throws and  *)
(* the accept loop's catch closes the socket.                              *)
(***************************************************************************)
EXTENDS Naturals, Sequences

CONSTANTS Workers,   \* the pool's worker threads
          Conns,     \* the client connections that may arrive
          NoConn     \* no connection: a worker or the accept thread holds none

ASSUME NoConnAssumption == NoConn \notin Conns
\* The ThreadPool constructor never makes an empty pool: 0 threads means
\* hardware_concurrency(), and 4 when that is 0 (part_008).
ASSUME WorkersAssumption == Workers # {}

\* ShutdownCoordinator::Phase, in the order initiate() runs them.
STOP_ACCEPTING == 0
DRAIN_CONNECTIONS == 1
FLUSH_WAL == 2
CLOSE_FILES == 3
CLEANUP == 4
DONE == 5
Phases == STOP_ACCEPTING .. DONE

VARIABLES
  shutdown_requested,  \* g_shutdown_requested
  running,             \* Listener::running_
  listening,           \* server_fd_ is an open listening socket
  apc,                 \* the accept thread
  aconn,               \* the connection the accept thread holds
  tasks,               \* ThreadPool::tasks_, as the connections the tasks close
  stop,                \* ThreadPool::stop_
  wpc,                 \* each worker's place in worker_loop
  wtask,               \* the task a worker runs
  mpc,                 \* the main thread
  phase,               \* the loop index of initiate()
  after,               \* where the main thread returns after stop()/shutdown()
  complete,            \* ShutdownCoordinator::shutdown_complete_
  conn                 \* each client connection's state

vars == <<shutdown_requested, running, listening, apc, aconn, tasks, stop,
          wpc, wtask, mpc, phase, after, complete, conn>>

ConnStates == {"out", "backlog", "accepted", "queued", "handling", "closed",
               "dropped", "rejected"}
\* A connection that has been accepted and not yet closed.
InFlight == {"accepted", "queued", "handling"}

\* Mutant: the two callbacks registered for each other's phase.
CallbacksSwapped == [p \in Phases |->
                       IF p = STOP_ACCEPTING THEN "pool_shutdown"
                       ELSE IF p = DRAIN_CONNECTIONS THEN "listener_stop"
                       ELSE "none"]

\* The callbacks main() registers, by phase.
Callbacks == [p \in Phases |->
                IF p = STOP_ACCEPTING THEN "listener_stop"
                ELSE IF p = DRAIN_CONNECTIONS THEN "pool_shutdown"
                ELSE "none"]

Init ==
  /\ shutdown_requested = FALSE
  /\ running = FALSE
  /\ listening = FALSE
  /\ apc = "none"
  /\ aconn = NoConn
  /\ tasks = <<>>
  /\ stop = FALSE
  /\ wpc = [w \in Workers |-> "top"]
  /\ wtask = [w \in Workers |-> NoConn]
  /\ mpc = "start"
  /\ phase = STOP_ACCEPTING
  /\ after = "exited"
  /\ complete = FALSE
  /\ conn = [c \in Conns |-> "out"]

\* SIGTERM or SIGINT: the handler only sets the flag.
signal_handler ==
  /\ ~shutdown_requested
  /\ shutdown_requested' = TRUE
  /\ UNCHANGED <<running, listening, apc, aconn, tasks, stop, wpc, wtask,
                 mpc, phase, after, complete, conn>>

\* A client connects while the socket listens; it waits in the backlog.
Connect(c) ==
  /\ listening
  /\ conn[c] = "out"
  /\ conn' = [conn EXCEPT ![c] = "backlog"]
  /\ UNCHANGED <<shutdown_requested, running, listening, apc, aconn, tasks,
                 stop, wpc, wtask, mpc, phase, after, complete>>

-----------------------------------------------------------------------------
(* The main thread.                                                        *)

\* listener.start(): setup_socket() succeeds, running_ is set and the
\* accept thread is spawned.
start ==
  /\ mpc = "start"
  /\ running' = TRUE
  /\ listening' = TRUE
  /\ apc' = "loop"
  /\ mpc' = "serve"
  /\ UNCHANGED <<shutdown_requested, aconn, tasks, stop, wpc, wtask, phase,
                 after, complete, conn>>

\* setup_socket() fails: main returns 1 and the destructors run.
StartFails ==
  /\ mpc = "start"
  /\ mpc' = "dtor_listener"
  /\ UNCHANGED <<shutdown_requested, running, listening, apc, aconn, tasks,
                 stop, wpc, wtask, phase, after, complete, conn>>

\* The main loop sleeps until the flag is set, then calls initiate().
MainLoop ==
  /\ mpc = "serve"
  /\ shutdown_requested
  /\ mpc' = "phase"
  /\ UNCHANGED <<shutdown_requested, running, listening, apc, aconn, tasks,
                 stop, wpc, wtask, phase, after, complete, conn>>

\* Listener::stop(): running_.exchange(false); return if it was clear.
ListenerStop(ret) ==
  IF running
  THEN /\ running' = FALSE
       /\ mpc' = "l_close"
       /\ after' = ret
  ELSE /\ mpc' = ret
       /\ UNCHANGED <<running, after>>

\* ThreadPool::shutdown(): stop_.exchange(true) under the lock; return if
\* it was already set.
shutdown(ret) ==
  IF ~stop
  THEN /\ stop' = TRUE
       /\ mpc' = "p_notify"
       /\ after' = ret
  ELSE /\ mpc' = ret
       /\ UNCHANGED <<stop, after>>

\* One turn of initiate()'s loop: the deadline test, then execute_phase(),
\* which runs the phase's callbacks.  The deadline was set 30 seconds
\* before the first phase, so only a later phase can find it passed; then
\* initiate() returns false and main() returns.
PhaseStep ==
  /\ mpc = "phase"
  /\ \/ /\ phase > STOP_ACCEPTING
        /\ mpc' = "dtor_listener"
        /\ UNCHANGED <<running, stop, after>>
     \/ /\ Callbacks[phase] = "listener_stop"
        /\ ListenerStop("phase_next")
        /\ UNCHANGED stop
     \/ /\ Callbacks[phase] = "pool_shutdown"
        /\ shutdown("phase_next")
        /\ UNCHANGED running
     \/ /\ Callbacks[phase] = "none"
        /\ mpc' = "phase_next"
        /\ UNCHANGED <<running, stop, after>>
  /\ UNCHANGED <<shutdown_requested, listening, apc, aconn, tasks, wpc, wtask,
                 phase, complete, conn>>

\* Mutant: the loop runs one phase past DONE.
PhaseNextPastDone ==
  /\ mpc = "phase_next"
  /\ phase' = phase + 1
  /\ mpc' = "phase"
  /\ UNCHANGED <<shutdown_requested, running, listening, apc, aconn, tasks,
                 stop, wpc, wtask, after, complete, conn>>

\* After execute_phase(): DRAIN_CONNECTIONS also calls wait_all_complete(),
\* which returns at once since no ActiveOperationGuard is ever made.  After
\* DONE, shutdown_complete_ is set and main() returns.
PhaseNext ==
  /\ mpc = "phase_next"
  /\ IF phase = DONE
     THEN /\ complete' = TRUE
          /\ mpc' = "dtor_listener"
          /\ UNCHANGED phase
     ELSE /\ phase' = phase + 1
          /\ mpc' = "phase"
          /\ UNCHANGED complete
  /\ UNCHANGED <<shutdown_requested, running, listening, apc, aconn, tasks,
                 stop, wpc, wtask, after, conn>>

\* close_socket(): the connections still in the backlog are reset.
close_socket ==
  /\ mpc = "l_close"
  /\ listening' = FALSE
  /\ conn' = [c \in Conns |-> IF conn[c] = "backlog" THEN "dropped" ELSE conn[c]]
  /\ mpc' = "l_join"
  /\ UNCHANGED <<shutdown_requested, running, apc, aconn, tasks, stop, wpc,
                 wtask, phase, after, complete>>

\* Mutant: stop() returns without joining the accept thread.
JoinAcceptNoWait ==
  /\ mpc = "l_join"
  /\ mpc' = after
  /\ UNCHANGED <<shutdown_requested, running, listening, apc, aconn, tasks,
                 stop, wpc, wtask, phase, after, complete, conn>>

\* accept_thread_.join().
JoinAccept ==
  /\ mpc = "l_join"
  /\ apc \in {"none", "done"}
  /\ mpc' = after
  /\ UNCHANGED <<shutdown_requested, running, listening, apc, aconn, tasks,
                 stop, wpc, wtask, phase, after, complete, conn>>

\* Mutant: shutdown() sets stop_ but wakes nobody.
NotifyAllNoWake ==
  /\ mpc = "p_notify"
  /\ mpc' = "p_join"
  /\ UNCHANGED <<shutdown_requested, running, listening, apc, aconn, tasks,
                 stop, wpc, wtask, phase, after, complete, conn>>

\* condition_.notify_all() in shutdown(): every waiting worker wakes.
NotifyAll ==
  /\ mpc = "p_notify"
  /\ wpc' = [w \in Workers |-> IF wpc[w] = "wait" THEN "top" ELSE wpc[w]]
  /\ mpc' = "p_join"
  /\ UNCHANGED <<shutdown_requested, running, listening, apc, aconn, tasks,
                 stop, wtask, phase, after, complete, conn>>

\* worker.join() for every worker.
JoinWorkers ==
  /\ mpc = "p_join"
  /\ \A w \in Workers : wpc[w] = "exit"
  /\ mpc' = after
  /\ UNCHANGED <<shutdown_requested, running, listening, apc, aconn, tasks,
                 stop, wpc, wtask, phase, after, complete, conn>>

\* The destructors at main()'s return, in reverse order of construction:
\* ~Listener() calls stop(), then ~ThreadPool() calls shutdown().
DtorListener ==
  /\ mpc = "dtor_listener"
  /\ ListenerStop("dtor_pool")
  /\ UNCHANGED <<shutdown_requested, listening, apc, aconn, tasks, stop, wpc,
                 wtask, phase, complete, conn>>

DtorPool ==
  /\ mpc = "dtor_pool"
  /\ shutdown("exited")
  /\ UNCHANGED <<shutdown_requested, running, listening, apc, aconn, tasks,
                 wpc, wtask, phase, complete, conn>>

\* The process has exited.
Terminated ==
  /\ mpc = "exited"
  /\ UNCHANGED vars
-----------------------------------------------------------------------------
(* The accept thread: Listener::accept_loop() with its handler, which      *)
(* submits a task that closes the connection.                              *)

\* The loop condition: running_ and no shutdown request.
AcceptCheck ==
  /\ apc = "loop"
  /\ apc' = IF running /\ ~shutdown_requested THEN "poll" ELSE "done"
  /\ UNCHANGED <<shutdown_requested, running, listening, aconn, tasks, stop,
                 wpc, wtask, mpc, phase, after, complete, conn>>

\* poll() reports a connection and accept() takes it.
accept(c) ==
  /\ apc = "poll"
  /\ listening
  /\ conn[c] = "backlog"
  /\ conn' = [conn EXCEPT ![c] = "accepted"]
  /\ aconn' = c
  /\ apc' = "handler"
  /\ UNCHANGED <<shutdown_requested, running, listening, tasks, stop, wpc,
                 wtask, mpc, phase, after, complete>>

\* poll() times out, or poll()/accept() fails (also on a closed socket):
\* back to the loop condition.
PollTimeout ==
  /\ apc = "poll"
  /\ apc' = "loop"
  /\ UNCHANGED <<shutdown_requested, running, listening, aconn, tasks, stop,
                 wpc, wtask, mpc, phase, after, complete, conn>>

\* Mutant: submit() queues the task without notify_one().
submitNoNotify ==
  /\ apc = "handler"
  /\ IF stop
     THEN /\ conn' = [conn EXCEPT ![aconn] = "rejected"]
          /\ UNCHANGED tasks
     ELSE /\ tasks' = Append(tasks, aconn)
          /\ conn' = [conn EXCEPT ![aconn] = "queued"]
  /\ apc' = "loop"
  /\ aconn' = NoConn
  /\ UNCHANGED <<shutdown_requested, running, listening, stop, wpc, wtask,
                 mpc, phase, after, complete>>

\* handler_(info) calls thread_pool.submit(): under the pool's mutex it
\* throws if stop_ is set, and the accept loop's catch closes the socket;
\* otherwise the task is queued and notify_one() follows outside the lock.
submit ==
  /\ apc = "handler"
  /\ IF stop
     THEN /\ conn' = [conn EXCEPT ![aconn] = "rejected"]
          /\ apc' = "loop"
          /\ UNCHANGED tasks
     ELSE /\ tasks' = Append(tasks, aconn)
          /\ conn' = [conn EXCEPT ![aconn] = "queued"]
          /\ apc' = "notify"
  /\ aconn' = NoConn
  /\ UNCHANGED <<shutdown_requested, running, listening, stop, wpc, wtask,
                 mpc, phase, after, complete>>

\* condition_.notify_one(): one waiting worker, if any, wakes.
NotifyOne ==
  /\ apc = "notify"
  /\ \/ \E w \in Workers : /\ wpc[w] = "wait"
                           /\ wpc' = [wpc EXCEPT ![w] = "top"]
     \/ /\ \A w \in Workers : wpc[w] # "wait"
        /\ UNCHANGED wpc
  /\ apc' = "loop"
  /\ UNCHANGED <<shutdown_requested, running, listening, aconn, tasks, stop,
                 wtask, mpc, phase, after, complete, conn>>

-----------------------------------------------------------------------------
(* The workers: ThreadPool::worker_loop().                                 *)

\* Mutant: a worker leaves as soon as stop_ is set, queue or not.
worker_loopNoDrain(w) ==
  /\ wpc[w] = "top"
  /\ IF ~stop /\ tasks = <<>>
     THEN /\ wpc' = [wpc EXCEPT ![w] = "wait"]
          /\ UNCHANGED <<tasks, wtask, conn>>
     ELSE IF stop
     THEN /\ wpc' = [wpc EXCEPT ![w] = "exit"]
          /\ UNCHANGED <<tasks, wtask, conn>>
     ELSE /\ wtask' = [wtask EXCEPT ![w] = Head(tasks)]
          /\ tasks' = Tail(tasks)
          /\ conn' = [conn EXCEPT ![Head(tasks)] = "handling"]
          /\ wpc' = [wpc EXCEPT ![w] = "run"]
  /\ UNCHANGED <<shutdown_requested, running, listening, apc, aconn, stop,
                 mpc, phase, after, complete>>

\* Under the mutex: wait until stop_ or a task; return if stop_ and no
\* task; otherwise pop the front task.
worker_loop(w) ==
  /\ wpc[w] = "top"
  /\ IF ~stop /\ tasks = <<>>
     THEN /\ wpc' = [wpc EXCEPT ![w] = "wait"]
          /\ UNCHANGED <<tasks, wtask, conn>>
     ELSE IF tasks = <<>>
     THEN /\ wpc' = [wpc EXCEPT ![w] = "exit"]
          /\ UNCHANGED <<tasks, wtask, conn>>
     ELSE /\ wtask' = [wtask EXCEPT ![w] = Head(tasks)]
          /\ tasks' = Tail(tasks)
          /\ conn' = [conn EXCEPT ![Head(tasks)] = "handling"]
          /\ wpc' = [wpc EXCEPT ![w] = "run"]
  /\ UNCHANGED <<shutdown_requested, running, listening, apc, aconn, stop,
                 mpc, phase, after, complete>>

\* The task runs outside the lock: it closes the client socket.
RunTask(w) ==
  /\ wpc[w] = "run"
  /\ conn' = [conn EXCEPT ![wtask[w]] = "closed"]
  /\ wtask' = [wtask EXCEPT ![w] = NoConn]
  /\ wpc' = [wpc EXCEPT ![w] = "top"]
  /\ UNCHANGED <<shutdown_requested, running, listening, apc, aconn, tasks,
                 stop, mpc, phase, after, complete>>

\* A waiting worker may wake without a notify and test again.
SpuriousWake(w) ==
  /\ wpc[w] = "wait"
  /\ wpc' = [wpc EXCEPT ![w] = "top"]
  /\ UNCHANGED <<shutdown_requested, running, listening, apc, aconn, tasks,
                 stop, wtask, mpc, phase, after, complete, conn>>

-----------------------------------------------------------------------------
MainStep == start \/ StartFails \/ MainLoop \/ PhaseStep \/ PhaseNext
              \/ close_socket \/ JoinAccept \/ NotifyAll \/ JoinWorkers
              \/ DtorListener \/ DtorPool
AcceptStep == AcceptCheck \/ (\E c \in Conns : accept(c)) \/ PollTimeout
                \/ submit \/ NotifyOne
WorkerStep(w) == worker_loop(w) \/ RunTask(w)

Next ==
  \/ signal_handler
  \/ \E c \in Conns : Connect(c)
  \/ MainStep
  \/ AcceptStep
  \/ \E w \in Workers : WorkerStep(w) \/ SpuriousWake(w)
  \/ Terminated

\* Every thread that can run is eventually scheduled: the main thread, the
\* accept thread (poll() returns within 100 ms) and each worker.  No signal,
\* no client and no spurious wake-up is assumed to happen.
Fairness ==
  /\ WF_vars(MainStep)
  /\ WF_vars(AcceptStep)
  /\ \A w \in Workers : WF_vars(WorkerStep(w))

Spec == Init /\ [][Next]_vars /\ Fairness

-----------------------------------------------------------------------------
TypeOK ==
  /\ shutdown_requested \in BOOLEAN
  /\ running \in BOOLEAN
  /\ listening \in BOOLEAN
  /\ apc \in {"none", "loop", "poll", "handler", "notify", "done"}
  /\ aconn \in Conns \cup {NoConn}
  /\ tasks \in Seq(Conns)
  /\ stop \in BOOLEAN
  /\ wpc \in [Workers -> {"top", "wait", "run", "exit"}]
  /\ wtask \in [Workers -> Conns \cup {NoConn}]
  /\ mpc \in {"start", "serve", "phase", "phase_next", "l_close", "l_join",
              "p_notify", "p_join", "dtor_listener", "dtor_pool", "exited"}
  /\ phase \in Phases
  /\ after \in {"phase_next", "dtor_pool", "exited"}
  /\ complete \in BOOLEAN
  /\ conn \in [Conns -> ConnStates]

\* The accept thread never hands a connection to a stopped pool, so no
\* client is turned away by submit()'s throw: STOP_ACCEPTING's listener.stop()
\* joins the accept thread before DRAIN_CONNECTIONS stops the pool, and on
\* an early return ~Listener() runs before ~ThreadPool().
NoConnectionRejected == \A c \in Conns : conn[c] # "rejected"

\* ThreadPool::shutdown() sets stop_ only once the accept thread has left
\* accept_loop() and been joined by Listener::stop(), or was never started:
\* no step stops the pool while a handler may still call submit().
StopAfterAcceptJoined ==
  [][~stop /\ stop' => apc \in {"none", "done"}]_vars

\* Graceful shutdown drains: once shutdown_complete_ is set, or the process
\* has exited (also after a shutdown timeout), every accepted connection has
\* been closed by its task; worker_loop() leaves only when the queue is empty.
ShutdownDrainsConnections ==
  (complete \/ mpc = "exited") => \A c \in Conns : conn[c] \notin InFlight

\* A shutdown request always ends with the process exiting: the accept
\* thread leaves its loop, shutdown()'s notify_all() wakes every waiting
\* worker and every join returns.
ShutdownTerminates == shutdown_requested ~> mpc = "exited"

\* A queued task is run, without any shutdown: submit()'s notify_one()
\* wakes a waiting worker.
QueuedConnectionServed ==
  \A c \in Conns : conn[c] = "queued" ~> conn[c] = "closed"
=============================================================================
