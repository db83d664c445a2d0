------------------------- MODULE ServerLifecycleProofs -------------------------
(***************************************************************************)
(* Proofs, for every set of workers and every set of client connections,  *)
(* that the server process of main() never turns a client away through    *)
(* submit()'s throw (NoConnectionRejected) and that once shutdown is      *)
(* complete, or main() has returned, no accepted connection is left open  *)
(* (ShutdownDrainsConnections).                                            *)
(*                                                                         *)
(* Neither is inductive.  submit() rejects when stop_ is set, so the first *)
(* needs to know that stop_ is set only after the accept thread has left  *)
(* its loop: MainInv follows the main thread through initiate() and the   *)
(* destructors and says where running_ is clear, where the accept thread  *)
(* is gone (ListenerDown) and that stop_ is set only there.  The second   *)
(* needs to know where every in-flight connection is (ConnInv: held by    *)
(* the accept thread, in tasks_, or run by a worker) and that the workers *)
(* have left worker_loop() with an empty queue (PoolInv), which needs the *)
(* pool to have a worker (WorkersAssumption).                              *)
(***************************************************************************)
EXTENDS ServerLifecycle, TLAPS

\* The main thread is past listener.stop(): running_ is clear and the
\* accept thread has been joined, or was never started.
ListenerDown ==
  \/ mpc \in {"phase_next", "p_notify", "p_join", "dtor_listener",
              "dtor_pool", "exited"}
  \/ mpc = "phase" /\ phase > STOP_ACCEPTING

AcceptGone == apc \in {"none", "done"}

AllExited == \A w \in Workers : wpc[w] = "exit"

Queued(c) == \E i \in 1 .. Len(tasks) : tasks[i] = c

\* Where the main thread is, and what that says of the listener and stop_.
MainInv ==
  /\ mpc = "start" => ~running /\ apc = "none"
  /\ mpc \in {"start", "serve"} => phase = STOP_ACCEPTING
  /\ (mpc = "serve" \/ (mpc = "phase" /\ phase = STOP_ACCEPTING)) => running
  /\ ListenerDown => ~running /\ AcceptGone
  /\ mpc \in {"l_close", "l_join"} =>
        /\ ~running
        /\ \/ after = "dtor_pool"
           \/ after = "phase_next" /\ phase = STOP_ACCEPTING
  /\ mpc \in {"p_notify", "p_join"} =>
        stop /\ after \in {"phase_next", "exited"}
  /\ stop => ListenerDown

\* The main thread is past DRAIN_CONNECTIONS's pool.shutdown().
PoolDown ==
  \/ mpc = "phase_next" /\ phase >= DRAIN_CONNECTIONS
  \/ mpc = "phase" /\ phase > DRAIN_CONNECTIONS
  \/ complete
  \/ mpc = "exited"

\* The pool: once shutdown() has joined the workers they have all left
\* worker_loop(), which they leave only with stop_ set and no task queued.
PoolInv ==
  /\ stop /\ mpc \notin {"p_notify", "p_join"} => AllExited
  /\ \A w \in Workers : wpc[w] = "exit" => stop /\ tasks = <<>>
  /\ \A w \in Workers : wpc[w] = "run" => wtask[w] \in Conns
  /\ PoolDown => stop
  /\ complete => mpc \in {"dtor_listener", "dtor_pool", "exited"}

\* Every accepted, unclosed connection is held by the accept thread, queued
\* in tasks_, or run by a worker; and none has been rejected.
ConnInv ==
  /\ NoConnectionRejected
  /\ apc = "handler" => aconn \in Conns
  /\ \A c \in Conns :
       /\ conn[c] = "accepted" => apc = "handler" /\ aconn = c
       /\ conn[c] = "queued" => Queued(c)
       /\ conn[c] = "handling" =>
            \E w \in Workers : wpc[w] = "run" /\ wtask[w] = c

IInv == TypeOK /\ MainInv /\ PoolInv /\ ConnInv

USE DEF STOP_ACCEPTING, DRAIN_CONNECTIONS, FLUSH_WAL, CLOSE_FILES, CLEANUP,
        DONE, Phases

\* TypeOK split into its Boolean-valued variables, for Zenon, and the rest,
\* for the SMT solver.
BoolOK ==
  /\ shutdown_requested \in BOOLEAN
  /\ running \in BOOLEAN
  /\ listening \in BOOLEAN
  /\ stop \in BOOLEAN
  /\ complete \in BOOLEAN

DataOK ==
  /\ apc \in {"none", "loop", "poll", "handler", "notify", "done"}
  /\ aconn \in Conns \cup {NoConn}
  /\ tasks \in Seq(Conns)
  /\ wpc \in [Workers -> {"top", "wait", "run", "exit"}]
  /\ wtask \in [Workers -> Conns \cup {NoConn}]
  /\ mpc \in {"start", "serve", "phase", "phase_next", "l_close", "l_join",
              "p_notify", "p_join", "dtor_listener", "dtor_pool", "exited"}
  /\ phase \in Phases
  /\ after \in {"phase_next", "dtor_pool", "exited"}
  /\ conn \in [Conns -> ConnStates]

\* TypeOK is the conjunction of the two parts.
LEMMA TypeSplit == TypeOK <=> BoolOK /\ DataOK
BY Zenon DEF TypeOK, BoolOK, DataOK

\* The same, in the next state.
LEMMA TypeSplitPrime == TypeOK' <=> BoolOK' /\ DataOK'
BY Zenon DEF TypeOK, BoolOK, DataOK

-----------------------------------------------------------------------------
\* The initial state, where main() has not yet started the listener,
\* satisfies the inductive invariant.
THEOREM InitIInv == Init => IInv
<1> SUFFICES ASSUME Init PROVE IInv
  OBVIOUS
<1>1. BoolOK
  BY Zenon DEF Init, BoolOK
<1>2. DataOK
  BY NoConnAssumption DEF Init, DataOK, ConnStates
<1>3. MainInv
  BY DEF Init, MainInv, ListenerDown
<1>4. PoolInv
  BY DEF Init, PoolInv, PoolDown
<1>5. ConnInv
  BY DEF Init, ConnInv, NoConnectionRejected
<1>. QED
  BY <1>1, <1>2, <1>3, <1>4, <1>5, TypeSplit DEF IInv

\* The signal handler only sets g_shutdown_requested: this step keeps the
\* inductive invariant.
LEMMA SignalIInv ==
  ASSUME IInv, signal_handler
  PROVE  IInv'
<1>1. BoolOK /\ DataOK /\ MainInv /\ PoolInv /\ ConnInv
  BY TypeSplit DEF IInv
<1>2. BoolOK'
  BY <1>1, Zenon DEF BoolOK, signal_handler
<1>3. DataOK'
  BY <1>1 DEF DataOK, ConnStates, signal_handler
<1>4. MainInv'
  BY <1>1 DEF MainInv, ListenerDown, AcceptGone, signal_handler
<1>5. PoolInv'
  BY <1>1 DEF PoolInv, PoolDown, AllExited, signal_handler
<1>6. ConnInv'
  BY <1>1 DEF ConnInv, NoConnectionRejected, Queued, signal_handler
<1>. QED
  BY <1>2, <1>3, <1>4, <1>5, <1>6, TypeSplitPrime DEF IInv

\* A client joining the listen backlog: this step keeps the inductive
\* invariant.
LEMMA ConnectIInv ==
  ASSUME NEW c \in Conns, IInv, Connect(c)
  PROVE  IInv'
<1>1. BoolOK /\ DataOK /\ MainInv /\ PoolInv /\ ConnInv
  BY TypeSplit DEF IInv
<1>2. BoolOK'
  BY <1>1, Zenon DEF BoolOK, Connect
<1>3. DataOK'
  BY <1>1 DEF DataOK, ConnStates, Connect
<1>4. MainInv'
  BY <1>1 DEF MainInv, ListenerDown, AcceptGone, Connect
<1>5. PoolInv'
  BY <1>1 DEF PoolInv, PoolDown, AllExited, Connect
<1>6. ConnInv'
  BY <1>1 DEF ConnInv, NoConnectionRejected, Queued, Connect
<1>. QED
  BY <1>2, <1>3, <1>4, <1>5, <1>6, TypeSplitPrime DEF IInv

\* listener.start() starting the accept thread: this step keeps the inductive
\* invariant.
LEMMA StartIInv ==
  ASSUME IInv, start
  PROVE  IInv'
<1>1. BoolOK /\ DataOK /\ MainInv /\ PoolInv /\ ConnInv
  BY TypeSplit DEF IInv
<1>2. BoolOK'
  BY <1>1, Zenon DEF BoolOK, start
<1>3. DataOK'
  BY <1>1 DEF DataOK, ConnStates, start
<1>4. MainInv'
  BY <1>1 DEF MainInv, ListenerDown, AcceptGone, start
<1>5. PoolInv'
  BY <1>1 DEF PoolInv, PoolDown, AllExited, start
<1>6. ConnInv'
  BY <1>1 DEF DataOK, MainInv, ListenerDown, AcceptGone, PoolInv, PoolDown,
     AllExited, ConnInv, NoConnectionRejected, Queued, start
<1>. QED
  BY <1>2, <1>3, <1>4, <1>5, <1>6, TypeSplitPrime DEF IInv

\* A failed setup_socket() going to the destructors: this step keeps the
\* inductive invariant.
LEMMA StartFailsIInv ==
  ASSUME IInv, StartFails
  PROVE  IInv'
<1>1. BoolOK /\ DataOK /\ MainInv /\ PoolInv /\ ConnInv
  BY TypeSplit DEF IInv
<1>2. BoolOK'
  BY <1>1, Zenon DEF BoolOK, StartFails
<1>3. DataOK'
  BY <1>1 DEF DataOK, ConnStates, StartFails
<1>4. MainInv'
  BY <1>1 DEF MainInv, ListenerDown, AcceptGone, StartFails
<1>5. PoolInv'
  BY <1>1 DEF PoolInv, PoolDown, AllExited, StartFails
<1>6. ConnInv'
  BY <1>1 DEF ConnInv, NoConnectionRejected, Queued, StartFails
<1>. QED
  BY <1>2, <1>3, <1>4, <1>5, <1>6, TypeSplitPrime DEF IInv

\* The main loop seeing the flag and calling initiate(): this step keeps the
\* inductive invariant.
LEMMA MainLoopIInv ==
  ASSUME IInv, MainLoop
  PROVE  IInv'
<1>1. BoolOK /\ DataOK /\ MainInv /\ PoolInv /\ ConnInv
  BY TypeSplit DEF IInv
<1>2. BoolOK'
  BY <1>1, Zenon DEF BoolOK, MainLoop
<1>3. DataOK'
  BY <1>1 DEF DataOK, ConnStates, MainLoop
<1>4. MainInv'
  BY <1>1 DEF MainInv, ListenerDown, AcceptGone, MainLoop
<1>5. PoolInv'
  BY <1>1 DEF DataOK, MainInv, ListenerDown, AcceptGone, PoolInv, PoolDown,
     AllExited, ConnInv, NoConnectionRejected, Queued, MainLoop
<1>6. ConnInv'
  BY <1>1 DEF ConnInv, NoConnectionRejected, Queued, MainLoop
<1>. QED
  BY <1>2, <1>3, <1>4, <1>5, <1>6, TypeSplitPrime DEF IInv

\* initiate() moving to the next phase, or setting shutdown_complete_: this
\* step keeps the inductive invariant.
LEMMA PhaseNextIInv ==
  ASSUME IInv, PhaseNext
  PROVE  IInv'
<1>1. BoolOK /\ DataOK /\ MainInv /\ PoolInv /\ ConnInv
  BY TypeSplit DEF IInv
<1>2. BoolOK'
  BY <1>1, Zenon DEF BoolOK, PhaseNext
<1>3. DataOK'
  BY <1>1 DEF DataOK, ConnStates, PhaseNext
<1>4. MainInv'
  BY <1>1 DEF DataOK, MainInv, ListenerDown, AcceptGone, PoolInv, PoolDown,
     AllExited, ConnInv, NoConnectionRejected, Queued, PhaseNext
<1>5. PoolInv'
  BY <1>1 DEF DataOK, MainInv, ListenerDown, AcceptGone, PoolInv, PoolDown,
     AllExited, ConnInv, NoConnectionRejected, Queued, PhaseNext
<1>6. ConnInv'
  BY <1>1 DEF ConnInv, NoConnectionRejected, Queued, PhaseNext
<1>. QED
  BY <1>2, <1>3, <1>4, <1>5, <1>6, TypeSplitPrime DEF IInv

\* close_socket() dropping the backlog: this step keeps the inductive
\* invariant.
LEMMA CloseSocketIInv ==
  ASSUME IInv, close_socket
  PROVE  IInv'
<1>1. BoolOK /\ DataOK /\ MainInv /\ PoolInv /\ ConnInv
  BY TypeSplit DEF IInv
<1>2. BoolOK'
  BY <1>1, Zenon DEF BoolOK, close_socket
<1>3. DataOK'
  BY <1>1 DEF DataOK, ConnStates, close_socket
<1>4. MainInv'
  BY <1>1 DEF MainInv, ListenerDown, AcceptGone, close_socket
<1>5. PoolInv'
  BY <1>1 DEF PoolInv, PoolDown, AllExited, close_socket
<1>6. ConnInv'
  BY <1>1 DEF ConnInv, NoConnectionRejected, Queued, close_socket
<1>. QED
  BY <1>2, <1>3, <1>4, <1>5, <1>6, TypeSplitPrime DEF IInv

\* Joining the accept thread: this step keeps the inductive invariant.
LEMMA JoinAcceptIInv ==
  ASSUME IInv, JoinAccept
  PROVE  IInv'
<1>1. BoolOK /\ DataOK /\ MainInv /\ PoolInv /\ ConnInv
  BY TypeSplit DEF IInv
<1>2. BoolOK'
  BY <1>1, Zenon DEF BoolOK, JoinAccept
<1>3. DataOK'
  BY <1>1 DEF DataOK, ConnStates, JoinAccept
<1>4. MainInv'
  BY <1>1 DEF MainInv, ListenerDown, AcceptGone, JoinAccept
<1>5. PoolInv'
  BY <1>1 DEF DataOK, MainInv, ListenerDown, AcceptGone, PoolInv, PoolDown,
     AllExited, ConnInv, NoConnectionRejected, Queued, JoinAccept
<1>6. ConnInv'
  BY <1>1 DEF ConnInv, NoConnectionRejected, Queued, JoinAccept
<1>. QED
  BY <1>2, <1>3, <1>4, <1>5, <1>6, TypeSplitPrime DEF IInv

\* shutdown()'s notify_all(): this step keeps the inductive invariant.
LEMMA NotifyAllIInv ==
  ASSUME IInv, NotifyAll
  PROVE  IInv'
<1>1. BoolOK /\ DataOK /\ MainInv /\ PoolInv /\ ConnInv
  BY TypeSplit DEF IInv
<1>2. BoolOK'
  BY <1>1, Zenon DEF BoolOK, NotifyAll
<1>3. DataOK'
  BY <1>1 DEF DataOK, ConnStates, NotifyAll
<1>4. MainInv'
  BY <1>1 DEF MainInv, ListenerDown, AcceptGone, NotifyAll
<1>5. PoolInv'
  BY <1>1 DEF PoolInv, PoolDown, AllExited, NotifyAll
<1>6. ConnInv'
  BY <1>1 DEF ConnInv, NoConnectionRejected, Queued, NotifyAll
<1>. QED
  BY <1>2, <1>3, <1>4, <1>5, <1>6, TypeSplitPrime DEF IInv

\* Joining the workers: this step keeps the inductive invariant.
LEMMA JoinWorkersIInv ==
  ASSUME IInv, JoinWorkers
  PROVE  IInv'
<1>1. BoolOK /\ DataOK /\ MainInv /\ PoolInv /\ ConnInv
  BY TypeSplit DEF IInv
<1>2. BoolOK'
  BY <1>1, Zenon DEF BoolOK, JoinWorkers
<1>3. DataOK'
  BY <1>1 DEF DataOK, ConnStates, JoinWorkers
<1>4. MainInv'
  BY <1>1 DEF MainInv, ListenerDown, AcceptGone, JoinWorkers
<1>5. PoolInv'
  BY <1>1 DEF DataOK, MainInv, ListenerDown, AcceptGone, PoolInv, PoolDown,
     AllExited, ConnInv, NoConnectionRejected, Queued, JoinWorkers
<1>6. ConnInv'
  BY <1>1 DEF ConnInv, NoConnectionRejected, Queued, JoinWorkers
<1>. QED
  BY <1>2, <1>3, <1>4, <1>5, <1>6, TypeSplitPrime DEF IInv

\* ~Listener() calling stop(): this step keeps the inductive invariant.
LEMMA DtorListenerIInv ==
  ASSUME IInv, DtorListener
  PROVE  IInv'
<1>1. BoolOK /\ DataOK /\ MainInv /\ PoolInv /\ ConnInv
  BY TypeSplit DEF IInv
<1>2. BoolOK'
  BY <1>1, Zenon DEF BoolOK, DtorListener, ListenerStop
<1>3. DataOK'
  BY <1>1 DEF DataOK, ConnStates, DtorListener, ListenerStop
<1>4. MainInv'
  BY <1>1 DEF MainInv, ListenerDown, AcceptGone, DtorListener, ListenerStop
<1>5. PoolInv'
  BY <1>1 DEF DataOK, MainInv, ListenerDown, AcceptGone, PoolInv, PoolDown,
     AllExited, ConnInv, NoConnectionRejected, Queued, DtorListener,
     ListenerStop
<1>6. ConnInv'
  BY <1>1 DEF ConnInv, NoConnectionRejected, Queued, DtorListener, ListenerStop
<1>. QED
  BY <1>2, <1>3, <1>4, <1>5, <1>6, TypeSplitPrime DEF IInv

\* ~ThreadPool() calling shutdown(): this step keeps the inductive invariant.
LEMMA DtorPoolIInv ==
  ASSUME IInv, DtorPool
  PROVE  IInv'
<1>1. BoolOK /\ DataOK /\ MainInv /\ PoolInv /\ ConnInv
  BY TypeSplit DEF IInv
<1>2. BoolOK'
  BY <1>1, Zenon DEF BoolOK, DtorPool, shutdown
<1>3. DataOK'
  BY <1>1 DEF DataOK, ConnStates, DtorPool, shutdown
<1>4. MainInv'
  BY <1>1 DEF MainInv, ListenerDown, AcceptGone, DtorPool, shutdown
<1>5. PoolInv'
  BY <1>1 DEF PoolInv, PoolDown, AllExited, DtorPool, shutdown
<1>6. ConnInv'
  BY <1>1 DEF ConnInv, NoConnectionRejected, Queued, DtorPool, shutdown
<1>. QED
  BY <1>2, <1>3, <1>4, <1>5, <1>6, TypeSplitPrime DEF IInv

\* The accept loop's condition: this step keeps the inductive invariant.
LEMMA AcceptCheckIInv ==
  ASSUME IInv, AcceptCheck
  PROVE  IInv'
<1>1. BoolOK /\ DataOK /\ MainInv /\ PoolInv /\ ConnInv
  BY TypeSplit DEF IInv
<1>2. BoolOK'
  BY <1>1, Zenon DEF BoolOK, AcceptCheck
<1>3. DataOK'
  BY <1>1 DEF DataOK, ConnStates, AcceptCheck
<1>4. MainInv'
  BY <1>1 DEF MainInv, ListenerDown, AcceptGone, AcceptCheck
<1>5. PoolInv'
  BY <1>1 DEF PoolInv, PoolDown, AllExited, AcceptCheck
<1>6. ConnInv'
  BY <1>1 DEF ConnInv, NoConnectionRejected, Queued, AcceptCheck
<1>. QED
  BY <1>2, <1>3, <1>4, <1>5, <1>6, TypeSplitPrime DEF IInv

\* accept() taking a connection from the backlog: this step keeps the
\* inductive invariant.
LEMMA AcceptIInv ==
  ASSUME NEW c \in Conns, IInv, accept(c)
  PROVE  IInv'
<1>1. BoolOK /\ DataOK /\ MainInv /\ PoolInv /\ ConnInv
  BY TypeSplit DEF IInv
<1>2. BoolOK'
  BY <1>1, Zenon DEF BoolOK, accept
<1>3. DataOK'
  BY <1>1 DEF DataOK, ConnStates, accept
<1>4. MainInv'
  BY <1>1 DEF MainInv, ListenerDown, AcceptGone, accept
<1>5. PoolInv'
  BY <1>1 DEF PoolInv, PoolDown, AllExited, accept
<1>6. ConnInv'
  BY <1>1 DEF ConnInv, NoConnectionRejected, Queued, accept
<1>. QED
  BY <1>2, <1>3, <1>4, <1>5, <1>6, TypeSplitPrime DEF IInv

\* A poll() timeout or error: this step keeps the inductive invariant.
LEMMA PollTimeoutIInv ==
  ASSUME IInv, PollTimeout
  PROVE  IInv'
<1>1. BoolOK /\ DataOK /\ MainInv /\ PoolInv /\ ConnInv
  BY TypeSplit DEF IInv
<1>2. BoolOK'
  BY <1>1, Zenon DEF BoolOK, PollTimeout
<1>3. DataOK'
  BY <1>1 DEF DataOK, ConnStates, PollTimeout
<1>4. MainInv'
  BY <1>1 DEF MainInv, ListenerDown, AcceptGone, PollTimeout
<1>5. PoolInv'
  BY <1>1 DEF PoolInv, PoolDown, AllExited, PollTimeout
<1>6. ConnInv'
  BY <1>1 DEF ConnInv, NoConnectionRejected, Queued, PollTimeout
<1>. QED
  BY <1>2, <1>3, <1>4, <1>5, <1>6, TypeSplitPrime DEF IInv

\* submit(), which queues the task or throws on a stopped pool: this step
\* keeps the inductive invariant.
LEMMA SubmitIInv ==
  ASSUME IInv, submit
  PROVE  IInv'
<1>1. BoolOK /\ DataOK /\ MainInv /\ PoolInv /\ ConnInv
  BY TypeSplit DEF IInv
<1>2. BoolOK'
  BY <1>1, Zenon DEF BoolOK, submit
<1>3. DataOK'
  <2>1. aconn \in Conns
    BY <1>1 DEF ConnInv, submit
  <2>2. CASE stop
    BY <1>1, <2>2 DEF DataOK, ConnStates, submit
  <2>3. CASE ~stop
    <3>1. tasks' = Append(tasks, aconn)
      BY <2>3 DEF submit
    <3>2. tasks' \in Seq(Conns)
      BY <1>1, <2>1, <3>1 DEF DataOK
    <3>. QED
      BY <1>1, <2>3, <3>2 DEF DataOK, ConnStates, submit
  <2>. QED
    BY <2>2, <2>3
<1>4. MainInv'
  BY <1>1 DEF MainInv, ListenerDown, AcceptGone, submit
<1>5. PoolInv'
  BY <1>1 DEF PoolInv, PoolDown, AllExited, submit
<1>6. ConnInv'
  <2>1. ~stop
    BY <1>1 DEF MainInv, ListenerDown, AcceptGone, submit
  <2>2. /\ aconn \in Conns
        /\ tasks' = Append(tasks, aconn)
        /\ conn' = [conn EXCEPT ![aconn] = "queued"]
        /\ apc' = "notify" /\ aconn' = NoConn
        /\ UNCHANGED <<wpc, wtask>>
    BY <1>1, <2>1 DEF ConnInv, submit
  <2>3. tasks \in Seq(Conns) /\ conn \in [Conns -> ConnStates]
    BY <1>1 DEF DataOK
  <2>4. \A c \in Conns : Queued(c) => Queued(c)'
    BY <2>2, <2>3 DEF Queued
  <2>5. \A c \in Conns : c = aconn => Queued(c)'
    <3> SUFFICES ASSUME NEW c \in Conns, c = aconn
                 PROVE  \E i \in 1 .. Len(tasks') : tasks'[i] = c
      BY DEF Queued
    <3>1. Len(tasks') = Len(tasks) + 1 /\ tasks'[Len(tasks) + 1] = c
      BY <2>2, <2>3
    <3>. QED
      BY <2>3, <3>1
  <2>6. \A c \in Conns : conn[c] = "accepted" => c = aconn
    BY <1>1 DEF ConnInv
  <2>. QED
    BY <1>1, <2>2, <2>3, <2>4, <2>5, <2>6
       DEF ConnInv, NoConnectionRejected, ConnStates
<1>. QED
  BY <1>2, <1>3, <1>4, <1>5, <1>6, TypeSplitPrime DEF IInv

\* submit()'s notify_one(): this step keeps the inductive invariant.
LEMMA NotifyOneIInv ==
  ASSUME IInv, NotifyOne
  PROVE  IInv'
<1>1. BoolOK /\ DataOK /\ MainInv /\ PoolInv /\ ConnInv
  BY TypeSplit DEF IInv
<1>2. BoolOK'
  BY <1>1, Zenon DEF BoolOK, NotifyOne
<1>3. DataOK'
  BY <1>1 DEF DataOK, ConnStates, NotifyOne
<1>4. MainInv'
  BY <1>1 DEF MainInv, ListenerDown, AcceptGone, NotifyOne
<1>5. PoolInv'
  BY <1>1 DEF DataOK, MainInv, ListenerDown, AcceptGone, PoolInv, PoolDown,
     AllExited, ConnInv, NoConnectionRejected, Queued, NotifyOne
<1>6. ConnInv'
  BY <1>1 DEF DataOK, MainInv, ListenerDown, AcceptGone, PoolInv, PoolDown,
     AllExited, ConnInv, NoConnectionRejected, Queued, NotifyOne
<1>. QED
  BY <1>2, <1>3, <1>4, <1>5, <1>6, TypeSplitPrime DEF IInv

\* A worker waiting, leaving, or popping the front task: this step keeps the
\* inductive invariant.
LEMMA WorkerLoopIInv ==
  ASSUME NEW w \in Workers, IInv, worker_loop(w)
  PROVE  IInv'
<1>1. BoolOK /\ DataOK /\ MainInv /\ PoolInv /\ ConnInv
  BY TypeSplit DEF IInv
<1>2. BoolOK'
  BY <1>1, Zenon DEF BoolOK, worker_loop
\* The three outcomes of the wait: wait, leave, or pop the front task.
<1>3. \/ /\ tasks = <<>> /\ ~stop
         /\ wpc' = [wpc EXCEPT ![w] = "wait"]
         /\ UNCHANGED <<tasks, wtask, conn>>
      \/ /\ tasks = <<>> /\ stop
         /\ wpc' = [wpc EXCEPT ![w] = "exit"]
         /\ UNCHANGED <<tasks, wtask, conn>>
      \/ /\ tasks # <<>>
         /\ tasks' = Tail(tasks)
         /\ wtask' = [wtask EXCEPT ![w] = Head(tasks)]
         /\ conn' = [conn EXCEPT ![Head(tasks)] = "handling"]
         /\ wpc' = [wpc EXCEPT ![w] = "run"]
  BY <1>1, Zenon DEF BoolOK, worker_loop
<1>4. /\ wpc[w] = "top"
      /\ UNCHANGED <<apc, aconn, mpc, phase, after>>
  BY DEF worker_loop
<1>5. DataOK'
  <2>1. CASE tasks = <<>>
    <3>1. /\ UNCHANGED <<tasks, wtask, conn>>
          /\ wpc' \in {[wpc EXCEPT ![w] = "wait"], [wpc EXCEPT ![w] = "exit"]}
      BY <1>3, <2>1, Zenon
    <3>. QED
      BY <1>1, <1>4, <3>1 DEF DataOK
  <2>2. CASE tasks # <<>>
    <3>1. /\ Head(tasks) \in Conns
          /\ Tail(tasks) \in Seq(Conns)
      BY <1>1, <2>2 DEF DataOK
    <3>. QED
      BY <1>1, <1>3, <1>4, <2>2, <3>1 DEF DataOK, ConnStates
  <2>. QED
    BY <2>1, <2>2
<1>6. MainInv'
  BY <1>1, <1>4 DEF MainInv, ListenerDown, AcceptGone, worker_loop
<1>7. PoolInv'
  <2>1. ~(stop /\ mpc \notin {"p_notify", "p_join"})
    BY <1>1, <1>4 DEF PoolInv, AllExited
  <2>2. UNCHANGED <<stop, complete>>
    BY DEF worker_loop
  <2>3. \A v \in Workers : wpc'[v] = "exit" => stop /\ tasks' = <<>>
    BY <1>1, <1>3, <1>4 DEF DataOK, PoolInv
  <2>4. \A v \in Workers : wpc'[v] = "run" => wtask'[v] \in Conns
    BY <1>1, <1>3, <1>4 DEF DataOK, PoolInv
  <2>. QED
    BY <1>1, <1>4, <2>1, <2>2, <2>3, <2>4 DEF PoolInv, PoolDown, AllExited
<1>8. ConnInv'
  <2>1. CASE tasks = <<>>
    <3>1. UNCHANGED <<tasks, wtask, conn>>
      BY <1>3, <2>1, Zenon
    <3>2. \A v \in Workers : wpc[v] = "run" => wpc'[v] = "run"
      BY <1>1, <1>3, <1>4, <2>1 DEF DataOK
    <3>. QED
      BY <1>1, <1>4, <3>1, <3>2 DEF ConnInv, NoConnectionRejected, Queued
  <2>2. CASE tasks # <<>>
    <3>0. /\ tasks' = Tail(tasks)
          /\ wtask' = [wtask EXCEPT ![w] = Head(tasks)]
          /\ conn' = [conn EXCEPT ![Head(tasks)] = "handling"]
          /\ wpc' = [wpc EXCEPT ![w] = "run"]
      BY <1>3, <2>2
    <3>1. ASSUME NEW c \in Conns, Queued(c), c # Head(tasks)
          PROVE  Queued(c)'
      <4>1. PICK i \in 1 .. Len(tasks) : tasks[i] = c
        BY <3>1 DEF Queued
      <4>2. /\ i > 1
            /\ i - 1 \in 1 .. Len(Tail(tasks))
            /\ Tail(tasks)[i - 1] = c
        BY <1>1, <2>2, <3>1, <4>1 DEF DataOK
      <4>3. \E j \in 1 .. Len(tasks') : tasks'[j] = c
        BY <3>0, <4>2
      <4>. QED
        BY <4>3 DEF Queued
    <3>2. \A c \in Conns : conn'[c] = "queued" => Queued(c)'
      <4> SUFFICES ASSUME NEW c \in Conns, conn'[c] = "queued"
                   PROVE  Queued(c)'
        OBVIOUS
      <4>1. c # Head(tasks) /\ conn[c] = "queued"
        BY <1>1, <3>0 DEF DataOK
      <4>. QED
        BY <1>1, <3>1, <4>1 DEF ConnInv
    <3>3. \A c \in Conns : conn'[c] = "handling" =>
            \E v \in Workers : wpc'[v] = "run" /\ wtask'[v] = c
      BY <1>1, <1>4, <3>0 DEF DataOK, ConnInv
    <3>4. \A c \in Conns :
            conn'[c] = "accepted" => apc' = "handler" /\ aconn' = c
      BY <1>1, <1>4, <3>0 DEF DataOK, ConnInv
    <3>5. NoConnectionRejected'
      BY <1>1, <3>0 DEF DataOK, ConnInv, NoConnectionRejected
    <3>. QED
      BY <1>1, <1>4, <3>2, <3>3, <3>4, <3>5 DEF ConnInv
  <2>. QED
    BY <2>1, <2>2
<1>. QED
  BY <1>2, <1>5, <1>6, <1>7, <1>8, TypeSplitPrime DEF IInv

\* A task closing its connection: this step keeps the inductive invariant.
LEMMA RunTaskIInv ==
  ASSUME NEW w \in Workers, IInv, RunTask(w)
  PROVE  IInv'
<1>1. BoolOK /\ DataOK /\ MainInv /\ PoolInv /\ ConnInv
  BY TypeSplit DEF IInv
<1>2. BoolOK'
  BY <1>1, Zenon DEF BoolOK, RunTask
<1>3. DataOK'
  BY <1>1 DEF DataOK, ConnStates, RunTask
<1>4. MainInv'
  BY <1>1 DEF MainInv, ListenerDown, AcceptGone, RunTask
<1>5. PoolInv'
  BY <1>1 DEF DataOK, MainInv, ListenerDown, AcceptGone, PoolInv, PoolDown,
     AllExited, ConnInv, NoConnectionRejected, Queued, RunTask
<1>6. ConnInv'
  BY <1>1 DEF DataOK, MainInv, ListenerDown, AcceptGone, PoolInv, PoolDown,
     AllExited, ConnInv, NoConnectionRejected, Queued, RunTask
<1>. QED
  BY <1>2, <1>3, <1>4, <1>5, <1>6, TypeSplitPrime DEF IInv

\* A spurious wake-up: this step keeps the inductive invariant.
LEMMA SpuriousWakeIInv ==
  ASSUME NEW w \in Workers, IInv, SpuriousWake(w)
  PROVE  IInv'
<1>1. BoolOK /\ DataOK /\ MainInv /\ PoolInv /\ ConnInv
  BY TypeSplit DEF IInv
<1>2. BoolOK'
  BY <1>1, Zenon DEF BoolOK, SpuriousWake
<1>3. DataOK'
  BY <1>1 DEF DataOK, ConnStates, SpuriousWake
<1>4. MainInv'
  BY <1>1 DEF MainInv, ListenerDown, AcceptGone, SpuriousWake
<1>5. PoolInv'
  BY <1>1 DEF PoolInv, PoolDown, AllExited, SpuriousWake
<1>6. ConnInv'
  BY <1>1 DEF ConnInv, NoConnectionRejected, Queued, SpuriousWake
<1>. QED
  BY <1>2, <1>3, <1>4, <1>5, <1>6, TypeSplitPrime DEF IInv
\* One phase of initiate(): the deadline test or the phase's callback: this
\* step keeps the inductive invariant.
LEMMA PhaseStepIInv ==
  ASSUME IInv, PhaseStep
  PROVE  IInv'
<1>1. BoolOK /\ DataOK /\ MainInv /\ PoolInv /\ ConnInv
  BY TypeSplit DEF IInv
<1>2. /\ mpc = "phase"
      /\ UNCHANGED <<shutdown_requested, listening, apc, aconn, tasks, wpc,
                     wtask, phase, complete, conn>>
  BY DEF PhaseStep
<1>3. running \in BOOLEAN /\ stop \in BOOLEAN /\ complete \in BOOLEAN
  BY <1>1 DEF BoolOK
\* What each of the four branches leaves in the variables it sets.
<1>4. \/ /\ phase > STOP_ACCEPTING
         /\ mpc' = "dtor_listener"
         /\ UNCHANGED <<running, stop, after>>
      \/ /\ phase = STOP_ACCEPTING
         /\ running' = FALSE /\ mpc' = "l_close" /\ after' = "phase_next"
         /\ UNCHANGED stop
      \/ /\ phase = DRAIN_CONNECTIONS
         /\ ~stop
         /\ stop' = TRUE /\ mpc' = "p_notify" /\ after' = "phase_next"
         /\ UNCHANGED running
      \/ /\ phase > STOP_ACCEPTING
         /\ phase = DRAIN_CONNECTIONS => stop
         /\ mpc' = "phase_next"
         /\ UNCHANGED <<running, stop, after>>
  <2>1. phase = STOP_ACCEPTING => running
    BY <1>1, <1>2 DEF MainInv
  <2>2. Callbacks[phase] = "listener_stop" <=> phase = STOP_ACCEPTING
    BY <1>1 DEF DataOK, Callbacks
  <2>3. Callbacks[phase] = "pool_shutdown" <=> phase = DRAIN_CONNECTIONS
    BY <1>1 DEF DataOK, Callbacks
  <2>4. Callbacks[phase] = "none" <=> phase > DRAIN_CONNECTIONS
    BY <1>1 DEF DataOK, Callbacks
  <2>5. /\ phase = DRAIN_CONNECTIONS => phase > STOP_ACCEPTING
        /\ phase > DRAIN_CONNECTIONS => phase > STOP_ACCEPTING
    BY <1>1 DEF DataOK
  <2>. QED
    BY <1>3, <2>1, <2>2, <2>3, <2>4, <2>5, Zenon
       DEF PhaseStep, ListenerStop, shutdown
<1>5. BoolOK'
  BY <1>1, <1>2, <1>4, Zenon DEF BoolOK
<1>6. DataOK'
  BY <1>1, <1>2, <1>4 DEF DataOK
<1>7. MainInv'
  BY <1>1, <1>2, <1>4 DEF DataOK, MainInv, ListenerDown, AcceptGone
<1>8. PoolInv'
  <2>1. ~complete /\ (stop => AllExited) /\ (phase > DRAIN_CONNECTIONS => stop)
    BY <1>1, <1>2 DEF PoolInv, PoolDown
  <2>2. CASE /\ phase > STOP_ACCEPTING
             /\ mpc' = "dtor_listener"
             /\ UNCHANGED <<running, stop, after>>
    BY <1>1, <1>2, <1>3, <2>1, <2>2 DEF PoolInv, PoolDown, AllExited
  <2>3. CASE /\ phase = STOP_ACCEPTING
             /\ running' = FALSE /\ mpc' = "l_close" /\ after' = "phase_next"
             /\ UNCHANGED stop
    BY <1>1, <1>2, <1>3, <2>1, <2>3 DEF PoolInv, PoolDown, AllExited
  <2>4. CASE /\ phase = DRAIN_CONNECTIONS
             /\ ~stop
             /\ stop' = TRUE /\ mpc' = "p_notify" /\ after' = "phase_next"
             /\ UNCHANGED running
    BY <1>1, <1>2, <1>3, <2>1, <2>4 DEF PoolInv, PoolDown, AllExited
  <2>5. CASE /\ phase > STOP_ACCEPTING
             /\ phase = DRAIN_CONNECTIONS => stop
             /\ mpc' = "phase_next"
             /\ UNCHANGED <<running, stop, after>>
    <3>1. stop
      BY <1>1, <2>1, <2>5 DEF DataOK
    <3>. QED
      BY <1>1, <1>2, <1>3, <2>1, <2>5, <3>1 DEF PoolInv, PoolDown, AllExited
  <2>. QED
    BY <1>4, <2>2, <2>3, <2>4, <2>5, Zenon
<1>9. ConnInv'
  BY <1>1, <1>2 DEF ConnInv, NoConnectionRejected, Queued
<1>. QED
  BY <1>5, <1>6, <1>7, <1>8, <1>9, TypeSplitPrime DEF IInv

\* The process has exited: nothing changes.
LEMMA TerminatedIInv ==
  ASSUME IInv, Terminated
  PROVE  IInv'
BY DEF Terminated, vars, IInv, TypeOK, MainInv, PoolInv, ConnInv,
       ListenerDown, AcceptGone, AllExited, Queued, PoolDown,
       NoConnectionRejected

\* A step that changes no variable keeps the invariant.
LEMMA StutterIInv ==
  ASSUME IInv, UNCHANGED vars
  PROVE  IInv'
BY DEF vars, IInv, TypeOK, MainInv, PoolInv, ConnInv, ListenerDown,
       AcceptGone, AllExited, Queued, PoolDown, NoConnectionRejected

-----------------------------------------------------------------------------
\* signal handler and the clients keeps the inductive invariant.
\* signal handler and the clients: this step keeps the inductive invariant.
THEOREM NextIInv == IInv /\ [Next]_vars => IInv'
<1> SUFFICES ASSUME IInv, [Next]_vars PROVE IInv'
  OBVIOUS
<1>1. CASE signal_handler
  BY <1>1, SignalIInv
<1>2. CASE \E c \in Conns : Connect(c)
  BY <1>2, ConnectIInv
<1>3. CASE MainStep
  BY <1>3, StartIInv, StartFailsIInv, MainLoopIInv, PhaseStepIInv,
     PhaseNextIInv, CloseSocketIInv, JoinAcceptIInv, NotifyAllIInv,
     JoinWorkersIInv, DtorListenerIInv, DtorPoolIInv DEF MainStep
<1>4. CASE AcceptStep
  BY <1>4, AcceptCheckIInv, AcceptIInv, PollTimeoutIInv, SubmitIInv,
     NotifyOneIInv DEF AcceptStep
<1>5. CASE \E w \in Workers : WorkerStep(w) \/ SpuriousWake(w)
  BY <1>5, WorkerLoopIInv, RunTaskIInv, SpuriousWakeIInv DEF WorkerStep
<1>6. CASE Terminated
  BY <1>6, TerminatedIInv
<1>7. CASE UNCHANGED vars
  BY <1>7, StutterIInv
<1>. QED
  BY <1>1, <1>2, <1>3, <1>4, <1>5, <1>6, <1>7 DEF Next

\* The inductive invariant holds in every reachable state.
THEOREM IInvHolds == Spec => []IInv
BY InitIInv, NextIInv, PTL DEF Spec

\* Every variable of the server keeps its type (TypeOK).
THEOREM TypeCorrect == Spec => []TypeOK
BY IInvHolds, PTL DEF IInv

\* No client connection is ever closed by the accept loop's catch after
\* submit() throws on a stopped pool (NoConnectionRejected): the listener is
\* stopped and its accept thread joined before the pool's stop_ is set.
THEOREM NoConnectionRejectedHolds == Spec => []NoConnectionRejected
BY IInvHolds, PTL DEF IInv, ConnInv

\* Once shutdown_complete_ is set, or main() has returned, every accepted
\* connection has been closed by its task (ShutdownDrainsConnections); the
\* pool's workers leave worker_loop() only with an empty queue.
LEMMA IInvDrains == IInv => ShutdownDrainsConnections
<1> SUFFICES ASSUME IInv, complete \/ mpc = "exited", NEW c \in Conns
             PROVE  conn[c] \notin InFlight
  BY DEF ShutdownDrainsConnections
<1>1. BoolOK /\ DataOK /\ MainInv /\ PoolInv /\ ConnInv
  BY TypeSplit DEF IInv
<1>2. stop /\ mpc \notin {"p_notify", "p_join"}
  BY <1>1 DEF BoolOK, PoolInv, PoolDown
<1>3. AllExited /\ tasks = <<>>
  BY <1>1, <1>2, WorkersAssumption DEF PoolInv, AllExited
<1>4. AcceptGone
  BY <1>1, <1>2 DEF MainInv
<1>. QED
  BY <1>1, <1>3, <1>4 DEF ConnInv, Queued, AllExited, AcceptGone, InFlight

\* In every reachable state, a completed or exited shutdown has left no
\* accepted connection open (ShutdownDrainsConnections).
THEOREM ShutdownDrainsConnectionsHolds == Spec => []ShutdownDrainsConnections
BY IInvHolds, IInvDrains, PTL

\* No step changes both stop_ and the accept thread's place: only the main
\* thread's shutdown() sets stop_, and only the accept thread and start()
\* move apc.
LEMMA StopOrAcceptUnchanged ==
  ASSUME [Next]_vars
  PROVE  UNCHANGED stop \/ UNCHANGED apc
<1>1. CASE MainStep
  BY <1>1 DEF MainStep, start, StartFails, MainLoop, PhaseStep, PhaseNext,
              close_socket, JoinAccept, NotifyAll, JoinWorkers, DtorListener,
              DtorPool
<1>2. CASE AcceptStep
  BY <1>2 DEF AcceptStep, AcceptCheck, accept, PollTimeout, submit, NotifyOne
<1>3. CASE \E w \in Workers : WorkerStep(w) \/ SpuriousWake(w)
  BY <1>3 DEF WorkerStep, worker_loop, RunTask, SpuriousWake
<1>4. CASE signal_handler \/ (\E c \in Conns : Connect(c)) \/ Terminated
  BY <1>4 DEF signal_handler, Connect, Terminated, vars
<1>5. CASE UNCHANGED vars
  BY <1>5 DEF vars
<1>. QED
  BY <1>1, <1>2, <1>3, <1>4, <1>5 DEF Next

\* A step that sets stop_ is taken when the accept thread is gone.
LEMMA StopStepAcceptGone ==
  ASSUME IInv, [Next]_vars
  PROVE  ~stop /\ stop' => apc \in {"none", "done"}
<1> SUFFICES ASSUME ~stop, stop' PROVE apc \in {"none", "done"}
  OBVIOUS
<1>1. IInv'
  BY NextIInv
<1>2. apc' \in {"none", "done"}
  BY <1>1, Zenon DEF IInv, MainInv, AcceptGone
<1>3. apc' = apc
  BY StopOrAcceptUnchanged
<1>. QED
  BY <1>2, <1>3

\* ThreadPool::shutdown() sets stop_ only once the accept thread has been
\* joined, or was never started (StopAfterAcceptJoined).
THEOREM StopAfterAcceptJoinedHolds == Spec => StopAfterAcceptJoined
<1>1. IInv /\ [Next]_vars => [~stop /\ stop' => apc \in {"none", "done"}]_vars
  BY StopStepAcceptGone
<1>. QED
  BY <1>1, IInvHolds, PTL DEF Spec, StopAfterAcceptJoined
=============================================================================
