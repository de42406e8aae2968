----------------------------- MODULE WorkQueue -----------------------------
(***************************************************************************)
(* The queue of admission.c between the accept loop of main.c and its pool *)
(* of worker threads: a ring of file descriptors under one mutex, with the *)
(* condition variables not_empty and not_full.  The accept loop of the     *)
(* scanner sheds a connection when the queue is full (tee_queue_try_push); *)
(* that of the signer waits for room (tee_queue_push).  One action is what *)
(* one thread does between taking the mutex and releasing it, whether by   *)
(* unlocking or by waiting.                                                *)
(***************************************************************************)
EXTENDS Integers, FiniteSets

CONSTANTS
  Workers,    \* the worker threads
  Conns,      \* the connections clients open
  NoConn,     \* no connection
  Capacity    \* WORK_QUEUE_CAPACITY

ASSUME QueueAssumption ==
  /\ IsFiniteSet(Workers) /\ Workers # {}
  /\ NoConn \notin Conns
  /\ Capacity \in Nat \ {0}

VARIABLES
  fds, head, tail, count, shutdown,   \* work_queue_t
  wpc,        \* where each worker is in its loop
  serving,    \* the connection each worker handles, or NoConn
  ppc,        \* where the accept loop is
  held,       \* the connection the accept loop has accepted, or NoConn
  conn,       \* what has become of each connection
  running,    \* g_running
  is_signer   \* the --role this process was started with

queueVars == <<fds, head, tail, count, shutdown>>
workerVars == <<wpc, serving>>
loopVars == <<ppc, held, running, is_signer>>
vars == <<queueVars, workerVars, loopVars, conn>>

Init ==
  /\ fds = [i \in 0 .. Capacity - 1 |-> NoConn]
  /\ head = 0 /\ tail = 0 /\ count = 0
  /\ shutdown = FALSE
  /\ wpc = [w \in Workers |-> "popping"]
  /\ serving = [w \in Workers |-> NoConn]
  /\ ppc = "loop"
  /\ held = NoConn
  /\ conn = [c \in Conns |-> "pending"]
  /\ running = TRUE
  /\ is_signer \in BOOLEAN

Sleeping == {w \in Workers : wpc[w] = "waiting"}

(* The workers that ask for the mutex in tee_queue_pop.                    *)
Awake == {w \in Workers : wpc[w] = "popping"}

(* Mutant: nobody is signalled.                                            *)
SignalNotEmpty_Missing == UNCHANGED wpc

(* pthread_cond_signal(&q->not_empty): one sleeper, if there is one, will  *)
(* take the mutex and look again.                                          *)
SignalNotEmpty ==
  IF Sleeping = {} THEN UNCHANGED wpc
  ELSE \E w \in Sleeping : wpc' = [wpc EXCEPT ![w] = "popping"]

-----------------------------------------------------------------------------
(* The accept loop.                                                        *)

(* tee_accept_gated returns a connection; a poll that times out, a failed  *)
(* accept and a refused peer only go round the loop again.                 *)
Accept(c) ==
  /\ ppc = "loop"
  /\ running
  /\ conn[c] = "pending"
  /\ ppc' = "pushing"
  /\ held' = c
  /\ conn' = [conn EXCEPT ![c] = "held"]
  /\ UNCHANGED <<queueVars, workerVars, running, is_signer>>

Enqueue ==
  /\ fds' = [fds EXCEPT ![tail] = held]
  /\ tail' = (tail + 1) % Capacity
  /\ count' = count + 1
  /\ conn' = [conn EXCEPT ![held] = "queued"]
  /\ SignalNotEmpty
  /\ ppc' = "loop"
  /\ held' = NoConn
  /\ UNCHANGED <<head, shutdown, serving, running, is_signer>>

(* Both pushes, when there is room.                                        *)
Push ==
  /\ ppc = "pushing"
  /\ ~ shutdown
  /\ count # Capacity
  /\ Enqueue

(* tee_queue_try_push fails: the accept loop sends the busy reply and      *)
(* closes the connection.                                                  *)
Shed ==
  /\ ppc = "pushing"
  /\ ~ is_signer
  /\ shutdown \/ count = Capacity
  /\ conn' = [conn EXCEPT ![held] = "shed"]
  /\ ppc' = "loop"
  /\ held' = NoConn
  /\ UNCHANGED <<queueVars, workerVars, running, is_signer>>

(* tee_queue_push waits on not_full.  Its other way out, closing the       *)
(* connection because of a shutdown, is never taken: only this thread      *)
(* shuts the queue down, after its loop.                                   *)
Block ==
  /\ ppc = "pushing"
  /\ is_signer
  /\ count = Capacity /\ ~ shutdown
  /\ ppc' = "blocked"
  /\ UNCHANGED <<queueVars, workerVars, held, running, is_signer, conn>>

(* SIGTERM or SIGINT, whatever the threads are doing.                      *)
Signal ==
  /\ running
  /\ running' = FALSE
  /\ UNCHANGED <<queueVars, workerVars, ppc, held, conn, is_signer>>

(* Mutant: the sleepers are not told.                                      *)
Shutdown_NoBroadcast ==
  /\ ppc = "loop"
  /\ ~ running
  /\ shutdown' = TRUE
  /\ ppc' = "joining"
  /\ UNCHANGED <<fds, head, tail, count, workerVars, held, conn, running, is_signer>>

(* The loop has seen g_running cleared: tee_queue_shutdown.                *)
Shutdown ==
  /\ ppc = "loop"
  /\ ~ running
  /\ shutdown' = TRUE
  /\ wpc' = [w \in Workers |-> IF wpc[w] = "waiting" THEN "popping" ELSE wpc[w]]
  /\ ppc' = "joining"
  /\ UNCHANGED <<fds, head, tail, count, serving, held, conn, running, is_signer>>

(* pthread_join has returned for every worker; the daemon can stop.        *)
Join ==
  /\ ppc = "joining"
  /\ \A w \in Workers : wpc[w] = "exited"
  /\ ppc' = "joined"
  /\ UNCHANGED <<queueVars, workerVars, held, conn, running, is_signer>>

-----------------------------------------------------------------------------
(* The workers.                                                            *)

(* Mutant: the newest connection is taken.                                 *)
Pop_Newest(w) ==
  LET last == (tail - 1) % Capacity
  IN  /\ wpc[w] = "popping"
      /\ count # 0
      /\ tail' = last
      /\ count' = count - 1
      /\ ppc' = IF ppc = "blocked" THEN "pushing" ELSE ppc
      /\ wpc' = [wpc EXCEPT ![w] = "serving"]
      /\ serving' = [serving EXCEPT ![w] = fds[last]]
      /\ conn' = [conn EXCEPT ![fds[last]] = "serving"]
      /\ UNCHANGED <<fds, head, shutdown, held, running, is_signer>>

(* Mutant: the accept loop is not told of the room.                        *)
Pop_NoSignal(w) ==
  /\ wpc[w] = "popping"
  /\ count # 0
  /\ head' = (head + 1) % Capacity
  /\ count' = count - 1
  /\ wpc' = [wpc EXCEPT ![w] = "serving"]
  /\ serving' = [serving EXCEPT ![w] = fds[head]]
  /\ conn' = [conn EXCEPT ![fds[head]] = "serving"]
  /\ UNCHANGED <<fds, tail, shutdown, ppc, held, running, is_signer>>

(* tee_queue_pop takes the oldest connection and signals not_full, on      *)
(* which only the accept loop can wait.                                    *)
Pop(w) ==
  /\ wpc[w] = "popping"
  /\ count # 0
  /\ head' = (head + 1) % Capacity
  /\ count' = count - 1
  /\ ppc' = IF ppc = "blocked" THEN "pushing" ELSE ppc
  /\ wpc' = [wpc EXCEPT ![w] = "serving"]
  /\ serving' = [serving EXCEPT ![w] = fds[head]]
  /\ conn' = [conn EXCEPT ![fds[head]] = "serving"]
  /\ UNCHANGED <<fds, tail, shutdown, held, running, is_signer>>

(* tee_queue_pop waits on not_empty.                                       *)
Sleep(w) ==
  /\ wpc[w] = "popping"
  /\ count = 0 /\ ~ shutdown
  /\ wpc' = [wpc EXCEPT ![w] = "waiting"]
  /\ UNCHANGED <<queueVars, serving, loopVars, conn>>

(* Mutant: a shutdown ends the thread though connections wait.             *)
Exit_Early(w) ==
  /\ wpc[w] = "popping"
  /\ shutdown
  /\ wpc' = [wpc EXCEPT ![w] = "exited"]
  /\ UNCHANGED <<queueVars, serving, loopVars, conn>>

(* tee_queue_pop returns -1 and the thread ends.                           *)
Exit(w) ==
  /\ wpc[w] = "popping"
  /\ count = 0 /\ shutdown
  /\ wpc' = [wpc EXCEPT ![w] = "exited"]
  /\ UNCHANGED <<queueVars, serving, loopVars, conn>>

(* handle_connection returns and the worker closes the connection.         *)
Finish(w) ==
  /\ wpc[w] = "serving"
  /\ wpc' = [wpc EXCEPT ![w] = "popping"]
  /\ serving' = [serving EXCEPT ![w] = NoConn]
  /\ conn' = [conn EXCEPT ![serving[w]] = "closed"]
  /\ UNCHANGED <<queueVars, loopVars>>

(* A condition variable may wake a thread for no reason.                   *)
SpuriousWake(w) ==
  /\ wpc[w] = "waiting"
  /\ wpc' = [wpc EXCEPT ![w] = "popping"]
  /\ UNCHANGED <<queueVars, serving, loopVars, conn>>

SpuriousUnblock ==
  /\ ppc = "blocked"
  /\ ppc' = "pushing"
  /\ UNCHANGED <<queueVars, workerVars, held, running, is_signer, conn>>

-----------------------------------------------------------------------------
PopStep(w) == Pop(w) \/ Sleep(w) \/ Exit(w)

LoopStep == Push \/ Shed \/ Block \/ Shutdown \/ Join

Next ==
  \/ \E c \in Conns : Accept(c)
  \/ Signal
  \/ LoopStep
  \/ \E w \in Workers : PopStep(w) \/ Finish(w)
  \/ SpuriousUnblock
  \/ \E w \in Workers : SpuriousWake(w)

Spec == Init /\ [][Next]_vars

(* A thread that asks for the mutex gets it, the accept loop keeps going   *)
(* round, and every request ends: the sockets have timeouts.  Clients and  *)
(* signals come when they like.                                            *)
Fairness ==
  /\ WF_vars(LoopStep)
  /\ \A w \in Workers : WF_vars(PopStep(w)) /\ WF_vars(Finish(w))

FairSpec == Spec /\ Fairness

-----------------------------------------------------------------------------
(* Properties.                                                             *)

TypeOK ==
  /\ fds \in [0 .. Capacity - 1 -> Conns \cup {NoConn}]
  /\ head \in 0 .. Capacity - 1
  /\ tail \in 0 .. Capacity - 1
  /\ count \in 0 .. Capacity
  /\ shutdown \in BOOLEAN
  /\ wpc \in [Workers -> {"popping", "waiting", "serving", "exited"}]
  /\ serving \in [Workers -> Conns \cup {NoConn}]
  /\ ppc \in {"loop", "pushing", "blocked", "joining", "joined"}
  /\ held \in Conns \cup {NoConn}
  /\ conn \in [Conns -> {"pending", "held", "queued", "serving", "closed", "shed"}]
  /\ running \in BOOLEAN
  /\ is_signer \in BOOLEAN

(* The slot of the i-th connection of the ring, the oldest being the first. *)
SlotAt(i) == (head + i - 1) % Capacity

QueuePlaces(c) == {i \in 1 .. count : fds[SlotAt(i)] = c}

Servers(c) == {w \in Workers : serving[w] = c}

(* Every connection is exactly where its state says: in one slot of the    *)
(* live part of the ring, with one worker, or with the accept loop.  None  *)
(* is lost, none is served or closed twice, whoever races for it.          *)
OneOwner ==
  \A c \in Conns :
    /\ conn[c] = "queued" <=> QueuePlaces(c) # {}
    /\ conn[c] = "serving" <=> Servers(c) # {}
    /\ conn[c] = "held" <=> held = c
    /\ \A i, j \in QueuePlaces(c) : i = j
    /\ \A v, w \in Servers(c) : v = w

(* No wake-up is lost: while a worker sleeps, every connection that waits  *)
(* has an awake worker on its way to the mutex, and the accept loop sleeps *)
(* only while the ring is full.                                            *)
NoLostWakeup ==
  /\ Sleeping # {} => count <= Cardinality(Awake)
  /\ ppc = "blocked" => count = Capacity

(* The shutdown drains the queue: no worker leaves while something waits,  *)
(* none sleeps through it, and when the daemon stops every connection it   *)
(* accepted has been answered and closed.                                  *)
DrainsOnShutdown ==
  /\ \A w \in Workers : wpc[w] = "exited" => shutdown /\ count = 0
  /\ shutdown => Sleeping = {}
  /\ ppc = "joined" =>
       \A c \in Conns : conn[c] \in {"pending", "closed", "shed"}

(* A signal stops the daemon, also when the accept loop was waiting for    *)
(* room, which a signal does not end.                                      *)
StopsOnSignal == ~ running ~> ppc = "joined"

(* The accept loop comes round to its watchdog ping from wherever it is.   *)
LoopComesRound == held # NoConn ~> ppc = "loop"

(* The hand-off, with the ring read from head.                             *)
HandedOff == INSTANCE Handoff
  WITH queue <- [i \in 1 .. count |-> fds[SlotAt(i)]],
       done <- {c \in Conns : conn[c] \in {"closed", "shed"}},
       open <- ~ shutdown

HandoffSpec == HandedOff!Spec
FairHandoffSpec == HandedOff!FairSpec
=============================================================================
