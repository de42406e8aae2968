------------------------------- MODULE Daemon -------------------------------
(***************************************************************************)
(* The scanner as its clients see it: the accept loop of main() with the   *)
(* fast path in front of two queues, the pool behind the one, the control  *)
(* worker behind the other, and the statistics they all read and write.    *)
(* The fast path looks at a connection without taking bytes from it, for a *)
(* bounded time; health and metrics are answered in the loop itself, an    *)
(* attestation goes to the control queue, everything else to the scan      *)
(* queue.  A queue is a sequence here: that the ring, its mutex and its    *)
(* condition variables amount to that is what WorkQueueProofs shows.       *)
(***************************************************************************)
EXTENDS Integers, Sequences, SequencesExt

CONSTANTS
  Workers,    \* the scan workers, g_workers
  Control,    \* g_control_worker
  Loop,       \* the thread of the accept loop
  Conns,      \* the connections clients open
  NoConn,     \* no connection
  Requests,   \* what the clients may ask, together
  Prompt,     \* the connections whose message is there from the start
  Long,       \* those whose message is longer than FASTPATH_MAX_MSG
  Capacity,   \* WORK_QUEUE_CAPACITY
  Rounds      \* FASTPATH_WAIT_MS / FASTPATH_POLL_SLICE_MS

Servers == Workers \cup {Control}
Queues == {"scan", "control"}
Verdicts == {"clean", "sanitized", "rejected", "errored"}

(* A peer with the wrong uid, the four operations, and any other.          *)
Kinds == {"foreign", "scan", "attestation", "health", "metrics", "other"}

ASSUME DaemonAssumption ==
  /\ Control \notin Workers /\ Loop \notin Servers /\ Workers # {}
  /\ NoConn \notin Conns
  /\ Requests \subseteq [Conns -> Kinds] /\ Prompt \subseteq Conns /\ Long \subseteq Conns
  /\ Capacity \in Nat \ {0}
  /\ Rounds \in Nat

VARIABLES
  request,    \* what each client asks
  inbox,      \* what the socket of each connection holds unread
  fate,       \* where each connection is
  reply,      \* what each client was sent last
  at,         \* where the accept loop is
  held,       \* the connection it has accepted, or NoConn
  budget,     \* the slices the fast path may still wait
  dest,       \* the queue it pushes to
  queue,      \* the connections in each queue, oldest first
  down,       \* shutdown of each queue
  pc,         \* where each server is
  serving,    \* the connection it handles, or NoConn
  tally,      \* g_scans_completed and the counter of each verdict
  loads,      \* what a thread has loaded of them for an answer to metrics
  running     \* g_running

clientVars == <<request, inbox>>
loopVars == <<at, held, budget, dest>>
serverVars == <<pc, serving>>
vars == <<clientVars, fate, reply, loopVars, queue, down, serverVars, tally,
          loads, running>>

Init ==
  /\ request \in Requests
  /\ inbox = [c \in Conns |-> "empty"]
  /\ fate = [c \in Conns |-> "absent"]
  /\ reply = [c \in Conns |-> "none"]
  /\ at = "poll" /\ held = NoConn /\ budget = Rounds /\ dest = "scan"
  /\ queue = [q \in Queues |-> <<>>]
  /\ down = [q \in Queues |-> FALSE]
  /\ pc = [s \in Servers |-> "popping"]
  /\ serving = [s \in Servers |-> NoConn]
  /\ tally = [n \in Verdicts \cup {"completed"} |-> 0]
  /\ loads = [t \in Servers \cup {Loop} |-> <<>>]
  /\ running = TRUE

-----------------------------------------------------------------------------
(* The clients: they connect, send their message at once or in parts, or   *)
(* close.  "part" is some of it, "cut" the same with nothing to follow.    *)

Connect(c) ==
  /\ fate[c] = "absent"
  /\ fate' = [fate EXCEPT ![c] = "backlog"]
  /\ inbox' = [inbox EXCEPT ![c] = IF c \in Prompt THEN "whole" ELSE "empty"]
  /\ UNCHANGED <<request, reply, loopVars, queue, down, serverVars, tally, loads, running>>

Send(c) ==
  /\ fate[c] \notin {"absent", "closed"}
  /\ \/ inbox[c] = "empty" /\ inbox' = [inbox EXCEPT ![c] = "part"]
     \/ inbox[c] = "part" /\ inbox' = [inbox EXCEPT ![c] = "whole"]
  /\ UNCHANGED <<request, fate, reply, loopVars, queue, down, serverVars, tally, loads, running>>

Hangup(c) ==
  /\ fate[c] \notin {"absent", "closed"}
  /\ \/ inbox[c] = "empty" /\ inbox' = [inbox EXCEPT ![c] = "gone"]
     \/ inbox[c] = "part" /\ inbox' = [inbox EXCEPT ![c] = "cut"]
  /\ UNCHANGED <<request, fate, reply, loopVars, queue, down, serverVars, tally, loads, running>>

(* SIGTERM or SIGINT.                                                      *)
Signal ==
  /\ running
  /\ running' = FALSE
  /\ UNCHANGED <<clientVars, fate, reply, loopVars, queue, down, serverVars, tally, loads>>

-----------------------------------------------------------------------------
(* The accept loop.                                                        *)

(* A connection is closed with the last thing it was sent.  The send may   *)
(* fail or time out; nobody looks.                                         *)
CloseWith(c, r) ==
  /\ reply' = [reply EXCEPT ![c] = r]
  /\ fate' = [fate EXCEPT ![c] = "closed"]

(* tee_accept_gated: a peer that is neither www-data nor root is closed.   *)
(* A poll that times out only goes round the loop again.                   *)
Accept(c) ==
  /\ at = "poll" /\ running
  /\ fate[c] = "backlog"
  /\ IF request[c] = "foreign"
     THEN /\ fate' = [fate EXCEPT ![c] = "closed"]
          /\ UNCHANGED <<at, held, budget>>
     ELSE /\ fate' = [fate EXCEPT ![c] = "held"]
          /\ at' = "peek" /\ held' = c /\ budget' = Rounds
  /\ UNCHANGED <<clientVars, reply, dest, queue, down, serverVars, tally, loads, running>>

(* recv with MSG_PEEK has seen the whole of a message of at most           *)
(* FASTPATH_MAX_MSG bytes, whatever it asks.                               *)
SeesWhole(c) == inbox[c] = "whole" /\ c \notin Long

(* It has seen the length of a message that is too long, or the end of the *)
(* stream.                                                                 *)
SeesNone(c) ==
  \/ c \in Long /\ inbox[c] \in {"part", "cut", "whole"}
  \/ inbox[c] = "gone"

(* tee_route_small_request: health and metrics are taken from the socket   *)
(* and answered here.                                                      *)
FastAnswer ==
  /\ at = "peek"
  /\ SeesWhole(held)
  /\ request[held] \in {"health", "metrics"}
  /\ inbox' = [inbox EXCEPT ![held] = "read"]
  /\ at' = "answer"
  /\ UNCHANGED <<request, fate, reply, held, budget, dest, queue, down, serverVars, tally, loads, running>>

(* Mutant: the bytes looked at are taken from the socket.                  *)
FastRoute_Takes ==
  /\ at = "peek"
  /\ SeesWhole(held) /\ request[held] \notin {"health", "metrics"}
  /\ dest' = IF request[held] = "attestation" THEN "control" ELSE "scan"
  /\ at' = "push"
  /\ inbox' = [inbox EXCEPT ![held] = "read"]
  /\ UNCHANGED <<request, fate, reply, held, budget, queue, down, serverVars, tally, loads, running>>

FastRoute ==
  /\ at = "peek"
  /\ SeesWhole(held) /\ request[held] \notin {"health", "metrics"}
  /\ dest' = IF request[held] = "attestation" THEN "control" ELSE "scan"
  /\ at' = "push"
  /\ UNCHANGED <<clientVars, fate, reply, held, budget, queue, down, serverVars, tally, loads, running>>

(* Too long, ended, or still not whole when the budget is spent.           *)
FastQueue ==
  /\ at = "peek"
  /\ SeesNone(held) \/ (budget = 0 /\ ~ SeesWhole(held))
  /\ dest' = "scan"
  /\ at' = "push"
  /\ UNCHANGED <<clientVars, fate, reply, held, budget, queue, down, serverVars, tally, loads, running>>

(* Mutant: the budget is not charged.                                      *)
FastWait_Free ==
  /\ at = "peek"
  /\ inbox[held] \in {"empty", "part", "cut"}
  /\ budget > 0
  /\ UNCHANGED vars

(* Another slice of poll or nanosleep.  The part of a long message that is *)
(* there may be less than its length.                                      *)
FastWait ==
  /\ at = "peek"
  /\ inbox[held] \in {"empty", "part", "cut"}
  /\ budget > 0
  /\ budget' = budget - 1
  /\ UNCHANGED <<clientVars, fate, reply, at, held, dest, queue, down, serverVars, tally, loads, running>>

(* tee_queue_try_push.                                                     *)
Push ==
  /\ at = "push"
  /\ Len(queue[dest]) < Capacity
  /\ queue' = [queue EXCEPT ![dest] = Append(@, held)]
  /\ fate' = [fate EXCEPT ![held] = "queued"]
  /\ at' = "poll" /\ held' = NoConn
  /\ UNCHANGED <<clientVars, reply, budget, dest, down, serverVars, tally, loads, running>>

(* No room: the busy reply, within two seconds.                            *)
Shed ==
  /\ at = "push"
  /\ Len(queue[dest]) = Capacity
  /\ CloseWith(held, "busy")
  /\ at' = "poll" /\ held' = NoConn
  /\ UNCHANGED <<clientVars, budget, dest, queue, down, serverVars, tally, loads, running>>

Shutdown ==
  /\ at = "poll" /\ ~ running
  /\ down' = [down EXCEPT !["scan"] = TRUE]
  /\ at' = "shutting"
  /\ UNCHANGED <<clientVars, fate, reply, held, budget, dest, queue, serverVars, tally, loads, running>>

(* Mutant: the control queue is forgotten.                                 *)
ShutdownControl_Forgotten ==
  /\ at = "shutting"
  /\ at' = "joining"
  /\ UNCHANGED <<clientVars, fate, reply, held, budget, dest, queue, down, serverVars, tally, loads, running>>

ShutdownControl ==
  /\ at = "shutting"
  /\ down' = [down EXCEPT !["control"] = TRUE]
  /\ at' = "joining"
  /\ UNCHANGED <<clientVars, fate, reply, held, budget, dest, queue, serverVars, tally, loads, running>>

Join ==
  /\ at = "joining"
  /\ \A s \in Servers : pc[s] = "exited"
  /\ at' = "done"
  /\ UNCHANGED <<clientVars, fate, reply, held, budget, dest, queue, down, serverVars, tally, loads, running>>

-----------------------------------------------------------------------------
(* Health and metrics, in whatever thread answers.                         *)

(* Mutant: handle_metrics reads the total last.                            *)
Order_TotalLast == <<"clean", "sanitized", "rejected", "errored", "completed">>

(* The order in which handle_metrics loads the counters.                   *)
Order == <<"completed", "clean", "sanitized", "rejected", "errored">>

Answering(t) == IF t = Loop THEN at = "answer" ELSE pc[t] = "answering"
Asker(t) == IF t = Loop THEN held ELSE serving[t]

Load(t) ==
  /\ Answering(t)
  /\ request[Asker(t)] = "metrics"
  /\ Len(loads[t]) < Len(Order)
  /\ loads' = [loads EXCEPT ![t] = Append(@, tally[Order[Len(@) + 1]])]
  /\ UNCHANGED <<clientVars, fate, reply, loopVars, queue, down, serverVars, tally, running>>

(* The answer leaves and the connection is closed.                         *)
Answer(t) ==
  /\ Answering(t)
  /\ request[Asker(t)] = "metrics" => Len(loads[t]) = Len(Order)
  /\ CloseWith(Asker(t), request[Asker(t)])
  /\ loads' = [loads EXCEPT ![t] = <<>>]
  /\ IF t = Loop
     THEN at' = "poll" /\ held' = NoConn /\ UNCHANGED serverVars
     ELSE /\ pc' = [pc EXCEPT ![t] = "popping"]
          /\ serving' = [serving EXCEPT ![t] = NoConn]
          /\ UNCHANGED <<at, held>>
  /\ UNCHANGED <<clientVars, budget, dest, queue, down, tally, running>>

-----------------------------------------------------------------------------
(* The scan workers and the control worker.                                *)

Source(s) == IF s = Control THEN "control" ELSE "scan"

Pop(s) ==
  /\ pc[s] = "popping"
  /\ queue[Source(s)] # <<>>
  /\ LET c == Head(queue[Source(s)])
     IN  /\ serving' = [serving EXCEPT ![s] = c]
         /\ fate' = [fate EXCEPT ![c] = "served"]
  /\ queue' = [queue EXCEPT ![Source(s)] = Tail(@)]
  /\ pc' = [pc EXCEPT ![s] = "reading"]
  /\ UNCHANGED <<clientVars, reply, loopVars, down, tally, loads, running>>

Exit(s) ==
  /\ pc[s] = "popping"
  /\ queue[Source(s)] = <<>> /\ down[Source(s)]
  /\ pc' = [pc EXCEPT ![s] = "exited"]
  /\ UNCHANGED <<clientVars, fate, reply, loopVars, queue, down, serving, tally, loads, running>>

(* handle_connection has read the message and found the operation.         *)
Dispatch(s) ==
  /\ pc[s] = "reading"
  /\ inbox[serving[s]] = "whole"
  /\ request[serving[s]] # "other"
  /\ inbox' = [inbox EXCEPT ![serving[s]] = "read"]
  /\ pc' = [pc EXCEPT ![s] = CASE request[serving[s]] = "scan" -> "scanning"
                               [] request[serving[s]] = "attestation" -> "asking"
                               [] OTHER -> "answering"]
  /\ UNCHANGED <<request, fate, reply, loopVars, queue, down, serving, tally, loads, running>>

(* A server is through with its connection.                                *)
Release(s) ==
  /\ pc' = [pc EXCEPT ![s] = "popping"]
  /\ serving' = [serving EXCEPT ![s] = NoConn]

(* recv_op_message fails: the stream ended or was silent for two minutes.  *)
Unreadable(s) ==
  /\ pc[s] = "reading"
  /\ inbox[serving[s]] # "whole"
  /\ CloseWith(serving[s], "invalid")
  /\ Release(s)
  /\ UNCHANGED <<clientVars, loopVars, queue, down, tally, loads, running>>

UnknownOp(s) ==
  /\ pc[s] = "reading"
  /\ inbox[serving[s]] = "whole" /\ request[serving[s]] = "other"
  /\ inbox' = [inbox EXCEPT ![serving[s]] = "read"]
  /\ CloseWith(serving[s], "other")
  /\ Release(s)
  /\ UNCHANGED <<request, loopVars, queue, down, tally, loads, running>>

(* handle_attestation_proxy: the signer has answered, or signer_call has   *)
(* given up.                                                               *)
Attested(s) ==
  /\ pc[s] = "asking"
  /\ CloseWith(serving[s], "attestation")
  /\ Release(s)
  /\ UNCHANGED <<clientVars, loopVars, queue, down, tally, loads, running>>

(* handle_scan comes to a verdict and counts it ...                        *)
Count(s) ==
  /\ pc[s] = "scanning"
  /\ \E v \in Verdicts : tally' = [tally EXCEPT ![v] = @ + 1]
  /\ pc' = [pc EXCEPT ![s] = "counted"]
  /\ UNCHANGED <<clientVars, fate, reply, loopVars, queue, down, serving, loads, running>>

(* ... or ends with a busy reply or at scan_failed, which count nothing.   *)
Fail(s) ==
  /\ pc[s] = "scanning"
  /\ CloseWith(serving[s], "scan")
  /\ Release(s)
  /\ UNCHANGED <<clientVars, loopVars, queue, down, tally, loads, running>>

(* The verdict is delivered, and the scan counted as completed.            *)
Deliver(s) ==
  /\ pc[s] = "counted"
  /\ tally' = [tally EXCEPT !["completed"] = @ + 1]
  /\ CloseWith(serving[s], "scan")
  /\ Release(s)
  /\ UNCHANGED <<clientVars, loopVars, queue, down, loads, running>>

-----------------------------------------------------------------------------
Fast == FastAnswer \/ FastRoute \/ FastQueue \/ FastWait

LoopStep ==
  \/ \E c \in Conns : Accept(c)
  \/ Fast
  \/ Push \/ Shed
  \/ Load(Loop) \/ Answer(Loop)
  \/ Shutdown \/ ShutdownControl \/ Join

Serve(s) ==
  \/ Pop(s) \/ Exit(s)
  \/ Dispatch(s) \/ Unreadable(s) \/ UnknownOp(s)
  \/ Load(s) \/ Answer(s)
  \/ Attested(s)
  \/ Deliver(s)

Scan(s) == Count(s) \/ Fail(s)

Next ==
  \/ \E c \in Conns : Connect(c) \/ Send(c) \/ Hangup(c)
  \/ Signal
  \/ LoopStep
  \/ \E s \in Servers : Serve(s)
  \/ \E w \in Workers : Scan(w)

Spec == Init /\ [][Next]_vars

(* The loop goes round and every server comes on, except that a scan may   *)
(* take for ever: nothing the loop promises may rest on its end.           *)
Fairness ==
  /\ WF_vars(LoopStep)
  /\ \A s \in Servers : WF_vars(Serve(s))

FairSpec == Spec /\ Fairness

-----------------------------------------------------------------------------
(* Properties.                                                             *)

TypeOK ==
  /\ request \in Requests
  /\ inbox \in [Conns -> {"empty", "part", "whole", "gone", "cut", "read"}]
  /\ fate \in [Conns -> {"absent", "backlog", "held", "queued", "served", "closed"}]
  /\ reply \in [Conns -> Kinds \cup {"none", "busy", "invalid"}]
  /\ at \in {"poll", "peek", "answer", "push", "shutting", "joining", "done"}
  /\ held \in Conns \cup {NoConn}
  /\ budget \in 0 .. Rounds
  /\ dest \in Queues
  /\ DOMAIN queue = Queues
  /\ \A q \in Queues : queue[q] \in Seq(Conns) /\ Len(queue[q]) <= Capacity
  /\ down \in [Queues -> BOOLEAN]
  /\ pc \in [Servers -> {"popping", "reading", "scanning", "counted", "asking",
                        "answering", "exited"}]
  /\ serving \in [Servers -> Conns \cup {NoConn}]
  /\ tally \in [Verdicts \cup {"completed"} -> Nat]
  /\ DOMAIN loads = Servers \cup {Loop}
  /\ \A t \in DOMAIN loads : loads[t] \in Seq(Nat) /\ Len(loads[t]) <= Len(Order)
  /\ running \in BOOLEAN

(* Whichever way a connection took, in front of the queues or through one  *)
(* of them, it is in one place and answered for what it asked: looking at  *)
(* it took nothing from the message, a client that had sent all of it is   *)
(* never told that it was invalid, and when the daemon stops nothing it    *)
(* accepted is left in either queue.                                       *)
OneAnswer ==
  /\ \A c \in Conns :
       /\ reply[c] \in {"none", "busy", "invalid", request[c]}
       /\ reply[c] = "invalid" => inbox[c] # "read"
       /\ fate[c] = "queued" <=> \E q \in Queues : c \in ToSet(queue[q])
       /\ fate[c] = "served" <=> \E s \in Servers : serving[s] = c
       /\ fate[c] = "held" <=> held = c
  /\ at = "done" => \A c \in Conns : fate[c] \in {"absent", "backlog", "closed"}

(* An answer to metrics never shows more scans completed than verdicts,    *)
(* whatever is counted while it is put together.                           *)
Snapshot ==
  \A t \in Servers \cup {Loop} :
    Len(loads[t]) = Len(Order) =>
      LET shown == [n \in ToSet(Order) |-> loads[t][CHOOSE i \in 1 .. Len(Order) : Order[i] = n]]
      IN  shown["completed"] <=
            shown["clean"] + shown["sanitized"] + shown["rejected"] + shown["errored"]

(* A control request that is short and sent at once.  One that is padded    *)
(* beyond FASTPATH_MAX_MSG is not: it waits with the scans.                *)
Brief(c) ==
  c \in Prompt \ Long /\ request[c] \in {"health", "metrics", "attestation"}

(* A client that sends a short control request at once gets its answer,    *)
(* though no scan ever ends, other clients send nothing and other control  *)
(* requests, too long for the fast path, wait behind the scans: health and *)
(* metrics from the loop, an attestation from the control worker.  Only an *)
(* attestation may be told that the daemon is busy, and only when there is *)
(* no room in the control queue, however full that of the scans.           *)
ControlServed ==
  /\ \A c \in Conns :
       fate[c] = "backlog" /\ Brief(c)
         ~> \/ reply[c] = request[c]
            \/ reply[c] = "busy" /\ request[c] = "attestation"
            \/ ~ running
  /\ [][\A c \in Conns : Brief(c) /\ reply[c] # "busy" /\ reply'[c] = "busy"
          => Len(queue["control"]) = Capacity]_vars

(* A signal stops the daemon with both queues empty and both pools joined; *)
(* only a scan that does not end can keep it.                              *)
StopsOnSignal ==
  ~ running ~> at = "done" \/ \E w \in Workers : pc[w] = "scanning"
=============================================================================
