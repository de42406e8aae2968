----------------------------- MODULE SignerLink -----------------------------
(***************************************************************************)
(* A request from the scanner to the signer: signer_call in the thread of  *)
(* a scan or of the control worker, the listening socket, and the signer's *)
(* accept loop, queue and workers.  A call opens a socket of its own,      *)
(* tries to connect once more after half a second, sends one message and   *)
(* reads one; every wait has a timeout.  The signer may be slow, die and   *)
(* be started again.  With socket activation the listening socket belongs  *)
(* to systemd and what waits to be accepted survives the signer.           *)
(***************************************************************************)
EXTENDS Integers, Sequences

CONSTANTS
  Callers,     \* the scanner's threads that call the signer
  Servers,     \* the signer's workers
  None,        \* no connection, no request
  MaxCalls,    \* bound: the calls of each thread
  MaxCrashes,  \* bound: the deaths of either process
  Capacity     \* WORK_QUEUE_CAPACITY

(* The n-th call of w: its request, and the connection it opens.           *)
Requests == Callers \X (1 .. MaxCalls)

ASSUME LinkAssumption ==
  /\ None \notin Requests /\ None \notin {"result", "refusal"} \X Requests
  /\ MaxCalls \in Nat /\ MaxCrashes \in Nat /\ Capacity \in Nat \ {0}

VARIABLES
  calls,      \* how many calls each caller has begun
  pc,         \* where it is in signer_call
  sock,       \* its connection, or None
  outcome,    \* what its last call came to
  place,      \* the signer's side of each connection
  request,    \* the message to the signer each connection carries, or None
  response,   \* the message back, with the request it answers, or None
  held,       \* the connection the signer's accept loop has, or None
  queue,      \* those in the signer's queue
  task,       \* the connection each signer worker serves, or None
  work,       \* the request it has read, or None
  handled,    \* how often a request was worked on
  up,         \* the signer runs
  activated,  \* the listening socket is systemd's
  crashes     \* how often one of the two has died

callerVars == <<calls, pc, sock, outcome>>
wireVars == <<place, request, response>>
signerVars == <<held, queue, task, work, handled>>
vars == <<callerVars, wireVars, signerVars, up, activated, crashes>>

Waiting == <<"waiting", "nothing">>
Failure == <<"failure", "nothing">>

Own(w) == <<w, calls[w]>>

Init ==
  /\ calls = [w \in Callers |-> 0]
  /\ pc = [w \in Callers |-> "idle"]
  /\ sock = [w \in Callers |-> None]
  /\ outcome = [w \in Callers |-> Failure]
  /\ place = [c \in Requests |-> "none"]
  /\ request = [c \in Requests |-> None]
  /\ response = [c \in Requests |-> None]
  /\ held = None
  /\ queue = <<>>
  /\ task = [s \in Servers |-> None]
  /\ work = [s \in Servers |-> None]
  /\ handled = [r \in Requests |-> 0]
  /\ up = TRUE
  /\ activated \in BOOLEAN
  /\ crashes = 0

-----------------------------------------------------------------------------
(* signer_call.                                                            *)

Begin(w) ==
  /\ pc[w] = "idle"
  /\ calls[w] < MaxCalls
  /\ calls' = [calls EXCEPT ![w] = @ + 1]
  /\ pc' = [pc EXCEPT ![w] = "connecting"]
  /\ outcome' = [outcome EXCEPT ![w] = Waiting]
  /\ UNCHANGED <<sock, wireVars, signerVars, up, activated, crashes>>

(* connect succeeds while somebody listens; whether the signer accepts is  *)
(* another matter.                                                         *)
Connect(w) ==
  /\ pc[w] \in {"connecting", "reconnecting"}
  /\ up \/ activated
  /\ sock' = [sock EXCEPT ![w] = Own(w)]
  /\ place' = [place EXCEPT ![Own(w)] = "backlog"]
  /\ pc' = [pc EXCEPT ![w] = "sending"]
  /\ UNCHANGED <<calls, outcome, request, response, signerVars, up, activated, crashes>>

(* Nobody listens, the backlog stays full, or there is no descriptor: half *)
(* a second later it is tried once more.                                   *)
ConnectFails(w) ==
  /\ pc[w] = "connecting"
  /\ pc' = [pc EXCEPT ![w] = "reconnecting"]
  /\ UNCHANGED <<calls, sock, outcome, wireVars, signerVars, up, activated, crashes>>

(* close, and the call returns.                                            *)
Return(w, result) ==
  /\ outcome' = [outcome EXCEPT ![w] = result]
  /\ pc' = [pc EXCEPT ![w] = "idle"]
  /\ sock' = [sock EXCEPT ![w] = None]

ReconnectFails(w) ==
  /\ pc[w] = "reconnecting"
  /\ Return(w, Failure)
  /\ UNCHANGED <<calls, wireVars, signerVars, up, activated, crashes>>

(* A request sent just before the signer closes is not read any more.      *)
Send(w) ==
  /\ pc[w] = "sending"
  /\ place[sock[w]] # "shut" \/ response[sock[w]] # None
  /\ request' = IF place[sock[w]] = "shut" THEN request
                ELSE [request EXCEPT ![sock[w]] = Own(w)]
  /\ pc' = [pc EXCEPT ![w] = "receiving"]
  /\ UNCHANGED <<calls, sock, outcome, place, response, signerVars, up, activated, crashes>>

(* The signer has closed the connection before the request, or before the  *)
(* whole answer was there.                                                 *)
Broken(w) ==
  /\ pc[w] \in {"sending", "receiving"}
  /\ place[sock[w]] = "shut"
  /\ pc[w] = "receiving" => response[sock[w]] = None
  /\ Return(w, Failure)
  /\ response' = [response EXCEPT ![sock[w]] = None]
  /\ UNCHANGED <<calls, place, request, signerVars, up, activated, crashes>>

Receive(w) ==
  /\ pc[w] = "receiving"
  /\ response[sock[w]] # None
  /\ Return(w, response[sock[w]])
  /\ response' = [response EXCEPT ![sock[w]] = None]
  /\ UNCHANGED <<calls, place, request, signerVars, up, activated, crashes>>

(* Mutant: the socket has no timeouts.                                     *)
GiveUp_Never(w) == FALSE

(* Two minutes without a byte, or a signal in between: recv returns an     *)
(* error and nobody tries again.                                           *)
GiveUp(w) ==
  /\ pc[w] = "receiving"
  /\ response[sock[w]] = None
  /\ Return(w, Failure)
  /\ UNCHANGED <<calls, wireVars, signerVars, up, activated, crashes>>

(* The scanner dies: its sockets are closed, and whoever waited is gone.   *)
Die ==
  /\ crashes < MaxCrashes
  /\ crashes' = crashes + 1
  /\ pc' = [w \in Callers |-> "idle"]
  /\ sock' = [w \in Callers |-> None]
  /\ outcome' = [w \in Callers |-> IF outcome[w] = Waiting THEN Failure ELSE outcome[w]]
  /\ response' = [c \in Requests |-> None]
  /\ UNCHANGED <<calls, place, request, signerVars, up, activated>>

-----------------------------------------------------------------------------
(* The signer.                                                             *)

Accept(c) ==
  /\ up /\ held = None
  /\ place[c] = "backlog"
  /\ held' = c
  /\ place' = [place EXCEPT ![c] = "held"]
  /\ UNCHANGED <<callerVars, request, response, queue, task, work, handled, up, activated, crashes>>

(* tee_queue_push, which waits for room.                                   *)
Push ==
  /\ held # None
  /\ Len(queue) < Capacity
  /\ queue' = Append(queue, held)
  /\ place' = [place EXCEPT ![held] = "queued"]
  /\ held' = None
  /\ UNCHANGED <<callerVars, request, response, task, work, handled, up, activated, crashes>>

Pop(s) ==
  /\ task[s] = None
  /\ queue # <<>>
  /\ task' = [task EXCEPT ![s] = Head(queue)]
  /\ place' = [place EXCEPT ![Head(queue)] = "served"]
  /\ queue' = Tail(queue)
  /\ UNCHANGED <<callerVars, request, response, held, work, handled, up, activated, crashes>>

(* recv_op_message has the request; unseal, sign or attestation follows.   *)
Work(s) ==
  /\ task[s] # None /\ work[s] = None
  /\ request[task[s]] # None
  /\ work' = [work EXCEPT ![s] = request[task[s]]]
  /\ handled' = [handled EXCEPT ![request[task[s]]] = @ + 1]
  /\ request' = [request EXCEPT ![task[s]] = None]
  /\ UNCHANGED <<callerVars, place, response, held, queue, task, up, activated, crashes>>

(* close(fd) in signer_worker_loop.                                        *)
LetGo(s) ==
  /\ task' = [task EXCEPT ![s] = None]
  /\ work' = [work EXCEPT ![s] = None]
  /\ place' = [place EXCEPT ![task[s]] = "shut"]

(* The caller has closed its end.                                          *)
Deserted(c) == \A w \in Callers : sock[w] # c

(* Mutant: a worker waits for its request as long as it takes.             *)
Silent_Waits(s) == FALSE

(* No request has come: the caller is gone, or two minutes have passed and *)
(* it is told so.                                                          *)
Silent(s) ==
  /\ task[s] # None /\ work[s] = None
  /\ request[task[s]] = None
  /\ \/ UNCHANGED response
     \/ /\ ~ Deserted(task[s])
        /\ response' = [response EXCEPT ![task[s]] = <<"refusal", task[s]>>]
  /\ LetGo(s)
  /\ UNCHANGED <<callerVars, request, held, queue, handled, up, activated, crashes>>

(* The answer, or send_error, if somebody is still there to read it.       *)
Reply(s) ==
  /\ work[s] # None
  /\ IF Deserted(task[s])
     THEN UNCHANGED response
     ELSE \E kind \in {"result", "refusal"} :
            response' = [response EXCEPT ![task[s]] = <<kind, work[s]>>]
  /\ LetGo(s)
  /\ UNCHANGED <<callerVars, request, held, queue, handled, up, activated, crashes>>

(* The signer dies, whatever it was doing; its descriptors are closed.     *)
(* What was not accepted yet waits on in systemd's socket, or is reset     *)
(* with the signer's own.                                                  *)
Crash ==
  /\ up
  /\ crashes < MaxCrashes
  /\ up' = FALSE
  /\ crashes' = crashes + 1
  /\ place' = [c \in Requests |->
                IF \/ place[c] \in {"held", "queued", "served"}
                   \/ place[c] = "backlog" /\ ~ activated
                THEN "shut" ELSE place[c]]
  /\ held' = None
  /\ queue' = <<>>
  /\ task' = [s \in Servers |-> None]
  /\ work' = [s \in Servers |-> None]
  /\ UNCHANGED <<callerVars, request, response, handled, activated>>

(* Restart=on-failure.                                                     *)
Restart ==
  /\ ~ up
  /\ up' = TRUE
  /\ UNCHANGED <<callerVars, wireVars, signerVars, activated, crashes>>

-----------------------------------------------------------------------------
CallStep(w) ==
  \/ Connect(w) \/ ConnectFails(w) \/ ReconnectFails(w)
  \/ Send(w) \/ Broken(w) \/ Receive(w) \/ GiveUp(w)

Serve(s) == Pop(s) \/ Work(s) \/ Silent(s) \/ Reply(s)

AcceptStep == (\E c \in Requests : Accept(c)) \/ Push

Next ==
  \/ \E w \in Callers : Begin(w) \/ CallStep(w)
  \/ AcceptStep
  \/ \E s \in Servers : Serve(s)
  \/ Die \/ Crash \/ Restart

Spec == Init /\ [][Next]_vars

(* The scanner's side is bounded by its own timeouts, so this is all that  *)
(* the promise to the caller rests on.                                     *)
FairSpec == Spec /\ \A w \in Callers : WF_vars(CallStep(w))

(* The signer's threads keep going and systemd starts it again.            *)
SignerRuns ==
  /\ WF_vars(AcceptStep)
  /\ \A s \in Servers : WF_vars(Serve(s))
  /\ WF_vars(Restart)

-----------------------------------------------------------------------------
(* Properties.                                                             *)

TypeOK ==
  /\ calls \in [Callers -> 0 .. MaxCalls]
  /\ pc \in [Callers -> {"idle", "connecting", "reconnecting", "sending", "receiving"}]
  /\ sock \in [Callers -> Requests \cup {None}]
  /\ outcome \in [Callers -> {Waiting, Failure} \cup ({"result", "refusal"} \X Requests)]
  /\ place \in [Requests -> {"none", "backlog", "held", "queued", "served", "shut"}]
  /\ request \in [Requests -> Requests \cup {None}]
  /\ response \in [Requests -> ({"result", "refusal"} \X Requests) \cup {None}]
  /\ held \in Requests \cup {None}
  /\ queue \in Seq(Requests) /\ Len(queue) <= Capacity
  /\ task \in [Servers -> Requests \cup {None}]
  /\ work \in [Servers -> Requests \cup {None}]
  /\ handled \in [Requests -> Nat]
  /\ up \in BOOLEAN /\ activated \in BOOLEAN
  /\ crashes \in 0 .. MaxCrashes

(* Whatever the signer does, and whenever it dies, a call ends with the    *)
(* answer to its own request or with a failure, never with an answer that  *)
(* came too late for another, and no request is worked on twice.  Nothing  *)
(* is assumed of the signer for this.                                      *)
Promise == INSTANCE SignerCall
CallSpec == Promise!FairSpec

(* While the signer runs it lets go of every connection it has accepted,   *)
(* also of those whose caller has given up or died.                        *)
Released ==
  SignerRuns =>
    \A c \in Requests :
      place[c] \in {"held", "queued", "served"} ~> place[c] = "shut"
=============================================================================
