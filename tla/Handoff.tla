------------------------------ MODULE Handoff ------------------------------
(***************************************************************************)
(* What the hand-off of connections from the accept loop to the workers    *)
(* promises: connections are served in the order they were accepted, each  *)
(* by one worker and once, nothing enters once the hand-off is closed, and *)
(* what did enter is served while there is a free worker.  The program     *)
(* gets there with a ring buffer, a mutex and two condition variables      *)
(* (module WorkQueue); the scanner has two of them (module Daemon).        *)
(***************************************************************************)
EXTENDS Integers, Sequences

CONSTANTS Workers, Conns, NoConn, Capacity

VARIABLES
  queue,     \* the connections accepted and not yet taken, oldest first
  serving,   \* the connection each worker serves, or NoConn
  done,      \* the connections that are closed
  open       \* connections are still accepted

vars == <<queue, serving, done, open>>

Init ==
  /\ queue = <<>>
  /\ serving = [w \in Workers |-> NoConn]
  /\ done = {}
  /\ open = TRUE

Fresh(c) ==
  /\ c \notin done
  /\ \A i \in 1 .. Len(queue) : queue[i] # c
  /\ \A w \in Workers : serving[w] # c

Enqueue(c) ==
  /\ open
  /\ Fresh(c)
  /\ Len(queue) < Capacity
  /\ queue' = Append(queue, c)
  /\ UNCHANGED <<serving, done, open>>

(* A connection that did not come this way is closed: busy, refused, or    *)
(* answered elsewhere.  It does not come this way later.                   *)
TurnAway(c) ==
  /\ Fresh(c)
  /\ done' = done \cup {c}
  /\ UNCHANGED <<queue, serving, open>>

Dequeue(w) ==
  /\ queue # <<>>
  /\ serving[w] = NoConn
  /\ serving' = [serving EXCEPT ![w] = Head(queue)]
  /\ queue' = Tail(queue)
  /\ UNCHANGED <<done, open>>

Finish(w) ==
  /\ serving[w] # NoConn
  /\ serving' = [serving EXCEPT ![w] = NoConn]
  /\ done' = done \cup {serving[w]}
  /\ UNCHANGED <<queue, open>>

Close ==
  /\ open' = FALSE
  /\ UNCHANGED <<queue, serving, done>>

Next ==
  \/ \E c \in Conns : Enqueue(c) \/ TurnAway(c)
  \/ \E w \in Workers : Dequeue(w) \/ Finish(w)
  \/ Close

Spec == Init /\ [][Next]_vars

(* A free worker takes what waits; who serves a connection finishes it.    *)
Fairness ==
  /\ WF_vars(\E w \in Workers : Dequeue(w))
  /\ \A w \in Workers : WF_vars(Finish(w))

FairSpec == Spec /\ Fairness
=============================================================================
