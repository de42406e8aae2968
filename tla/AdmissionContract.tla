------------------------- MODULE AdmissionContract -------------------------
(***************************************************************************)
(* What admission control promises, with every decision taken atomically:  *)
(* a scan runs only while the memory reserved by all running scans fits    *)
(* the budget and its submitter runs at most Cap scans.  The daemon gets   *)
(* there with an unguarded fetch-and-add followed by a correction and with *)
(* a table of submitters under a mutex (module Admission).                 *)
(***************************************************************************)
EXTENDS Weights

CONSTANTS Workers, Users, NoUser, Budget, MaxReserve, Cap

VARIABLES
  userOf,     \* the submitter of the scan a worker is running, or NoUser
  bytesOf     \* the memory that scan has reserved

vars == <<userOf, bytesOf>>

Running(u) == {w \in Workers : userOf[w] = u}

Init ==
  /\ userOf = [w \in Workers |-> NoUser]
  /\ bytesOf = [w \in Workers |-> 0]

Admit(w, u, b) ==
  /\ userOf[w] = NoUser
  /\ Weight(Workers, bytesOf) + b <= Budget
  /\ Cardinality(Running(u)) < Cap
  /\ userOf' = [userOf EXCEPT ![w] = u]
  /\ bytesOf' = [bytesOf EXCEPT ![w] = b]

Finish(w) ==
  /\ userOf[w] # NoUser
  /\ userOf' = [userOf EXCEPT ![w] = NoUser]
  /\ bytesOf' = [bytesOf EXCEPT ![w] = 0]

(* The process dies; the service manager starts it again with nothing      *)
(* running.                                                                *)
Restart ==
  /\ userOf' = [w \in Workers |-> NoUser]
  /\ bytesOf' = [w \in Workers |-> 0]

Next ==
  \/ \E w \in Workers, u \in Users, b \in 0 .. MaxReserve : Admit(w, u, b)
  \/ \E w \in Workers : Finish(w)
  \/ Restart

Spec == Init /\ [][Next]_vars
=============================================================================
