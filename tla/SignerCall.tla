----------------------------- MODULE SignerCall -----------------------------
(***************************************************************************)
(* What a request to the signer promises the thread that makes it: it ends *)
(* in the signer's answer to this very request, in a refusal, or in a      *)
(* failure, and the signer works on it at most once, perhaps after the     *)
(* caller has given up.                                                    *)
(* The scanner gets there with a socket for every request, a second        *)
(* connect, and timeouts on both sides (module SignerLink).                *)
(***************************************************************************)
EXTENDS Integers

CONSTANTS Callers, MaxCalls

VARIABLES
  calls,     \* how many requests each caller has begun
  outcome,   \* what the last one has come to
  handled    \* how often the signer has worked on each request

vars == <<calls, outcome, handled>>

Requests == Callers \X (1 .. MaxCalls)

Own(w) == <<w, calls[w]>>

Waiting == <<"waiting", "nothing">>
Failure == <<"failure", "nothing">>

Init ==
  /\ calls = [w \in Callers |-> 0]
  /\ outcome = [w \in Callers |-> Failure]
  /\ handled = [r \in Requests |-> 0]

Ask(w) ==
  /\ outcome[w] # Waiting
  /\ calls[w] < MaxCalls
  /\ calls' = [calls EXCEPT ![w] = @ + 1]
  /\ outcome' = [outcome EXCEPT ![w] = Waiting]
  /\ UNCHANGED handled

Handle(r) ==
  /\ r[2] <= calls[r[1]]
  /\ handled[r] = 0
  /\ handled' = [handled EXCEPT ![r] = 1]
  /\ UNCHANGED <<calls, outcome>>

Answer(w) ==
  /\ outcome[w] = Waiting
  /\ \E kind \in {"result", "refusal"} :
       /\ kind = "result" => handled[Own(w)] = 1
       /\ outcome' = [outcome EXCEPT ![w] = <<kind, Own(w)>>]
  /\ UNCHANGED <<calls, handled>>

(* One gives up, or all who wait go down together.                         *)
Fail(W) ==
  /\ \E w \in W : outcome[w] = Waiting
  /\ outcome' = [w \in Callers |-> IF w \in W /\ outcome[w] = Waiting
                                  THEN Failure ELSE outcome[w]]
  /\ UNCHANGED <<calls, handled>>

Next ==
  \/ \E w \in Callers : Ask(w) \/ Answer(w)
  \/ \E W \in SUBSET Callers : Fail(W)
  \/ \E r \in Requests : Handle(r)

Spec == Init /\ [][Next]_vars

(* Every request comes to an end.                                          *)
FairSpec == Spec /\ \A w \in Callers : WF_vars(Answer(w) \/ Fail({w}))
=============================================================================
