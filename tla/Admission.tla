----------------------------- MODULE Admission -----------------------------
(***************************************************************************)
(* Admission control of the scanner daemon (admission.c, as handle_scan    *)
(* in main.c calls it): the memory budget kept in one atomic counter and   *)
(* the table of submitters kept under one mutex, used by a pool of worker  *)
(* threads.  A step is one atomic operation on the shared state: one       *)
(* critical section of the table, or one fetch-and-add or fetch-and-sub.   *)
(***************************************************************************)
EXTENDS Weights

CONSTANTS
  Workers,      \* the worker threads
  Users,        \* submitter ids a request can carry, all different from 0
  NoUser,       \* user id 0: a free slot
  Budget,       \* TEE_SCAN_MEM_BUDGET_BYTES
  MaxReserve,   \* TEE_SCAN_MEM_RESERVE_MULT * TEE_MAX_PLAINTEXT_SIZE
  Cap,          \* TEE_MAX_INFLIGHT_SCANS_PER_USER
  TableSize     \* TEE_SUBMITTER_TABLE_SIZE

ASSUME UsersAssumption == NoUser \notin Users

(* The static assertion of admission.h: one worst-case scan fits.          *)
ASSUME BudgetAssumption ==
  /\ Budget \in Nat
  /\ MaxReserve \in Nat
  /\ MaxReserve <= Budget

(* "the submitter table holds every worker's submitter"                    *)
ASSUME TableAssumption ==
  /\ IsFiniteSet(Workers)
  /\ Cap \in Nat \ {0}
  /\ TableSize \in Nat
  /\ Cardinality(Workers) <= TableSize

VARIABLES
  inflightBytes,   \* g_inflight_bytes
  slots,           \* g_submitters.slots
  phase,           \* where each worker is between its admission calls
  user,            \* the submitter of the worker's request
  bytes            \* reserve_bytes of the worker's request

vars == <<inflightBytes, slots, phase, user, bytes>>

Slots == 1 .. TableSize

FreeSlot == [user |-> NoUser, count |-> 0]

Phases ==
  { "idle",       \* no request
    "refused",    \* no slot for the submitter: the busy reply is due
    "slotted",    \* holds a submitter slot, nothing reserved
    "over",       \* added its reservation and saw the budget exceeded
    "admitted",   \* holds a slot and a reservation: the scan runs
    "leaving" }   \* nothing reserved any more, the slot still held

HoldsSlot(w) == phase[w] \in {"slotted", "over", "admitted", "leaving"}

Charged(w) == phase[w] \in {"over", "admitted"}

Init ==
  /\ inflightBytes = 0
  /\ slots = [i \in Slots |-> FreeSlot]
  /\ phase = [w \in Workers |-> "idle"]
  /\ user = [w \in Workers |-> NoUser]
  /\ bytes = [w \in Workers |-> 0]

-----------------------------------------------------------------------------
(* The submitter table.                                                    *)

SlotsOf(u) == {i \in Slots : slots[i].user = u}

FirstOf(S) == CHOOSE i \in S : \A j \in S : i <= j

(* Mutant: a free slot is preferred to the submitter's own.                *)
Candidates_FreeFirst(u) == IF SlotsOf(NoUser) # {} THEN SlotsOf(NoUser) ELSE SlotsOf(u)

(* The slot tee_submitter_acquire would count u in: its own, else the first *)
(* free one.                                                               *)
Candidates(u) == IF SlotsOf(u) # {} THEN SlotsOf(u) ELSE SlotsOf(NoUser)

(* Mutant: the cap is one too high.                                        *)
CanAcquire_OneMore(u) ==
  /\ Candidates(u) # {}
  /\ slots[FirstOf(Candidates(u))].count <= Cap

(* A slot exists and is below the cap (a free slot has count 0).           *)
CanAcquire(u) ==
  /\ Candidates(u) # {}
  /\ slots[FirstOf(Candidates(u))].count < Cap

Acquire(w, u, b) ==
  /\ phase[w] = "idle"
  /\ CanAcquire(u)
  /\ slots' = [slots EXCEPT ![FirstOf(Candidates(u))] =
                 [user |-> u, count |-> @.count + 1]]
  /\ phase' = [phase EXCEPT ![w] = "slotted"]
  /\ user' = [user EXCEPT ![w] = u]
  /\ bytes' = [bytes EXCEPT ![w] = b]
  /\ UNCHANGED inflightBytes

RefuseUser(w, u) ==
  /\ phase[w] = "idle"
  /\ ~ CanAcquire(u)
  /\ phase' = [phase EXCEPT ![w] = "refused"]
  /\ user' = [user EXCEPT ![w] = u]
  /\ UNCHANGED <<inflightBytes, slots, bytes>>

(* send_user_busy, and the worker is done with the request.                *)
ReplyUserBusy(w) ==
  /\ phase[w] = "refused"
  /\ phase' = [phase EXCEPT ![w] = "idle"]
  /\ user' = [user EXCEPT ![w] = NoUser]
  /\ UNCHANGED <<inflightBytes, slots, bytes>>

(* Mutant: an emptied slot keeps its submitter.                            *)
Decremented_NotFreed(s) ==
  IF s.count > 0 THEN [user |-> s.user, count |-> s.count - 1] ELSE FreeSlot

(* A decrement that empties the slot frees it; no slot, no effect.         *)
Decremented(s) ==
  IF s.count > 1 THEN [user |-> s.user, count |-> s.count - 1] ELSE FreeSlot

ReleaseSlot(w) ==
  /\ phase[w] = "leaving"
  /\ slots' = IF SlotsOf(user[w]) = {} THEN slots
              ELSE [slots EXCEPT ![FirstOf(SlotsOf(user[w]))] = Decremented(@)]
  /\ phase' = [phase EXCEPT ![w] = "idle"]
  /\ user' = [user EXCEPT ![w] = NoUser]
  /\ bytes' = [bytes EXCEPT ![w] = 0]
  /\ UNCHANGED inflightBytes

-----------------------------------------------------------------------------
(* The memory budget.                                                      *)

(* The scan fails before it reserves (the key could not be unsealed).      *)
FailUnreserved(w) ==
  /\ phase[w] = "slotted"
  /\ phase' = [phase EXCEPT ![w] = "leaving"]
  /\ UNCHANGED <<inflightBytes, slots, user, bytes>>

(* Mutant: the comparison is with the value before the addition.           *)
Reserve_Before(w) ==
  /\ phase[w] = "slotted"
  /\ inflightBytes' = inflightBytes + bytes[w]
  /\ phase' = [phase EXCEPT ![w] =
                 IF inflightBytes > Budget THEN "over" ELSE "admitted"]
  /\ UNCHANGED <<slots, user, bytes>>

(* atomic_fetch_add, and the comparison of the value it produced.          *)
Reserve(w) ==
  /\ phase[w] = "slotted"
  /\ inflightBytes' = inflightBytes + bytes[w]
  /\ phase' = [phase EXCEPT ![w] =
                 IF inflightBytes' > Budget THEN "over" ELSE "admitted"]
  /\ UNCHANGED <<slots, user, bytes>>

(* Mutant: a failed reservation stays in the counter.                      *)
UndoReserve_Missing(w) ==
  /\ phase[w] = "over"
  /\ phase' = [phase EXCEPT ![w] = "leaving"]
  /\ UNCHANGED <<inflightBytes, slots, user, bytes>>

(* The atomic_fetch_sub that takes a failed reservation back.              *)
UndoReserve(w) ==
  /\ phase[w] = "over"
  /\ inflightBytes' = inflightBytes - bytes[w]
  /\ phase' = [phase EXCEPT ![w] = "leaving"]
  /\ UNCHANGED <<slots, user, bytes>>

(* tee_admission_release at the end of a scan, failed or not.              *)
ReleaseBytes(w) ==
  /\ phase[w] = "admitted"
  /\ inflightBytes' = inflightBytes - bytes[w]
  /\ phase' = [phase EXCEPT ![w] = "leaving"]
  /\ UNCHANGED <<slots, user, bytes>>

(* The process dies and is started again: everything here is memory.       *)
Restart ==
  /\ inflightBytes' = 0
  /\ slots' = [i \in Slots |-> FreeSlot]
  /\ phase' = [w \in Workers |-> "idle"]
  /\ user' = [w \in Workers |-> NoUser]
  /\ bytes' = [w \in Workers |-> 0]

Step(w) ==
  \/ \E u \in Users, b \in 0 .. MaxReserve : Acquire(w, u, b)
  \/ \E u \in Users : RefuseUser(w, u)
  \/ ReplyUserBusy(w)
  \/ FailUnreserved(w)
  \/ Reserve(w)
  \/ UndoReserve(w)
  \/ ReleaseBytes(w)
  \/ ReleaseSlot(w)

Next == Restart \/ \E w \in Workers : Step(w)

Spec == Init /\ [][Next]_vars

-----------------------------------------------------------------------------
(* Properties.                                                             *)

TypeOK ==
  /\ inflightBytes \in Int
  /\ slots \in [Slots -> [user : Users \cup {NoUser}, count : 0 .. Cap]]
  /\ phase \in [Workers -> Phases]
  /\ user \in [Workers -> Users \cup {NoUser}]
  /\ bytes \in [Workers -> 0 .. MaxReserve]

AdmittedBytes ==
  [w \in Workers |-> IF phase[w] = "admitted" THEN bytes[w] ELSE 0]

ChargedBytes == [w \in Workers |-> IF Charged(w) THEN bytes[w] ELSE 0]

HoldersOf(u) == {w \in Workers : HoldsSlot(w) /\ user[w] = u}

(* The scans that run never reserve more than the budget between them,     *)
(* though each adds to the counter before it knows whether it fits         *)
(* (tee_admission_reserve).                                                *)
BudgetHeld == Weight(Workers, AdmittedBytes) <= Budget

(* The counter is exactly what running scans and failed reservations not   *)
(* yet taken back have added: no exit path of a scan leaks or returns      *)
(* twice.                                                                  *)
CounterExact == inflightBytes = Weight(Workers, ChargedBytes)

(* A submitter has one slot when scans of it are in flight and none        *)
(* otherwise, and the slot counts exactly those scans                      *)
(* (tee_submitter_acquire and tee_submitter_release).                      *)
TableExact ==
  /\ \A i \in SlotsOf(NoUser) : slots[i].count = 0
  /\ \A u \in Users :
       /\ SlotsOf(u) # {} <=> HoldersOf(u) # {}
       /\ \A i \in SlotsOf(u) : slots[i].count = Cardinality(HoldersOf(u))
       /\ \A i, j \in SlotsOf(u) : i = j

(* No submitter has more than Cap scans in flight, however its requests    *)
(* and their endings interleave over the workers.                          *)
CapHeld == \A u \in Users : Cardinality(HoldersOf(u)) <= Cap

(* A submitter is turned away only while it has Cap scans of its own in    *)
(* flight: slots are freed when they empty and the table outnumbers the    *)
(* workers, so it is never full.                                           *)
RefusedOnlyAtCap ==
  [][\A w \in Workers, u \in Users :
       RefuseUser(w, u) => Cardinality(HoldersOf(u)) = Cap]_vars

(* "memory budget must admit one worst-case scan on an idle daemon": a     *)
(* scan is shed for memory only if another scan's bytes are in the counter.*)
IdleAdmits ==
  [][\A w \in Workers :
       phase[w] = "slotted" /\ phase'[w] = "over"
         => \E x \in Workers \ {w} : Charged(x) /\ bytes[x] > 0]_vars

(* The contract: the scans that run, seen as admitted at the step that     *)
(* added their bytes and finished at the step that took them back.         *)
Contract ==
  INSTANCE AdmissionContract
    WITH userOf <- [w \in Workers |->
                      IF phase[w] = "admitted" THEN user[w] ELSE NoUser],
         bytesOf <- AdmittedBytes

ContractSpec == Contract!Spec
=============================================================================
