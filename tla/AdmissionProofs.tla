-------------------------- MODULE AdmissionProofs --------------------------
(***************************************************************************)
(* Admission control, proved for every number of workers, submitters and   *)
(* table slots, every cap and every budget that satisfy the assumptions of *)
(* module Admission.                                                       *)
(***************************************************************************)
EXTENDS Admission, FiniteSetTheorems, TLAPS

-----------------------------------------------------------------------------
(* What the sums of module Weights obey: they are natural numbers, they    *)
(* grow with the function, and changing the function at one point changes  *)
(* the sum by the difference at that point.                                *)

(* The units one element contributes.                                      *)
Column(x, k) == {x} \X (1 .. k)

(* An element of weight k contributes k units.                             *)
LEMMA ColumnSize ==
  ASSUME NEW x, NEW k \in Nat
  PROVE  IsFiniteSet(Column(x, k)) /\ Cardinality(Column(x, k)) = k
<1>1. IsFiniteSet({x}) /\ Cardinality({x}) = 1
  BY FS_Singleton
<1>2. IsFiniteSet(1 .. k) /\ Cardinality(1 .. k) = k
  BY FS_Interval
<1>3. /\ IsFiniteSet({x} \X (1 .. k))
      /\ Cardinality({x} \X (1 .. k)) = Cardinality({x}) * Cardinality(1 .. k)
  BY <1>1, <1>2, FS_Product, Zenon
<1>4. QED
  BY <1>1, <1>2, <1>3 DEF Column

(* A finite set with bounded weights has finitely many units.              *)
LEMMA UnitsFinite ==
  ASSUME NEW S, IsFiniteSet(S), NEW m \in Nat, NEW f \in [S -> 0 .. m]
  PROVE  IsFiniteSet(Units(S, f))
<1>0. IsFiniteSet(1 .. m)
  BY FS_Interval
<1>1. IsFiniteSet(S \X (1 .. m))
  BY <1>0, FS_Product, Zenon
<1>2. Units(S, f) \subseteq S \X (1 .. m)
  BY DEF Units
<1>3. QED
  BY <1>1, <1>2, FS_Subset

(* A sum is a natural number.                                              *)
LEMMA WeightType ==
  ASSUME NEW S, IsFiniteSet(S), NEW m \in Nat, NEW f \in [S -> 0 .. m]
  PROVE  Weight(S, f) \in Nat
BY UnitsFinite, FS_CardinalityType DEF Weight

(* A sum of zeros is zero.                                                 *)
LEMMA WeightZero ==
  ASSUME NEW S, NEW f, \A x \in S : f[x] = 0
  PROVE  Weight(S, f) = 0
<1>1. Units(S, f) = {}
  BY DEF Units
<1>2. QED
  BY <1>1, FS_EmptySet DEF Weight

(* A pointwise smaller function has a smaller sum.                         *)
LEMMA WeightMonotone ==
  ASSUME NEW S, IsFiniteSet(S), NEW m \in Nat,
         NEW f \in [S -> 0 .. m], NEW g \in [S -> 0 .. m],
         \A x \in S : f[x] <= g[x]
  PROVE  Weight(S, f) <= Weight(S, g)
<1>1. Units(S, f) \subseteq Units(S, g)
  BY DEF Units
<1>2. IsFiniteSet(Units(S, g))
  BY UnitsFinite
<1>3. QED
  BY <1>1, <1>2, FS_Subset DEF Weight

(* Changing the weight of one element changes the sum by the difference.   *)
LEMMA WeightUpdate ==
  ASSUME NEW S, IsFiniteSet(S), NEW m \in Nat,
         NEW f \in [S -> 0 .. m], NEW g \in [S -> 0 .. m],
         NEW x \in S, \A y \in S \ {x} : g[y] = f[y]
  PROVE  Weight(S, g) = Weight(S, f) - f[x] + g[x]
<1> DEFINE Rest == UNION { {y} \X (1 .. f[y]) : y \in S \ {x} }
<1>1. Units(S, f) = Rest \cup Column(x, f[x])
  BY DEF Units, Column
<1>2. Units(S, g) = Rest \cup Column(x, g[x])
  BY DEF Units, Column
<1>3. \A k : Rest \cap Column(x, k) = {}
  BY DEF Column
<1>4. IsFiniteSet(Rest)
  BY <1>1, UnitsFinite, FS_Subset
<1> HIDE DEF Rest
<1>5. ASSUME NEW k \in Nat
      PROVE  Cardinality(Rest \cup Column(x, k)) = Cardinality(Rest) + k
  <2>1. Cardinality(Rest) \in Nat
    BY <1>4, FS_CardinalityType
  <2>2. IsFiniteSet(Column(x, k)) /\ Cardinality(Column(x, k)) = k
    BY ColumnSize
  <2>3. Cardinality(Rest \cup Column(x, k))
          = Cardinality(Rest) + Cardinality(Column(x, k))
              - Cardinality(Rest \cap Column(x, k))
    BY <1>4, <2>2, FS_Union
  <2>4. Cardinality(Rest \cap Column(x, k)) = 0
    BY <1>3, FS_EmptySet
  <2>5. QED
    BY <2>1, <2>2, <2>3, <2>4
<1>6. f[x] \in Nat /\ g[x] \in Nat
  OBVIOUS
<1>7. Cardinality(Rest) \in Nat
  BY <1>4, FS_CardinalityType
<1>8. QED
  BY <1>1, <1>2, <1>5, <1>6, <1>7 DEF Weight

(* Where only one element has a weight, that weight is the sum.            *)
LEMMA WeightSingle ==
  ASSUME NEW S, IsFiniteSet(S), NEW m \in Nat,
         NEW f \in [S -> 0 .. m],
         NEW x \in S, \A y \in S \ {x} : f[y] = 0
  PROVE  Weight(S, f) = f[x]
<1> DEFINE zero == [y \in S |-> 0]
<1>1. zero \in [S -> 0 .. m]
  OBVIOUS
<1>2. Weight(S, zero) = 0
  BY WeightZero
<1>3. Weight(S, f) = Weight(S, zero) - zero[x] + f[x]
  BY <1>1, WeightUpdate
<1>4. QED
  BY <1>2, <1>3

-----------------------------------------------------------------------------
USE UsersAssumption, BudgetAssumption, TableAssumption

-----------------------------------------------------------------------------
(* The inductive invariant.                                                *)

(* Which phases carry a submitter.                                         *)
PhaseOK ==
  \A w \in Workers :
    user[w] = NoUser <=> phase[w] = "idle"

IInv == TypeOK /\ PhaseOK /\ CounterExact /\ BudgetHeld /\ TableExact

(* A step of one worker leaves the records of the others alone.            *)
OthersUnchanged(w) ==
  \A x \in Workers \ {w} :
    phase'[x] = phase[x] /\ user'[x] = user[x] /\ bytes'[x] = bytes[x]

LEMMA StepOthers ==
  ASSUME NEW w \in Workers, TypeOK, Step(w)
  PROVE  OthersUnchanged(w)
BY DEF Step, TypeOK, OthersUnchanged, Acquire, RefuseUser, ReplyUserBusy,
       FailUnreserved, Reserve, UndoReserve, ReleaseBytes, ReleaseSlot

-----------------------------------------------------------------------------
(* The first of a set of slots is one of them.                             *)
LEMMA FirstOfIn ==
  ASSUME NEW S \in SUBSET Slots, S # {}
  PROVE  FirstOf(S) \in S
<1>1. IsWellFoundedOn(OpToRel(<, Nat), Nat)
  BY NatLessThanWellFounded
<1>2. S \subseteq Nat
  BY DEF Slots
<1>3. PICK i \in S : \A j \in S : ~ (<<j, i>> \in OpToRel(<, Nat))
  BY <1>1, <1>2, WFMin, Zenon
<1>4. \A j \in S : ~ (j < i)
  BY <1>2, <1>3, Zenon DEF OpToRel
<1>5. \A j \in S : i <= j
  BY <1>2, <1>4
<1>6. QED
  BY <1>5 DEF FirstOf

-----------------------------------------------------------------------------
(* The sums of the two readings of the counter.                            *)

LEMMA ChargedType ==
  ASSUME TypeOK
  PROVE  /\ ChargedBytes \in [Workers -> 0 .. MaxReserve]
         /\ AdmittedBytes \in [Workers -> 0 .. MaxReserve]
BY DEF TypeOK, ChargedBytes, AdmittedBytes

LEMMA AdmittedLeqCharged ==
  ASSUME TypeOK
  PROVE  Weight(Workers, AdmittedBytes) <= Weight(Workers, ChargedBytes)
<1>1. \A w \in Workers : AdmittedBytes[w] <= ChargedBytes[w]
  BY DEF TypeOK, AdmittedBytes, ChargedBytes, Charged
<1>2. QED
  BY <1>1, ChargedType, WeightMonotone

(* A step of w moves the sum by what it does to the bytes w has charged.   *)
LEMMA ChargedStep ==
  ASSUME TypeOK, TypeOK', NEW w \in Workers, OthersUnchanged(w)
  PROVE  Weight(Workers, ChargedBytes')
           = Weight(Workers, ChargedBytes) - ChargedBytes[w] + ChargedBytes'[w]
<1>1. /\ ChargedBytes \in [Workers -> 0 .. MaxReserve]
      /\ ChargedBytes' \in [Workers -> 0 .. MaxReserve]
  BY DEF TypeOK, ChargedBytes
<1>2. \A x \in Workers \ {w} : ChargedBytes'[x] = ChargedBytes[x]
  BY DEF OthersUnchanged, ChargedBytes, Charged
<1>3. QED
  BY <1>1, <1>2, WeightUpdate

(* A step after which w does not run more than before does not raise the   *)
(* admitted sum.                                                           *)
LEMMA AdmittedStep ==
  ASSUME TypeOK, TypeOK', NEW w \in Workers, OthersUnchanged(w),
         AdmittedBytes'[w] <= AdmittedBytes[w], BudgetHeld
  PROVE  BudgetHeld'
<1>1. /\ AdmittedBytes \in [Workers -> 0 .. MaxReserve]
      /\ AdmittedBytes' \in [Workers -> 0 .. MaxReserve]
  BY DEF TypeOK, AdmittedBytes
<1>2. \A x \in Workers : AdmittedBytes'[x] <= AdmittedBytes[x]
  <2>1. \A x \in Workers \ {w} : AdmittedBytes'[x] = AdmittedBytes[x]
    BY DEF OthersUnchanged, AdmittedBytes
  <2>2. QED
    BY <1>1, <2>1
<1>3. Weight(Workers, AdmittedBytes') <= Weight(Workers, AdmittedBytes)
  BY <1>1, <1>2, WeightMonotone
<1>4. /\ Weight(Workers, AdmittedBytes) \in Nat
      /\ Weight(Workers, AdmittedBytes') \in Nat
  BY <1>1, WeightType
<1>5. QED
  BY <1>3, <1>4 DEF BudgetHeld

-----------------------------------------------------------------------------
(* Type correctness.                                                       *)

LEMMA InitType == Init => TypeOK
BY DEF Init, TypeOK, Phases, FreeSlot

LEMMA CandidatesIn ==
  ASSUME NEW u, Candidates(u) # {}
  PROVE  FirstOf(Candidates(u)) \in Candidates(u) /\ Candidates(u) \subseteq Slots
BY FirstOfIn DEF Candidates, SlotsOf

LEMMA NextType ==
  ASSUME TypeOK, [Next]_vars
  PROVE  TypeOK'
<1> USE DEF TypeOK, Phases
<1>1. CASE Restart
  BY <1>1 DEF Restart, FreeSlot
<1>2. ASSUME NEW w \in Workers, Step(w)
      PROVE  TypeOK'
  <2>1. ASSUME NEW u \in Users, NEW b \in 0 .. MaxReserve, Acquire(w, u, b)
        PROVE  TypeOK'
    <3>1. FirstOf(Candidates(u)) \in Slots
      BY <2>1, CandidatesIn DEF Acquire, CanAcquire
    <3>2. slots[FirstOf(Candidates(u))].count + 1 \in 0 .. Cap
      BY <2>1, <3>1 DEF Acquire, CanAcquire
    <3>3. slots' \in [Slots -> [user : Users \cup {NoUser}, count : 0 .. Cap]]
      BY <2>1, <3>1, <3>2 DEF Acquire
    <3>4. QED
      BY <2>1, <3>3 DEF Acquire
  <2>2. ASSUME NEW u \in Users, RefuseUser(w, u)
        PROVE  TypeOK'
    BY <2>2 DEF RefuseUser
  <2>3. CASE ReplyUserBusy(w)
    BY <2>3 DEF ReplyUserBusy
  <2>4. CASE FailUnreserved(w)
    BY <2>4 DEF FailUnreserved
  <2>5. CASE Reserve(w)
    BY <2>5 DEF Reserve
  <2>6. CASE UndoReserve(w)
    BY <2>6 DEF UndoReserve
  <2>7. CASE ReleaseBytes(w)
    BY <2>7 DEF ReleaseBytes
  <2>8. CASE ReleaseSlot(w)
    <3>1. \A s \in [user : Users \cup {NoUser}, count : 0 .. Cap] :
            Decremented(s) \in [user : Users \cup {NoUser}, count : 0 .. Cap]
      BY DEF Decremented, FreeSlot
    <3>2. slots' \in [Slots -> [user : Users \cup {NoUser}, count : 0 .. Cap]]
      <4>1. CASE SlotsOf(user[w]) = {}
        BY <2>8, <4>1 DEF ReleaseSlot
      <4>2. CASE SlotsOf(user[w]) # {}
        <5>1. SlotsOf(user[w]) \subseteq Slots
          BY DEF SlotsOf
        <5>2. FirstOf(SlotsOf(user[w])) \in Slots
          BY <4>2, <5>1, FirstOfIn
        <5>3. QED
          BY <2>8, <3>1, <4>2, <5>2 DEF ReleaseSlot
      <4>3. QED
        BY <4>1, <4>2
    <3>3. QED
      BY <2>8, <3>2 DEF ReleaseSlot
  <2>9. QED
    BY <1>2, <2>1, <2>2, <2>3, <2>4, <2>5, <2>6, <2>7, <2>8 DEF Step
<1>3. CASE UNCHANGED vars
  BY <1>3 DEF vars
<1>4. QED
  BY <1>1, <1>2, <1>3 DEF Next

(* Type correctness of the admission state.                                *)
THEOREM TypeCorrect == Spec => []TypeOK
<1>1. TypeOK /\ [Next]_vars => TypeOK'
  BY NextType
<1>2. QED
  BY InitType, <1>1, PTL DEF Spec

-----------------------------------------------------------------------------
(* The submitter table.                                                    *)

LEMMA HoldersFinite ==
  ASSUME NEW u
  PROVE  /\ IsFiniteSet(HoldersOf(u))
         /\ Cardinality(HoldersOf(u)) \in Nat
<1>1. HoldersOf(u) \subseteq Workers
  BY DEF HoldersOf
<1>2. QED
  BY <1>1, FS_Subset, FS_CardinalityType

(* A step that leaves the table and the holders alone keeps it exact.      *)
LEMMA TableUnchanged ==
  ASSUME TableExact, slots' = slots,
         \A u \in Users : HoldersOf(u)' = HoldersOf(u)
  PROVE  TableExact'
<1>1. \A u : SlotsOf(u)' = SlotsOf(u)
  BY DEF SlotsOf
<1>2. QED
  BY <1>1 DEF TableExact

LEMMA AcquireTable ==
  ASSUME TypeOK, PhaseOK, TableExact, NEW w \in Workers, NEW u \in Users,
         NEW b \in 0 .. MaxReserve, Acquire(w, u, b)
  PROVE  TableExact'
<1> DEFINE i == FirstOf(Candidates(u))
<1>1. i \in Candidates(u) /\ i \in Slots
  BY CandidatesIn DEF Acquire, CanAcquire
<1>2. /\ phase[w] = "idle"
      /\ slots' = [slots EXCEPT ![i] = [user |-> u, count |-> slots[i].count + 1]]
      /\ phase' = [phase EXCEPT ![w] = "slotted"]
      /\ user' = [user EXCEPT ![w] = u]
  BY DEF Acquire
<1> HIDE DEF i
<1>3. \A x : HoldsSlot(x)' <=> phase'[x] \in {"slotted", "over", "admitted", "leaving"}
  BY DEF HoldsSlot
<1>4. w \notin HoldersOf(u)
  BY <1>2 DEF HoldersOf, HoldsSlot
<1>5. HoldersOf(u)' = HoldersOf(u) \cup {w}
  BY <1>2 DEF HoldersOf, HoldsSlot, TypeOK
<1>6. \A v \in Users \ {u} : HoldersOf(v)' = HoldersOf(v)
  BY <1>2 DEF HoldersOf, HoldsSlot, TypeOK
<1>7. Cardinality(HoldersOf(u)') = Cardinality(HoldersOf(u)) + 1
  BY <1>4, <1>5, HoldersFinite, FS_AddElement
<1>8. \A j \in Slots \ {i} : slots'[j] = slots[j]
  BY <1>2 DEF TypeOK
<1>9. slots'[i] = [user |-> u, count |-> slots[i].count + 1]
  BY <1>1, <1>2 DEF TypeOK
<1>10. SlotsOf(u)' = {i}
  <2>1. CASE SlotsOf(u) # {}
    <3>1. SlotsOf(u) = {i}
      BY <1>1, <2>1 DEF Candidates, TableExact
    <3>2. QED
      BY <1>1, <1>8, <1>9, <3>1 DEF SlotsOf
  <2>2. CASE SlotsOf(u) = {}
    BY <1>1, <1>8, <1>9, <2>2 DEF SlotsOf
  <2>3. QED
    BY <2>1, <2>2
<1>11. /\ \A v \in Users \ {u} : SlotsOf(v)' = SlotsOf(v) /\ i \notin SlotsOf(v)
       /\ SlotsOf(NoUser)' = SlotsOf(NoUser) \ {i}
  <2>1. slots[i].user \in {u, NoUser}
    BY <1>1 DEF Candidates, SlotsOf
  <2>2. QED
    BY <1>1, <1>8, <1>9, <2>1, UsersAssumption DEF SlotsOf
<1>12. slots[i].count = Cardinality(HoldersOf(u))
  <2>1. CASE SlotsOf(u) # {}
    BY <1>1, <2>1 DEF Candidates, TableExact
  <2>2. CASE SlotsOf(u) = {}
    <3>1. slots[i].count = 0
      BY <1>1, <2>2 DEF Candidates, TableExact
    <3>2. HoldersOf(u) = {}
      BY <2>2 DEF TableExact
    <3>3. QED
      BY <3>1, <3>2, FS_EmptySet
  <2>3. QED
    BY <2>1, <2>2
<1>13. slots'[i].count = Cardinality(HoldersOf(u)')
  BY <1>7, <1>9, <1>12
<1>14. \A j \in SlotsOf(NoUser)' : slots'[j].count = 0
  BY <1>8, <1>11 DEF TableExact, SlotsOf
<1>15. ASSUME NEW v \in Users
       PROVE  /\ SlotsOf(v)' # {} <=> HoldersOf(v)' # {}
              /\ \A j \in SlotsOf(v)' : slots'[j].count = Cardinality(HoldersOf(v)')
              /\ \A j, k \in SlotsOf(v)' : j = k
  <2>1. CASE v = u
    BY <1>5, <1>10, <1>13, <2>1
  <2>2. CASE v # u
    <3>1. /\ SlotsOf(v)' = SlotsOf(v)
          /\ HoldersOf(v)' = HoldersOf(v)
      BY <1>6, <1>11, <2>2
    <3>2. \A j \in SlotsOf(v) : slots'[j] = slots[j]
      BY <1>8, <1>11, <2>2 DEF SlotsOf
    <3>3. QED
      BY <3>1, <3>2 DEF TableExact
  <2>3. QED
    BY <2>1, <2>2
<1>16. QED
  BY <1>14, <1>15 DEF TableExact

LEMMA ReleaseTable ==
  ASSUME TypeOK, PhaseOK, TableExact, NEW w \in Workers, ReleaseSlot(w)
  PROVE  TableExact'
<1> DEFINE u == user[w]
           i == FirstOf(SlotsOf(u))
<1>1. u \in Users /\ w \in HoldersOf(u)
  BY DEF ReleaseSlot, PhaseOK, TypeOK, HoldersOf, HoldsSlot
<1>2. SlotsOf(u) # {} /\ SlotsOf(u) \subseteq Slots
  BY <1>1 DEF TableExact, SlotsOf
<1>3. i \in SlotsOf(u) /\ i \in Slots
  BY <1>2, FirstOfIn
<1>4. SlotsOf(u) = {i}
  BY <1>1, <1>3 DEF TableExact
<1>5. /\ phase[w] = "leaving"
      /\ slots' = [slots EXCEPT ![i] = Decremented(slots[i])]
      /\ phase' = [phase EXCEPT ![w] = "idle"]
      /\ user' = [user EXCEPT ![w] = NoUser]
  BY <1>2 DEF ReleaseSlot
<1>6. PICK c \in Users : c = u
  BY <1>1
<1> HIDE DEF u, i
<1>7. HoldersOf(c)' = HoldersOf(c) \ {w}
  BY <1>5 DEF HoldersOf, HoldsSlot, TypeOK
<1>8. \A v \in Users \ {c} : HoldersOf(v)' = HoldersOf(v)
  BY <1>5, <1>6, UsersAssumption DEF HoldersOf, HoldsSlot, TypeOK, u
<1>9. /\ Cardinality(HoldersOf(c)') = Cardinality(HoldersOf(c)) - 1
      /\ Cardinality(HoldersOf(c)') \in Nat
  BY <1>1, <1>6, <1>7, HoldersFinite, FS_RemoveElement, FS_CardinalityType
<1>10. slots[i].user = c /\ slots[i].count = Cardinality(HoldersOf(c))
  BY <1>3, <1>6 DEF TableExact, SlotsOf
<1>11. \A j \in Slots \ {i} : slots'[j] = slots[j]
  BY <1>5 DEF TypeOK
<1>12. slots'[i] = Decremented(slots[i])
  BY <1>3, <1>5 DEF TypeOK
<1>13. ASSUME NEW v \in Users \ {c}
       PROVE  SlotsOf(v)' = SlotsOf(v) /\ i \notin SlotsOf(v)
  <2>1. slots[i].user # v
    BY <1>10
  <2>2. slots'[i].user # v
    BY <1>10, <1>12, UsersAssumption DEF Decremented, FreeSlot
  <2>3. QED
    BY <1>3, <1>11, <2>1, <2>2 DEF SlotsOf
<1>14. ASSUME NEW v \in Users \ {c}
       PROVE  /\ SlotsOf(v)' # {} <=> HoldersOf(v)' # {}
              /\ \A j \in SlotsOf(v)' : slots'[j].count = Cardinality(HoldersOf(v)')
              /\ \A j, k \in SlotsOf(v)' : j = k
  <2>1. \A j \in SlotsOf(v) : slots'[j] = slots[j]
    BY <1>11, <1>13 DEF SlotsOf
  <2>2. QED
    BY <1>8, <1>13, <2>1 DEF TableExact
<1>15. CASE Cardinality(HoldersOf(c)) > 1
  <2>1. slots'[i] = [user |-> c, count |-> Cardinality(HoldersOf(c)) - 1]
    BY <1>10, <1>12, <1>15 DEF Decremented
  <2>2. SlotsOf(c)' = {i}
    BY <1>3, <1>4, <1>6, <1>11, <2>1 DEF SlotsOf
  <2>3. SlotsOf(NoUser)' = SlotsOf(NoUser)
    BY <1>3, <1>10, <1>11, <2>1, UsersAssumption DEF SlotsOf
  <2>4. \A j \in SlotsOf(NoUser)' : slots'[j].count = 0
    BY <1>10, <1>11, <2>3, UsersAssumption DEF TableExact, SlotsOf
  <2>5. HoldersOf(c)' # {}
    BY <1>9, <1>15, HoldersFinite, FS_EmptySet
  <2>6. QED
    BY <1>9, <1>14, <2>1, <2>2, <2>4, <2>5 DEF TableExact
<1>16. CASE Cardinality(HoldersOf(c)) = 1
  <2>1. slots'[i] = [user |-> NoUser, count |-> 0]
    BY <1>10, <1>12, <1>16 DEF Decremented, FreeSlot
  <2>2. SlotsOf(c)' = {}
    BY <1>3, <1>4, <1>6, <1>11, <2>1, UsersAssumption DEF SlotsOf
  <2>3. \A j \in SlotsOf(NoUser)' : slots'[j].count = 0
    BY <1>11, <2>1 DEF TableExact, SlotsOf
  <2>4. IsFiniteSet(HoldersOf(c)')
    BY <1>7, HoldersFinite, FS_RemoveElement
  <2>5. HoldersOf(c)' = {}
    BY <1>9, <1>16, <2>4, FS_EmptySet
  <2>6. QED
    BY <1>14, <2>2, <2>3, <2>5 DEF TableExact
<1>17. Cardinality(HoldersOf(c)) >= 1 /\ Cardinality(HoldersOf(c)) \in Nat
  BY <1>9, HoldersFinite
<1>18. QED
  BY <1>15, <1>16, <1>17

(* Every other step of a worker moves it between phases that hold their    *)
(* slot, or between phases that do not.                                    *)
LEMMA HoldersKept ==
  ASSUME TypeOK, PhaseOK, TableExact, NEW w \in Workers,
         slots' = slots, OthersUnchanged(w),
         HoldsSlot(w)' <=> HoldsSlot(w), HoldsSlot(w) => user'[w] = user[w]
  PROVE  TableExact'
<1>1. \A v \in Users : HoldersOf(v)' = HoldersOf(v)
  BY DEF HoldersOf, HoldsSlot, OthersUnchanged
<1>2. QED
  BY <1>1, TableUnchanged

-----------------------------------------------------------------------------
(* The invariant is inductive.                                             *)

LEMMA InitInv == Init => IInv
<1> SUFFICES ASSUME Init PROVE IInv
  OBVIOUS
<1>1. TypeOK
  BY InitType
<1>2. PhaseOK
  BY DEF Init, PhaseOK
<1>3. Weight(Workers, ChargedBytes) = 0
  <2>1. \A w \in Workers : ChargedBytes[w] = 0
    BY DEF Init, ChargedBytes, Charged
  <2>2. QED
    BY <2>1, WeightZero
<1>4. Weight(Workers, AdmittedBytes) = 0
  <2>1. \A w \in Workers : AdmittedBytes[w] = 0
    BY DEF Init, AdmittedBytes
  <2>2. QED
    BY <2>1, WeightZero
<1>5. TableExact
  <2>1. \A u \in Users : HoldersOf(u) = {} /\ SlotsOf(u) = {}
    BY UsersAssumption DEF Init, HoldersOf, HoldsSlot, SlotsOf, FreeSlot
  <2>2. \A i \in SlotsOf(NoUser) : slots[i].count = 0
    BY DEF Init, SlotsOf, FreeSlot
  <2>3. QED
    BY <2>1, <2>2 DEF TableExact
<1>6. QED
  BY <1>1, <1>2, <1>3, <1>4, <1>5, BudgetAssumption
     DEF IInv, CounterExact, BudgetHeld, Init

(* A restart forgets everything: it is an initial state again.             *)
LEMMA RestartInv == Restart => IInv'
<1> SUFFICES ASSUME Restart PROVE IInv'
  OBVIOUS
<1>1. Init'
  BY DEF Restart, Init
<1>2. Init' => IInv'
  BY InitInv, PTL
<1>3. QED
  BY <1>1, <1>2

LEMMA PhaseStep ==
  ASSUME TypeOK, PhaseOK, NEW w \in Workers, Step(w)
  PROVE  PhaseOK'
<1>1. OthersUnchanged(w)
  BY StepOthers
<1>2. user'[w] = NoUser <=> phase'[w] = "idle"
  BY UsersAssumption
     DEF PhaseOK, TypeOK, Step, Acquire, RefuseUser, ReplyUserBusy,
         FailUnreserved, Reserve, UndoReserve, ReleaseBytes, ReleaseSlot
<1>3. QED
  BY <1>1, <1>2 DEF OthersUnchanged, PhaseOK

LEMMA CounterStep ==
  ASSUME TypeOK, TypeOK', CounterExact, NEW w \in Workers, Step(w)
  PROVE  CounterExact'
<1>1. OthersUnchanged(w)
  BY StepOthers
<1>2. Weight(Workers, ChargedBytes')
        = Weight(Workers, ChargedBytes) - ChargedBytes[w] + ChargedBytes'[w]
  BY <1>1, ChargedStep
<1>3. /\ Weight(Workers, ChargedBytes) \in Nat
      /\ ChargedBytes[w] \in Nat
      /\ ChargedBytes'[w] \in Nat
  BY ChargedType, WeightType DEF TypeOK, ChargedBytes
<1>4. inflightBytes' = inflightBytes - ChargedBytes[w] + ChargedBytes'[w]
  BY DEF TypeOK, ChargedBytes, Charged, Step, Acquire, RefuseUser,
         ReplyUserBusy, FailUnreserved, Reserve, UndoReserve, ReleaseBytes,
         ReleaseSlot
<1>5. QED
  BY <1>2, <1>3, <1>4 DEF CounterExact

LEMMA BudgetStep ==
  ASSUME TypeOK, TypeOK', CounterExact', BudgetHeld, NEW w \in Workers, Step(w)
  PROVE  BudgetHeld'
<1>1. OthersUnchanged(w)
  BY StepOthers
<1>2. CASE Reserve(w) /\ inflightBytes' <= Budget
  <2>1. Weight(Workers, AdmittedBytes') <= Weight(Workers, ChargedBytes')
    <3>1. /\ AdmittedBytes' \in [Workers -> 0 .. MaxReserve]
          /\ ChargedBytes' \in [Workers -> 0 .. MaxReserve]
      BY DEF TypeOK, AdmittedBytes, ChargedBytes
    <3>2. \A x \in Workers : AdmittedBytes'[x] <= ChargedBytes'[x]
      BY DEF TypeOK, AdmittedBytes, ChargedBytes, Charged
    <3>3. QED
      BY <3>1, <3>2, WeightMonotone
  <2>2. /\ Weight(Workers, AdmittedBytes') \in Nat
        /\ Weight(Workers, ChargedBytes') \in Nat
    <3>1. /\ AdmittedBytes' \in [Workers -> 0 .. MaxReserve]
          /\ ChargedBytes' \in [Workers -> 0 .. MaxReserve]
      BY DEF TypeOK, AdmittedBytes, ChargedBytes
    <3>2. QED
      BY <3>1, WeightType
  <2>3. QED
    BY <1>2, <2>1, <2>2 DEF BudgetHeld, CounterExact
<1>3. CASE ~ (Reserve(w) /\ inflightBytes' <= Budget)
  <2>1. AdmittedBytes'[w] <= AdmittedBytes[w]
    BY <1>3 DEF TypeOK, AdmittedBytes, Step, Acquire, RefuseUser,
           ReplyUserBusy, FailUnreserved, Reserve, UndoReserve, ReleaseBytes,
           ReleaseSlot
  <2>2. QED
    BY <1>1, <2>1, AdmittedStep
<1>4. QED
  BY <1>2, <1>3

LEMMA TableStep ==
  ASSUME TypeOK, PhaseOK, TableExact, NEW w \in Workers, Step(w)
  PROVE  TableExact'
<1>1. OthersUnchanged(w)
  BY StepOthers
<1>2. ASSUME NEW u \in Users, NEW b \in 0 .. MaxReserve, Acquire(w, u, b)
      PROVE  TableExact'
  BY <1>2, AcquireTable
<1>3. CASE ReleaseSlot(w)
  BY <1>3, ReleaseTable
<1>4. ASSUME NEW u \in Users, RefuseUser(w, u)
      PROVE  TableExact'
  BY <1>1, <1>4, HoldersKept DEF RefuseUser, HoldsSlot, TypeOK
<1>5. CASE ReplyUserBusy(w)
  BY <1>1, <1>5, HoldersKept DEF ReplyUserBusy, HoldsSlot, TypeOK
<1>6. CASE FailUnreserved(w)
  BY <1>1, <1>6, HoldersKept DEF FailUnreserved, HoldsSlot, TypeOK
<1>7. CASE Reserve(w)
  BY <1>1, <1>7, HoldersKept DEF Reserve, HoldsSlot, TypeOK
<1>8. CASE UndoReserve(w)
  BY <1>1, <1>8, HoldersKept DEF UndoReserve, HoldsSlot, TypeOK
<1>9. CASE ReleaseBytes(w)
  BY <1>1, <1>9, HoldersKept DEF ReleaseBytes, HoldsSlot, TypeOK
<1>10. QED
  BY <1>2, <1>3, <1>4, <1>5, <1>6, <1>7, <1>8, <1>9 DEF Step

LEMMA StutterInv == IInv /\ UNCHANGED vars => IInv'
<1> SUFFICES ASSUME IInv, UNCHANGED vars PROVE IInv'
  OBVIOUS
<1>1. TypeOK' /\ PhaseOK'
  BY DEF IInv, vars, TypeOK, PhaseOK
<1>2. ChargedBytes' = ChargedBytes /\ AdmittedBytes' = AdmittedBytes
  BY DEF vars, ChargedBytes, AdmittedBytes, Charged
<1>3. TableExact'
  <2>1. \A v : HoldersOf(v)' = HoldersOf(v)
    BY DEF vars, HoldersOf, HoldsSlot
  <2>2. QED
    BY <2>1, TableUnchanged DEF IInv, vars
<1>4. QED
  BY <1>1, <1>2, <1>3 DEF IInv, CounterExact, BudgetHeld, vars

LEMMA NextInv == IInv /\ [Next]_vars => IInv'
<1> SUFFICES ASSUME IInv, [Next]_vars PROVE IInv'
  OBVIOUS
<1>1. TypeOK'
  BY NextType DEF IInv
<1>2. ASSUME NEW w \in Workers, Step(w)
      PROVE  IInv'
  <2>1. CounterExact'
    BY <1>1, <1>2, CounterStep DEF IInv
  <2>2. BudgetHeld'
    BY <1>1, <1>2, <2>1, BudgetStep DEF IInv
  <2>3. PhaseOK' /\ TableExact'
    BY <1>2, PhaseStep, TableStep DEF IInv
  <2>4. QED
    BY <1>1, <2>1, <2>2, <2>3 DEF IInv
<1>3. QED
  BY <1>2, RestartInv, StutterInv DEF Next

THEOREM Invariance == Spec => []IInv
BY InitInv, NextInv, PTL DEF Spec

(* The memory reserved by the scans that run never exceeds the budget      *)
(* (tee_admission_reserve, tee_admission_release).                         *)
THEOREM BudgetSafety == Spec => []BudgetHeld
<1>1. IInv => BudgetHeld
  BY DEF IInv
<1>2. QED
  BY Invariance, <1>1, PTL

(* The counter is exactly the bytes of the reservations outstanding.       *)
THEOREM CounterExactness == Spec => []CounterExact
<1>1. IInv => CounterExact
  BY DEF IInv
<1>2. QED
  BY Invariance, <1>1, PTL

(* The submitter table counts exactly the scans in flight, one slot for    *)
(* each submitter that has any.                                            *)
THEOREM TableExactness == Spec => []TableExact
<1>1. IInv => TableExact
  BY DEF IInv
<1>2. QED
  BY Invariance, <1>1, PTL

LEMMA InvCap == IInv => CapHeld
<1> SUFFICES ASSUME IInv, NEW u \in Users
             PROVE  Cardinality(HoldersOf(u)) <= Cap
  BY DEF CapHeld
<1>1. CASE SlotsOf(u) = {}
  <2>1. HoldersOf(u) = {}
    BY <1>1 DEF IInv, TableExact
  <2>2. QED
    BY <2>1, FS_EmptySet, TableAssumption
<1>2. CASE SlotsOf(u) # {}
  <2>1. PICK i \in SlotsOf(u) : slots[i].count = Cardinality(HoldersOf(u))
    BY <1>2 DEF IInv, TableExact
  <2>2. slots[i].count \in 0 .. Cap
    BY DEF IInv, TypeOK, SlotsOf
  <2>3. QED
    BY <2>1, <2>2, TableAssumption
<1>3. QED
  BY <1>1, <1>2

(* No submitter ever has more than Cap scans in flight.                    *)
THEOREM CapSafety == Spec => []CapHeld
BY Invariance, InvCap, PTL

-----------------------------------------------------------------------------
(* A refusal means the submitter is at its cap.                            *)

(* An idle worker leaves a slot free: each slot in use has a holder of its *)
(* own among the other workers, and there are fewer of them than slots.    *)
LEMMA SlotForIdleWorker ==
  ASSUME IInv, NEW w \in Workers, phase[w] = "idle"
  PROVE  SlotsOf(NoUser) # {}
<1> SUFFICES ASSUME SlotsOf(NoUser) = {} PROVE FALSE
  OBVIOUS
<1>1. \A i \in Slots : slots[i].user \in Users /\ i \in SlotsOf(slots[i].user)
  BY DEF IInv, TypeOK, SlotsOf
<1>2. \A i \in Slots : \E x \in Workers \ {w} : HoldsSlot(x) /\ user[x] = slots[i].user
  <2>1. \A i \in Slots : HoldersOf(slots[i].user) # {}
    BY <1>1 DEF IInv, TableExact
  <2>2. ~ HoldsSlot(w)
    BY DEF HoldsSlot
  <2>3. QED
    BY <2>1, <2>2 DEF HoldersOf
<1> DEFINE Holder == [i \in Slots |->
                       CHOOSE x \in Workers \ {w} : user[x] = slots[i].user]
<1>3. \A i \in Slots :
        Holder[i] \in Workers \ {w} /\ user[Holder[i]] = slots[i].user
  BY <1>2
<1> HIDE DEF Holder
<1>4. Holder \in [Slots -> Workers \ {w}]
  BY <1>3 DEF Holder
<1>5. ASSUME NEW i \in Slots, NEW j \in Slots, Holder[i] = Holder[j]
      PROVE  i = j
  <2>1. slots[i].user = slots[j].user
    BY <1>3, <1>5
  <2>2. PICK u \in Users : u = slots[i].user
    BY <1>1
  <2>3. i \in SlotsOf(u) /\ j \in SlotsOf(u)
    BY <2>1, <2>2 DEF SlotsOf
  <2>4. QED
    BY <2>3 DEF IInv, TableExact
<1>6. Holder \in Injection(Slots, Workers \ {w})
  BY <1>4, <1>5 DEF Injection, IsInjective
<1>7. /\ IsFiniteSet(Workers \ {w})
      /\ Cardinality(Workers \ {w}) = Cardinality(Workers) - 1
  BY TableAssumption, FS_RemoveElement
<1>8. Cardinality(Slots) <= Cardinality(Workers \ {w})
  BY <1>6, <1>7, FS_Injection
<1>9. Cardinality(Slots) = TableSize
  BY TableAssumption, FS_Interval DEF Slots
<1>10. Cardinality(Workers) \in Nat
  BY TableAssumption, FS_CardinalityType
<1>11. QED
  BY <1>7, <1>8, <1>9, <1>10, TableAssumption

LEMMA RefusalMeansCap ==
  ASSUME IInv, NEW w \in Workers, NEW u \in Users, RefuseUser(w, u)
  PROVE  Cardinality(HoldersOf(u)) = Cap
<1>1. SlotsOf(NoUser) # {}
  BY SlotForIdleWorker DEF RefuseUser
<1>2. Candidates(u) # {}
  BY <1>1 DEF Candidates
<1> DEFINE i == FirstOf(Candidates(u))
<1>3. i \in Candidates(u) /\ i \in Slots
  BY <1>2, CandidatesIn
<1>4. ~ (slots[i].count < Cap)
  BY <1>2 DEF RefuseUser, CanAcquire
<1>5. slots[i].count \in 0 .. Cap
  BY <1>3 DEF IInv, TypeOK
<1> HIDE DEF i
<1>6. slots[i].count = Cap
  BY <1>4, <1>5, TableAssumption
<1>7. SlotsOf(u) # {}
  <2>1. i \in SlotsOf(NoUser) => slots[i].count = 0
    BY DEF IInv, TableExact
  <2>2. QED
    BY <1>3, <1>6, <2>1, TableAssumption DEF Candidates
<1>8. i \in SlotsOf(u)
  BY <1>3, <1>7 DEF Candidates
<1>9. QED
  BY <1>6, <1>8 DEF IInv, TableExact

(* A submitter is turned away only while Cap scans of its own are in       *)
(* flight: the table never runs out of slots.                              *)
THEOREM RefusalJustified == Spec => RefusedOnlyAtCap
<1>1. IInv /\ [Next]_vars =>
        [\A w \in Workers, u \in Users :
           RefuseUser(w, u) => Cardinality(HoldersOf(u)) = Cap]_vars
  BY RefusalMeansCap
<1>2. QED
  BY Invariance, <1>1, PTL DEF Spec, RefusedOnlyAtCap

-----------------------------------------------------------------------------
(* Memory is refused only because of the bytes of others.                  *)

LEMMA ShedMeansCompany ==
  ASSUME IInv, Next, NEW w \in Workers, phase[w] = "slotted", phase'[w] = "over"
  PROVE  \E x \in Workers \ {w} : Charged(x) /\ bytes[x] > 0
<1> SUFFICES ASSUME \A x \in Workers \ {w} : ~ (Charged(x) /\ bytes[x] > 0)
             PROVE  FALSE
  OBVIOUS
<1>1. Reserve(w)
  <2>1. ~ Restart
    BY DEF Restart
  <2>2. PICK x \in Workers : Step(x)
    BY <2>1 DEF Next
  <2>3. x = w
    BY <2>2, StepOthers DEF IInv, OthersUnchanged
  <2>4. QED
    BY <2>2, <2>3
       DEF IInv, TypeOK, Step, Acquire, RefuseUser, ReplyUserBusy,
           FailUnreserved, Reserve, UndoReserve, ReleaseBytes, ReleaseSlot
<1>2. inflightBytes + bytes[w] > Budget
  BY <1>1 DEF Reserve, IInv, TypeOK
<1>3. \A x \in Workers : ChargedBytes[x] = 0
  BY DEF ChargedBytes, Charged, IInv, TypeOK
<1>4. inflightBytes = 0
  BY <1>3, WeightZero DEF IInv, CounterExact
<1>5. QED
  BY <1>2, <1>4, BudgetAssumption DEF IInv, TypeOK

(* An idle daemon admits a scan of any size: a reservation fails only if   *)
(* the bytes of another scan are in the counter.                           *)
THEOREM IdleAdmission == Spec => IdleAdmits
<1>1. IInv /\ [Next]_vars =>
        [\A w \in Workers :
           phase[w] = "slotted" /\ phase'[w] = "over"
             => \E x \in Workers \ {w} : Charged(x) /\ bytes[x] > 0]_vars
  BY ShedMeansCompany
<1>2. QED
  BY Invariance, <1>1, PTL DEF Spec, IdleAdmits

-----------------------------------------------------------------------------
(* The daemon keeps the contract.                                          *)

RunningUser == [w \in Workers |-> IF phase[w] = "admitted" THEN user[w] ELSE NoUser]

(* The contract's sums and counts are this module's.                       *)
LEMMA SameCounts ==
  /\ \A S : Contract!Cardinality(S) = Cardinality(S)
  /\ \A S, f : Contract!Weight(S, f) = Weight(S, f)
<1>1. \A S : Contract!Cardinality(S) = Cardinality(S)
  BY DEF Contract!Cardinality, Cardinality
<1>2. QED
  BY <1>1 DEF Contract!Weight, Contract!Units, Weight, Units

LEMMA AdmitStep ==
  ASSUME IInv, IInv', NEW w \in Workers, Reserve(w), phase'[w] = "admitted",
         NEW u \in Users, u = user[w], NEW b \in 0 .. MaxReserve, b = bytes[w]
  PROVE  Contract!Admit(w, u, b)
<1>1. OthersUnchanged(w)
  BY StepOthers DEF IInv, Step
<1>2. /\ phase[w] = "slotted"
      /\ inflightBytes' = inflightBytes + bytes[w]
      /\ inflightBytes' <= Budget
      /\ user' = user /\ bytes' = bytes
      /\ phase' = [phase EXCEPT ![w] = "admitted"]
  <2>1. ~ (inflightBytes' > Budget)
    BY DEF Reserve, IInv, TypeOK
  <2>2. inflightBytes' <= Budget
    BY <2>1, BudgetAssumption DEF IInv, TypeOK
  <2>3. QED
    BY <2>1, <2>2 DEF Reserve
<1>3. RunningUser[w] = NoUser
  BY <1>2 DEF RunningUser
<1>4. Weight(Workers, AdmittedBytes) + b <= Budget
  <2>1. Weight(Workers, AdmittedBytes) <= inflightBytes
    BY AdmittedLeqCharged DEF IInv, CounterExact
  <2>2. Weight(Workers, AdmittedBytes) \in Nat
    BY ChargedType, WeightType, BudgetAssumption, TableAssumption DEF IInv
  <2>3. QED
    BY <1>2, <2>1, <2>2, BudgetAssumption DEF IInv, TypeOK
<1>5. Cardinality({x \in Workers : RunningUser[x] = u}) < Cap
  <2> DEFINE R == {x \in Workers : RunningUser[x] = u}
             H == HoldersOf(u)
  <2>1. R \subseteq H \ {w}
    BY <1>2, UsersAssumption DEF RunningUser, HoldersOf, HoldsSlot
  <2>2. w \in H
    BY <1>2 DEF HoldersOf, HoldsSlot
  <2>3. /\ IsFiniteSet(H \ {w})
        /\ Cardinality(H \ {w}) = Cardinality(H) - 1
    BY <2>2, HoldersFinite, FS_RemoveElement
  <2>4. Cardinality(R) <= Cardinality(H \ {w}) /\ Cardinality(R) \in Nat
    BY <2>1, <2>3, FS_Subset, FS_CardinalityType
  <2>5. Cardinality(H) <= Cap /\ Cardinality(H) \in Nat
    BY InvCap, HoldersFinite DEF CapHeld
  <2>6. QED
    BY <2>3, <2>4, <2>5, TableAssumption
<1>6. /\ RunningUser' = [RunningUser EXCEPT ![w] = u]
      /\ AdmittedBytes' = [AdmittedBytes EXCEPT ![w] = b]
  BY <1>2 DEF RunningUser, AdmittedBytes, IInv, TypeOK
<1>7. QED
  BY <1>3, <1>4, <1>5, <1>6, SameCounts
     DEF Contract!Admit, Contract!Running, RunningUser

LEMMA FinishStep ==
  ASSUME IInv, NEW w \in Workers, ReleaseBytes(w)
  PROVE  Contract!Finish(w)
<1>1. RunningUser[w] # NoUser
  BY DEF ReleaseBytes, RunningUser, IInv, PhaseOK
<1>2. /\ RunningUser' = [RunningUser EXCEPT ![w] = NoUser]
      /\ AdmittedBytes' = [AdmittedBytes EXCEPT ![w] = 0]
  BY DEF ReleaseBytes, RunningUser, AdmittedBytes, IInv, TypeOK
<1>3. QED
  BY <1>1, <1>2 DEF Contract!Finish, RunningUser

LEMMA ContractStep ==
  ASSUME IInv, IInv', [Next]_vars
  PROVE  [Contract!Next]_Contract!vars
<1> USE DEF Contract!vars
<1>1. CASE Restart
  <2>1. Contract!Restart
    BY <1>1 DEF Restart, Contract!Restart, AdmittedBytes
  <2>2. QED
    BY <2>1 DEF Contract!Next
<1>2. ASSUME NEW w \in Workers, Step(w)
      PROVE  [Contract!Next]_Contract!vars
  <2>1. CASE Reserve(w) /\ phase'[w] = "admitted"
    <3>1. user[w] \in Users /\ bytes[w] \in 0 .. MaxReserve
      BY <2>1 DEF Reserve, IInv, PhaseOK, TypeOK
    <3>2. PICK u \in Users, b \in 0 .. MaxReserve : u = user[w] /\ b = bytes[w]
      BY <3>1
    <3>3. Contract!Admit(w, u, b)
      BY <2>1, <3>2, AdmitStep
    <3>4. QED
      BY <3>3 DEF Contract!Next
  <2>2. CASE ReleaseBytes(w)
    BY <2>2, FinishStep DEF Contract!Next
  <2>3. CASE ~ ReleaseBytes(w) /\ ~ (Reserve(w) /\ phase'[w] = "admitted")
    <3>1. OthersUnchanged(w)
      BY <1>2, StepOthers DEF IInv
    <3>2. phase[w] # "admitted" /\ phase'[w] # "admitted"
      BY <1>2, <2>3
         DEF IInv, TypeOK, Step, Acquire, RefuseUser, ReplyUserBusy,
             FailUnreserved, Reserve, UndoReserve, ReleaseBytes, ReleaseSlot
    <3>3. RunningUser' = RunningUser /\ AdmittedBytes' = AdmittedBytes
      BY <3>1, <3>2 DEF OthersUnchanged, RunningUser, AdmittedBytes
    <3>4. QED
      BY <3>3 DEF RunningUser
  <2>4. QED
    BY <2>1, <2>2, <2>3
<1>3. CASE UNCHANGED vars
  BY <1>3 DEF vars, AdmittedBytes
<1>4. QED
  BY <1>1, <1>2, <1>3 DEF Next

(* The fetch-and-add with its correction and the table under its mutex     *)
(* implement atomic admission.                                             *)
THEOREM KeepsContract == Spec => ContractSpec
<1>1. Init => Contract!Init
  BY DEF Init, Contract!Init, AdmittedBytes
<1>2. IInv /\ IInv' /\ [Next]_vars => [Contract!Next]_Contract!vars
  BY ContractStep
<1>3. QED
  BY Invariance, <1>1, <1>2, PTL DEF Spec, ContractSpec, Contract!Spec
=============================================================================
