-------------------------- MODULE ConverterProofs --------------------------
(***************************************************************************)
(* Conversions keep to themselves: for any number of workers, descriptors  *)
(* and any budget, each worker's variables name its own open memfds, a     *)
(* converter reaches only those, a result is the whole output of the       *)
(* attempt that succeeded, and the chain ends in time.  What a worker      *)
(* relies on (Local) speaks of its own variables and of the memfds they    *)
(* name, and a step of another worker changes neither (Frame).             *)
(***************************************************************************)
EXTENDS Converter, TLAPS

TableType ==
  [Fds -> [owner : Workers \cup {Nobody}, cloexec : BOOLEAN,
           role : {"none", "in", "out", "meta"},
           wrote : SUBSET (1 .. 3), whole : BOOLEAN]]

IoType == [Workers -> [Roles -> Fds \cup {NoFd}]]

ChildType ==
  [Workers -> [state : {"none", "running", "succeeded", "failed"},
               reach : SUBSET (Workers \cup {Nobody})]]

ResultType ==
  [owner : Workers \cup {Nobody}, wrote : SUBSET (1 .. 3),
   whole : BOOLEAN, attempt : 0 .. 3]

(* The part of OwnDescriptors that does not speak of the worker's place.    *)
NumbersOK ==
  \A w \in Workers :
    /\ \A r \in Roles : io[w][r] # NoFd =>
         table[io[w][r]].owner = w /\ table[io[w][r]].role = r
    /\ \A n \in Fds : table[n].owner = w =>
         table[n].role \in Roles /\ io[w][table[n].role] = n

CloexecOK == \A n \in Fds : table[n].cloexec

(* What the place of a worker says of its variables.                        *)
Place(w) ==
  /\ pc[w] = "idle" => attempt[w] = 1 /\ io[w] = NoIo
  /\ pc[w] # "idle" => format[w] \in Formats /\ attempt[w] <= Attempts(format[w])
  /\ pc[w] \in {"open_in", "open_out", "open_meta", "begin"} => attempt[w] = 1
  /\ pc[w] = "open_in" => io[w] = NoIo
  /\ pc[w] = "open_out" => io[w]["out"] = NoFd
  /\ pc[w] \in {"open_out", "open_meta"} => io[w]["meta"] = NoFd
  /\ pc[w] \in {"open_meta", "begin", "spawn", "wait", "kill", "finish"} => io[w]["out"] # NoFd
  /\ pc[w] = "replace" => attempt[w] < Attempts(format[w])
  /\ pc[w] = "retry" => io[w]["out"] = NoFd
  /\ child[w].state # "none" <=> pc[w] \in {"wait", "kill"}

(* The output at hand has been written to by this attempt only, and all of  *)
(* it is there once the converter has reported success.                     *)
Fresh(w) ==
  LET out == io[w]["out"] IN
    out # NoFd =>
      /\ table[out].wrote \subseteq {attempt[w]}
      /\ child[w].state = "succeeded" \/ pc[w] = "finish" =>
           (table[out].wrote # {} => table[out].whole)

Reach(w) == child[w].state # "none" => child[w].reach = {w}

Winner(w) ==
  got[w] # Nothing =>
    got[w].owner = w /\ got[w].whole /\ got[w].wrote = {got[w].attempt}

InTime(w) ==
  /\ clock[w] <= LastMoment
  /\ pc[w] \in {"wait", "kill"} => due[w] <= Budget * Tick + (Tick - 1)

Local(w) == Place(w) /\ Fresh(w) /\ Reach(w) /\ Winner(w) /\ InTime(w)

IInv ==
  /\ TypeOK
  /\ NumbersOK
  /\ CloexecOK
  /\ \A w \in Workers : Local(w)

(* A step of w leaves alone what the other workers rely on.                 *)
Frame(w) ==
  \A v \in Workers \ {w} :
    /\ pc'[v] = pc[v] /\ format'[v] = format[v] /\ attempt'[v] = attempt[v]
    /\ clock'[v] = clock[v] /\ due'[v] = due[v]
    /\ child'[v] = child[v] /\ got'[v] = got[v]
    /\ io'[v] = io[v]
    /\ \A r \in Roles : io[v][r] # NoFd => table'[io[v][r]] = table[io[v][r]]

-----------------------------------------------------------------------------
(* Frames.                                                                  *)

LEMMA OthersKeep ==
  ASSUME NEW w \in Workers, NEW v \in Workers \ {w}, Frame(w), Local(v)
  PROVE  Local(v)'
<1> DEFINE out == io[v]["out"]
<1>1. /\ pc'[v] = pc[v] /\ format'[v] = format[v] /\ attempt'[v] = attempt[v]
      /\ clock'[v] = clock[v] /\ due'[v] = due[v]
      /\ child'[v] = child[v] /\ got'[v] = got[v]
      /\ io'[v] = io[v]
      /\ out # NoFd => table'[out] = table[out]
  BY DEF Frame, Roles
<1>2. Place(v)'
  BY <1>1 DEF Local, Place
<1>3. Fresh(v)'
  BY <1>1 DEF Local, Fresh
<1>4. Reach(v)' /\ Winner(v)' /\ InTime(v)'
  BY <1>1 DEF Local, Reach, Winner, InTime, LastMoment
<1>5. QED
  BY <1>2, <1>3, <1>4 DEF Local

LEMMA Assemble ==
  ASSUME IInv, NEW w \in Workers, TypeOK', NumbersOK', CloexecOK', Frame(w), Local(w)'
  PROVE  IInv'
<1>1. ASSUME NEW v \in Workers
      PROVE  Local(v)'
  <2>1. CASE v = w
    BY <2>1
  <2>2. CASE v # w
    BY <2>2, OthersKeep DEF IInv
  <2>3. QED
    BY <2>1, <2>2
<1>2. QED
  BY <1>1 DEF IInv

-----------------------------------------------------------------------------
(* Descriptors.                                                             *)

(* A new memfd takes a number that no worker names.                         *)
LEMMA CreateMemfd ==
  ASSUME TypeOK, NumbersOK, CloexecOK,
         NEW w \in Workers, NEW role \in Roles, io[w][role] = NoFd, Create(w, role)
  PROVE  /\ table' \in TableType
         /\ io' \in IoType
         /\ NumbersOK'
         /\ CloexecOK'
         /\ io'[w][role] \in Fds
         /\ table'[io'[w][role]] = Memfd(w, role)
         /\ \A r \in Roles \ {role} : io'[w][r] = io[w][r]
         /\ \A v \in Workers \ {w} :
              /\ io'[v] = io[v]
              /\ \A r \in Roles : io[v][r] # NoFd => table'[io[v][r]] = table[io[v][r]]
<1>1. PICK n \in Fds : /\ n \in Free
                       /\ table' = [table EXCEPT ![n] = Memfd(w, role)]
                       /\ io' = [io EXCEPT ![w][role] = n]
  BY DEF Create, Lowest
<1>2. table \in TableType /\ io \in IoType
  BY DEF TypeOK, TableType, IoType
<1>3. n # NoFd
  BY DEF Fds, NoFd
<1>4. table[n].owner = Nobody
  BY <1>1 DEF Free, FreeFd, Memfd
<1>5. \A v \in Workers, r \in Roles : io[v][r] # n
  BY <1>3, <1>4, NobodyAssumption DEF NumbersOK
<1>6. /\ table'[n] = Memfd(w, role)
      /\ \A m \in Fds \ {n} : table'[m] = table[m]
  BY <1>1, <1>2 DEF TableType
<1>7. /\ io'[w][role] = n
      /\ \A v \in Workers, r \in Roles : ~ (v = w /\ r = role) => io'[v][r] = io[v][r]
      /\ \A v \in Workers \ {w} : io'[v] = io[v]
  BY <1>1, <1>2 DEF IoType
<1>8. Memfd(w, role) \in [owner : Workers \cup {Nobody}, cloexec : BOOLEAN,
                          role : {"none", "in", "out", "meta"},
                          wrote : SUBSET (1 .. 3), whole : BOOLEAN]
  BY DEF Memfd, Roles
<1>9. table' \in TableType
  BY <1>1, <1>2, <1>8 DEF TableType
<1>10. io' \in IoType
  BY <1>1, <1>2 DEF IoType
<1>11. \A v \in Workers, r \in Roles : io[v][r] # NoFd => table'[io[v][r]] = table[io[v][r]]
  BY <1>2, <1>5, <1>6 DEF IoType
<1>12. NumbersOK'
  <2>1. ASSUME NEW v \in Workers, NEW r \in Roles, io'[v][r] # NoFd
        PROVE  table'[io'[v][r]].owner = v /\ table'[io'[v][r]].role = r
    <3>1. CASE v = w /\ r = role
      BY <3>1, <1>6, <1>7 DEF Memfd
    <3>2. CASE ~ (v = w /\ r = role)
      BY <3>2, <2>1, <1>7, <1>11 DEF NumbersOK
    <3>3. QED
      BY <3>1, <3>2
  <2>2. ASSUME NEW v \in Workers, NEW m \in Fds, table'[m].owner = v
        PROVE  table'[m].role \in Roles /\ io'[v][table'[m].role] = m
    <3>1. CASE m = n
      BY <3>1, <2>2, <1>6, <1>7 DEF Memfd
    <3>2. CASE m # n
      <4>1. table[m].owner = v /\ table'[m] = table[m]
        BY <3>2, <2>2, <1>6
      <4>2. table[m].role \in Roles /\ io[v][table[m].role] = m
        BY <4>1 DEF NumbersOK
      <4>3. QED
        BY <4>1, <4>2, <1>3, <1>7, io[w][role] = NoFd DEF NoFd, Fds
    <3>3. QED
      BY <3>1, <3>2
  <2>3. QED
    BY <2>1, <2>2 DEF NumbersOK
<1>13. CloexecOK'
  BY <1>6 DEF CloexecOK, Memfd
<1>14. QED
  BY <1>1, <1>6, <1>7, <1>9, <1>10, <1>11, <1>12, <1>13

LEMMA CloseAllMemfds ==
  ASSUME TypeOK, NumbersOK, CloexecOK, NEW w \in Workers, CloseAll(w)
  PROVE  /\ table' \in TableType
         /\ io' \in IoType
         /\ NumbersOK'
         /\ CloexecOK'
         /\ io'[w] = NoIo
         /\ \A v \in Workers \ {w} :
              /\ io'[v] = io[v]
              /\ \A r \in Roles : io[v][r] # NoFd => table'[io[v][r]] = table[io[v][r]]
<1> DEFINE Mine == {n \in Fds : \E r \in Roles : io[w][r] = n}
<1>1. table \in TableType /\ io \in IoType
  BY DEF TypeOK, TableType, IoType
<1>2. /\ \A n \in Mine : table'[n] = FreeFd
      /\ \A n \in Fds \ Mine : table'[n] = table[n]
      /\ table' = [n \in Fds |-> IF n \in Mine THEN FreeFd ELSE table[n]]
  BY DEF CloseAll
<1>3. /\ io'[w] = NoIo
      /\ \A v \in Workers \ {w} : io'[v] = io[v]
  BY <1>1 DEF CloseAll, IoType
<1>4. FreeFd \in [owner : Workers \cup {Nobody}, cloexec : BOOLEAN,
                  role : {"none", "in", "out", "meta"},
                  wrote : SUBSET (1 .. 3), whole : BOOLEAN]
  BY DEF FreeFd, Memfd
<1>5. table' \in TableType
  BY <1>1, <1>2, <1>4 DEF TableType
<1>6. NoIo \in [Roles -> Fds \cup {NoFd}]
  BY DEF NoIo
<1>7. io' \in IoType
  BY <1>1, <1>6 DEF IoType, CloseAll
<1>8. \A n \in Mine : table[n].owner = w
  BY DEF NumbersOK, NoFd, Fds
<1>9. ASSUME NEW v \in Workers \ {w}, NEW r \in Roles, io[v][r] # NoFd
      PROVE  table'[io[v][r]] = table[io[v][r]]
  <2>1. table[io[v][r]].owner = v /\ io[v][r] \in Fds
    BY <1>1, <1>9 DEF NumbersOK, IoType
  <2>2. QED
    BY <2>1, <1>2, <1>8
<1>10. NumbersOK'
  <2>1. ASSUME NEW v \in Workers, NEW r \in Roles, io'[v][r] # NoFd
        PROVE  table'[io'[v][r]].owner = v /\ table'[io'[v][r]].role = r
    BY <2>1, <1>3, <1>9 DEF NumbersOK, NoIo
  <2>2. ASSUME NEW v \in Workers, NEW m \in Fds, table'[m].owner = v
        PROVE  table'[m].role \in Roles /\ io'[v][table'[m].role] = m
    <3>1. m \notin Mine /\ table'[m] = table[m]
      BY <2>2, <1>2, NobodyAssumption DEF FreeFd, Memfd
    <3>2. table[m].role \in Roles /\ io[v][table[m].role] = m
      BY <2>2, <3>1 DEF NumbersOK
    <3>3. v # w
      BY <3>1, <3>2
    <3>4. QED
      BY <3>1, <3>2, <3>3, <1>3
  <2>3. QED
    BY <2>1, <2>2 DEF NumbersOK
<1>11. CloexecOK'
  BY <1>2 DEF CloexecOK, FreeFd, Memfd
<1>12. QED
  BY <1>3, <1>5, <1>7, <1>9, <1>10, <1>11

LEMMA CloseOutput ==
  ASSUME TypeOK, NumbersOK, CloexecOK, NEW w \in Workers,
         table' = [n \in Fds |-> IF n = io[w]["out"] THEN FreeFd ELSE table[n]],
         io' = [io EXCEPT ![w]["out"] = NoFd]
  PROVE  /\ table' \in TableType
         /\ io' \in IoType
         /\ NumbersOK'
         /\ CloexecOK'
         /\ io'[w]["out"] = NoFd
         /\ \A v \in Workers \ {w} :
              /\ io'[v] = io[v]
              /\ \A r \in Roles : io[v][r] # NoFd => table'[io[v][r]] = table[io[v][r]]
<1> DEFINE out == io[w]["out"]
<1>1. table \in TableType /\ io \in IoType
  BY DEF TypeOK, TableType, IoType
<1>2. /\ out \in Fds => table'[out] = FreeFd
      /\ \A n \in Fds \ {out} : table'[n] = table[n]
  OBVIOUS
<1>3. /\ io'[w]["out"] = NoFd
      /\ \A v \in Workers, r \in Roles : ~ (v = w /\ r = "out") => io'[v][r] = io[v][r]
      /\ \A v \in Workers \ {w} : io'[v] = io[v]
  BY <1>1 DEF IoType, Roles
<1>4. FreeFd \in [owner : Workers \cup {Nobody}, cloexec : BOOLEAN,
                  role : {"none", "in", "out", "meta"},
                  wrote : SUBSET (1 .. 3), whole : BOOLEAN]
  BY DEF FreeFd, Memfd
<1>5. table' \in TableType
  BY <1>1, <1>4 DEF TableType
<1>6. io' \in IoType
  BY <1>1 DEF IoType, Roles
<1>7. ASSUME NEW v \in Workers, NEW r \in Roles, ~ (v = w /\ r = "out"), io[v][r] # NoFd
      PROVE  io[v][r] \in Fds \ {out}
  <2>1. io[v][r] \in Fds /\ table[io[v][r]].owner = v /\ table[io[v][r]].role = r
    BY <1>1, <1>7 DEF NumbersOK, IoType
  <2>2. out # NoFd => table[out].owner = w /\ table[out].role = "out"
    BY DEF NumbersOK, Roles
  <2>3. QED
    BY <2>1, <2>2, <1>7
<1>8. NumbersOK'
  <2>1. ASSUME NEW v \in Workers, NEW r \in Roles, io'[v][r] # NoFd
        PROVE  table'[io'[v][r]].owner = v /\ table'[io'[v][r]].role = r
    BY <2>1, <1>2, <1>3, <1>7 DEF NumbersOK
  <2>2. ASSUME NEW v \in Workers, NEW m \in Fds, table'[m].owner = v
        PROVE  table'[m].role \in Roles /\ io'[v][table'[m].role] = m
    <3>1. m # out /\ table'[m] = table[m]
      BY <2>2, <1>2, NobodyAssumption DEF FreeFd, Memfd
    <3>2. table[m].role \in Roles /\ io[v][table[m].role] = m
      BY <2>2, <3>1 DEF NumbersOK
    <3>3. QED
      BY <3>1, <3>2, <1>3
  <2>3. QED
    BY <2>1, <2>2 DEF NumbersOK
<1>9. CloexecOK'
  BY <1>2 DEF CloexecOK, FreeFd, Memfd
<1>10. QED
  BY <1>2, <1>3, <1>5, <1>6, <1>7, <1>8, <1>9

-----------------------------------------------------------------------------
(* The clock.                                                               *)

(* An attempt that begins while time is left ends within the budget and the *)
(* rounding of one second.                                                  *)
LEMMA DueInTime ==
  ASSUME TypeOK, NEW w \in Workers, SecsWithin(w) > 0
  PROVE  /\ clock[w] + SecsWithin(w) * Tick \in Nat
         /\ clock[w] + SecsWithin(w) * Tick <= Budget * Tick + (Tick - 1)
<1> DEFINE c == clock[w]
           q == c \div Tick
           s == SecsWithin(w)
<1>1. c \in Nat
  BY DEF TypeOK
<1>2. q \in Nat /\ Tick * q <= c /\ c < Tick * q + Tick
  BY <1>1, TimeAssumption
<1>3. s \in Int /\ s <= Budget - q
  BY <1>2, TimeAssumption DEF SecsWithin, SecsUntil
<1> HIDE DEF c, q, s
<1>4. s * Tick <= (Budget - q) * Tick /\ s * Tick \in Nat
  BY <1>2, <1>3, TimeAssumption DEF s
<1>5. (Budget - q) * Tick = Budget * Tick - Tick * q
  BY <1>2, TimeAssumption
<1>6. c + s * Tick \in Nat /\ c + s * Tick <= Budget * Tick + (Tick - 1)
  BY <1>1, <1>2, <1>4, <1>5, TimeAssumption
<1>7. QED
  BY <1>6 DEF c, s

LEMMA LastMomentIsLate ==
  /\ Budget * Tick \in Nat
  /\ LastMoment \in Nat
  /\ LastMoment >= Tick - 1
  /\ LastMoment >= Budget * Tick + (Tick - 1) + (PollTime - 1)
<1>1. Budget * Tick \in Nat
  BY TimeAssumption
<1>2. QED
  BY <1>1, TimeAssumption DEF LastMoment

LEMMA AfterFailureGoesOn ==
  ASSUME NEW w \in Workers
  PROVE  \/ AfterFailure(w) = "replace" /\ attempt[w] < Attempts(format[w])
         \/ AfterFailure(w) = "abort"
BY DEF AfterFailure

LEMMA AttemptsRange ==
  ASSUME NEW f \in Formats
  PROVE  Attempts(f) \in 1 .. 3
BY DEF Attempts, Formats

-----------------------------------------------------------------------------
(* One lemma an action.                                                     *)

LEMMA BeginKeeps ==
  ASSUME IInv, NEW w \in Workers, Begin(w)
  PROVE  IInv'
<1> USE DEF Begin, Goto
<1>1. TypeOK /\ NumbersOK /\ CloexecOK /\ Local(w)
  BY DEF IInv
<1>2. Nothing \in ResultType
  BY DEF Nothing, ResultType
<1>3. TypeOK'
  BY <1>1, <1>2 DEF TypeOK, Labels, ResultType
<1>4. NumbersOK' /\ CloexecOK'
  BY <1>1 DEF NumbersOK, CloexecOK
<1>5. Frame(w)
  BY <1>1 DEF Frame, TypeOK
<1>6. /\ pc'[w] = "open_in" /\ format'[w] \in Formats /\ got'[w] = Nothing
      /\ attempt'[w] = 1 /\ io'[w] = NoIo
  BY <1>1 DEF TypeOK, Local, Place
<1>7. Place(w)'
  BY <1>1, <1>6, AttemptsRange DEF Local, Place
<1>8. Fresh(w)'
  BY <1>6 DEF Fresh, NoIo, Roles
<1>9. Reach(w)' /\ Winner(w)' /\ InTime(w)'
  BY <1>1, <1>6 DEF Local, Reach, Winner, InTime, LastMoment
<1>10. QED
  BY <1>3, <1>4, <1>5, <1>7, <1>8, <1>9, Assemble DEF Local

(* A conversion returns with nothing open and no child.                     *)
LEMMA EndKeeps ==
  ASSUME IInv, NEW w \in Workers, NEW result \in ResultType,
         End(w, result), UNCHANGED <<due, child>>, child[w].state = "none",
         result # Nothing =>
           result.owner = w /\ result.whole /\ result.wrote = {result.attempt},
         \/ CloseAll(w)
         \/ io[w] = NoIo /\ UNCHANGED <<table, io>>
  PROVE  IInv'
<1> USE DEF End, Goto
<1>1. TypeOK /\ NumbersOK /\ CloexecOK /\ Local(w)
  BY DEF IInv
<1>2. /\ table' \in TableType /\ io' \in IoType /\ NumbersOK' /\ CloexecOK'
      /\ io'[w] = NoIo
      /\ \A v \in Workers \ {w} :
           /\ io'[v] = io[v]
           /\ \A r \in Roles : io[v][r] # NoFd => table'[io[v][r]] = table[io[v][r]]
  <2>1. CASE CloseAll(w)
    BY <2>1, <1>1, CloseAllMemfds
  <2>2. CASE io[w] = NoIo /\ UNCHANGED <<table, io>>
    BY <2>2, <1>1 DEF NumbersOK, CloexecOK, TypeOK, TableType, IoType
  <2>3. QED
    BY <2>1, <2>2
<1>3. TypeOK'
  <2>1. /\ pc' \in [Workers -> Labels] /\ format' \in [Workers -> Formats \cup {"none"}]
        /\ attempt' \in [Workers -> 1 .. 3] /\ clock' \in [Workers -> Nat]
    BY <1>1 DEF TypeOK, Labels
  <2>2. got' \in [Workers -> ResultType]
    BY <1>1 DEF TypeOK, ResultType
  <2>3. QED
    BY <2>1, <2>2, <1>1, <1>2 DEF TypeOK, TableType, IoType, ResultType
<1>4. Frame(w)
  BY <1>1, <1>2 DEF Frame, TypeOK
<1>5. /\ pc'[w] = "idle" /\ attempt'[w] = 1 /\ clock'[w] = 0 /\ got'[w] = result
      /\ child'[w] = child[w]
  BY <1>1 DEF TypeOK
<1>6. Place(w)'
  BY <1>2, <1>5 DEF Place
<1>7. Fresh(w)'
  BY <1>2 DEF Fresh, NoIo, Roles
<1>8. Reach(w)' /\ Winner(w)' /\ InTime(w)'
  BY <1>5, LastMomentIsLate DEF Reach, Winner, InTime, LastMoment
<1>9. QED
  BY <1>2, <1>3, <1>4, <1>6, <1>7, <1>8, Assemble DEF Local

LEMMA DeclineKeeps ==
  ASSUME IInv, NEW w \in Workers, Decline(w)
  PROVE  IInv'
<1>1. io[w] = NoIo /\ child[w].state = "none"
  BY DEF Decline, IInv, Local, Place
<1>2. Nothing \in ResultType
  BY DEF Nothing, ResultType
<1>3. QED
  BY <1>1, <1>2, EndKeeps DEF Decline

LEMMA OpenFailsKeeps ==
  ASSUME IInv, NEW w \in Workers, OpenFails(w)
  PROVE  IInv'
<1>1. child[w].state = "none"
  BY DEF OpenFails, IInv, Local, Place
<1>2. Nothing \in ResultType
  BY DEF Nothing, ResultType
<1>3. QED
  BY <1>1, <1>2, EndKeeps DEF OpenFails

LEMMA AbortKeeps ==
  ASSUME IInv, NEW w \in Workers, Abort(w)
  PROVE  IInv'
<1>1. child[w].state = "none"
  BY DEF Abort, IInv, Local, Place
<1>2. Nothing \in ResultType
  BY DEF Nothing, ResultType
<1>3. QED
  BY <1>1, <1>2, EndKeeps DEF Abort

LEMMA FinishKeeps ==
  ASSUME IInv, NEW w \in Workers, Finish(w)
  PROVE  IInv'
<1> DEFINE out == io[w]["out"]
           result == [owner |-> table[out].owner, wrote |-> table[out].wrote,
                      whole |-> table[out].whole, attempt |-> attempt[w]]
<1>1. child[w].state = "none" /\ out # NoFd
  BY DEF Finish, IInv, Local, Place
<1>2. Nothing \in ResultType
  BY DEF Nothing, ResultType
<1>3. CASE End(w, Nothing)
  BY <1>1, <1>2, <1>3, EndKeeps DEF Finish
<1>4. CASE table[out].wrote # {} /\ End(w, result)
  <2>1. out \in Fds /\ table[out].owner = w
    BY <1>1 DEF IInv, TypeOK, NumbersOK, Roles
  <2>2. table[out].wrote = {attempt[w]} /\ table[out].whole
    BY <1>1, <1>4 DEF IInv, Local, Fresh, Finish
  <2>3. result \in ResultType
    BY <2>1 DEF IInv, TypeOK, ResultType
  <2>4. result.owner = w /\ result.whole /\ result.wrote = {result.attempt}
    BY <2>1, <2>2
  <2>5. QED
    BY <1>1, <1>4, <2>3, <2>4, EndKeeps DEF Finish
<1>5. QED
  BY <1>3, <1>4 DEF Finish

(* Opening a memfd, but for what the place reached says.                    *)
LEMMA OpenKeeps ==
  ASSUME IInv, NEW w \in Workers, NEW role \in Roles, NEW l \in Labels,
         io[w][role] = NoFd, Create(w, role), Goto(w, l),
         l \notin {"wait", "kill", "finish"}, child[w].state = "none",
         UNCHANGED <<format, attempt, clock, due, child, got>>,
         Place(w)'
  PROVE  IInv'
<1>1. TypeOK /\ NumbersOK /\ CloexecOK /\ Local(w)
  BY DEF IInv
<1>2. /\ table' \in TableType /\ io' \in IoType /\ NumbersOK' /\ CloexecOK'
      /\ io'[w][role] \in Fds /\ table'[io'[w][role]] = Memfd(w, role)
      /\ \A r \in Roles \ {role} : io'[w][r] = io[w][r]
      /\ \A v \in Workers \ {w} :
           /\ io'[v] = io[v]
           /\ \A r \in Roles : io[v][r] # NoFd => table'[io[v][r]] = table[io[v][r]]
  BY <1>1, CreateMemfd
<1>3. pc' = [pc EXCEPT ![w] = l]
  BY DEF Goto
<1>4. TypeOK'
  BY <1>1, <1>2, <1>3 DEF TypeOK, TableType, IoType
<1>5. Frame(w)
  BY <1>1, <1>2, <1>3 DEF Frame, TypeOK
<1>6. pc'[w] = l
  BY <1>1, <1>3 DEF TypeOK
<1>7. Fresh(w)'
  <2>1. CASE role = "out"
    BY <2>1, <1>2 DEF Fresh, Memfd
  <2>2. CASE role # "out"
    <3>1. io'[w]["out"] = io[w]["out"]
      BY <2>2, <1>2 DEF Roles
    <3>2. io[w]["out"] # NoFd => table'[io[w]["out"]] = table[io[w]["out"]]
      <4>1. PICK n \in Fds : n \in Free /\ table' = [table EXCEPT ![n] = Memfd(w, role)]
        BY DEF Create, Lowest
      <4>2. table[n].owner = Nobody
        BY <4>1 DEF Free, FreeFd, Memfd
      <4>3. io[w]["out"] # n
        BY <1>1, <4>2, NobodyAssumption DEF NumbersOK, Roles, Fds, NoFd
      <4>4. QED
        BY <1>1, <4>1, <4>3 DEF TypeOK, Roles
    <3>3. QED
      BY <1>1, <1>6, <3>1, <3>2 DEF Local, Fresh
  <2>3. QED
    BY <2>1, <2>2
<1>8. Reach(w)' /\ Winner(w)' /\ InTime(w)'
  BY <1>1, <1>6 DEF Local, Reach, Winner, InTime, LastMoment
<1>9. QED
  BY <1>2, <1>4, <1>5, <1>7, <1>8, Assemble DEF Local

LEMMA OpenInKeeps ==
  ASSUME IInv, NEW w \in Workers, OpenIn(w)
  PROVE  IInv'
<1>1. TypeOK /\ NumbersOK /\ CloexecOK /\ Place(w)
  BY DEF IInv, Local
<1>2. io[w]["in"] = NoFd /\ io[w]["out"] = NoFd /\ io[w]["meta"] = NoFd
  BY <1>1 DEF OpenIn, Place, NoIo, Roles
<1>3. /\ io'[w]["out"] = NoFd /\ io'[w]["meta"] = NoFd /\ pc'[w] = "open_out"
  BY <1>1, <1>2, CreateMemfd DEF OpenIn, Goto, Roles, TypeOK
<1>4. Place(w)'
  BY <1>1, <1>3 DEF OpenIn, Place
<1>5. QED
  BY <1>1, <1>2, <1>4, OpenKeeps DEF OpenIn, Place, Roles, Labels

LEMMA OpenOutKeeps ==
  ASSUME IInv, NEW w \in Workers, OpenOut(w)
  PROVE  IInv'
<1>1. TypeOK /\ NumbersOK /\ CloexecOK /\ Place(w)
  BY DEF IInv, Local
<1>2. io[w]["out"] = NoFd /\ io[w]["meta"] = NoFd
  BY <1>1 DEF OpenOut, Place
<1>3. /\ io'[w]["out"] # NoFd /\ io'[w]["meta"] = NoFd
      /\ pc'[w] \in {"open_meta", "begin"}
  BY <1>1, <1>2, CreateMemfd DEF OpenOut, Goto, Roles, TypeOK, NoFd, Fds
<1>4. Place(w)'
  BY <1>1, <1>3 DEF OpenOut, Place
<1>5. QED
  BY <1>1, <1>2, <1>4, OpenKeeps DEF OpenOut, Place, Roles, Labels

LEMMA OpenMetaKeeps ==
  ASSUME IInv, NEW w \in Workers, OpenMeta(w)
  PROVE  IInv'
<1>1. TypeOK /\ NumbersOK /\ CloexecOK /\ Place(w)
  BY DEF IInv, Local
<1>2. io[w]["meta"] = NoFd /\ io[w]["out"] # NoFd
  BY <1>1 DEF OpenMeta, Place
<1>3. io'[w]["out"] # NoFd /\ pc'[w] = "begin"
  <2>1. io'[w]["out"] = io[w]["out"]
    BY <1>1, <1>2, CreateMemfd DEF OpenMeta, Roles
  <2>2. QED
    BY <1>1, <1>2, <2>1 DEF OpenMeta, Goto, TypeOK
<1>4. Place(w)'
  BY <1>1, <1>3 DEF OpenMeta, Place
<1>5. QED
  BY <1>1, <1>2, <1>4, OpenKeeps DEF OpenMeta, Place, Roles, Labels

(* A step that opens and closes nothing.                                    *)
LEMMA StillKeeps ==
  ASSUME IInv, NEW w \in Workers, UNCHANGED <<table, io>>, TypeOK', Frame(w), Local(w)'
  PROVE  IInv'
<1>1. NumbersOK' /\ CloexecOK'
  BY DEF IInv, NumbersOK, CloexecOK
<1>2. QED
  BY <1>1, Assemble

LEMMA BeginChainKeeps ==
  ASSUME IInv, NEW w \in Workers, BeginChain(w)
  PROVE  IInv'
<1>1. TypeOK /\ Local(w)
  BY DEF IInv
<1>2. PICK s \in 0 .. Tick - 1 : clock' = [clock EXCEPT ![w] = s]
  BY DEF BeginChain
<1>3. s \in Nat /\ s <= LastMoment
  BY <1>2, LastMomentIsLate, TimeAssumption
<1>4. TypeOK'
  BY <1>1, <1>2, <1>3 DEF BeginChain, Goto, TypeOK, Labels
<1>5. Frame(w)
  BY <1>1, <1>2 DEF BeginChain, Goto, Frame, TypeOK
<1>6. pc'[w] = "spawn" /\ clock'[w] = s
  BY <1>1, <1>2 DEF BeginChain, Goto, TypeOK
<1>7. Place(w)' /\ Fresh(w)'
  BY <1>1, <1>6 DEF BeginChain, Local, Place, Fresh
<1>8. Reach(w)' /\ Winner(w)' /\ InTime(w)'
  BY <1>1, <1>3, <1>6 DEF BeginChain, Local, Reach, Winner, InTime, LastMoment
<1>9. QED
  BY <1>4, <1>5, <1>7, <1>8, StillKeeps DEF BeginChain, Local

(* The child inherits what its worker names, and no other open number.      *)
LEMMA InheritedIsOwn ==
  ASSUME IInv, NEW w \in Workers, io[w]["out"] # NoFd
  PROVE  {table[n].owner : n \in Inherited(Kept(w))} = {w}
<1>1. TypeOK /\ NumbersOK /\ CloexecOK
  BY DEF IInv
<1>2. ASSUME NEW n \in Inherited(Kept(w))
      PROVE  table[n].owner = w
  <2>1. n \in Kept(w)
    BY <1>1 DEF Inherited, CloexecOK
  <2>2. PICK r \in Roles : io[w][r] = n /\ n # NoFd
    BY <2>1 DEF Kept
  <2>3. QED
    BY <1>1, <2>2 DEF NumbersOK
<1>3. io[w]["out"] \in Inherited(Kept(w))
  <2>1. io[w]["out"] \in Fds /\ io[w]["out"] \in Kept(w)
    BY <1>1 DEF TypeOK, Roles, Kept
  <2>2. table[io[w]["out"]].owner = w
    BY <1>1 DEF NumbersOK, Roles
  <2>3. table[io[w]["out"]] # FreeFd
    BY <2>2, NobodyAssumption DEF FreeFd, Memfd
  <2>4. QED
    BY <2>1, <2>3 DEF Inherited
<1>4. QED
  BY <1>2, <1>3

LEMMA ForkKeeps ==
  ASSUME IInv, NEW w \in Workers, Fork(w)
  PROVE  IInv'
<1> DEFINE until == clock[w] + SecsWithin(w) * Tick
<1>1. TypeOK /\ Local(w) /\ pc[w] = "spawn" /\ io[w]["out"] # NoFd
  BY DEF IInv, Fork, Local, Place
<1>2. until \in Nat /\ until <= Budget * Tick + (Tick - 1) /\ due' = [due EXCEPT ![w] = until]
  BY <1>1, DueInTime DEF Fork
<1>3. child' = [child EXCEPT ![w] = [state |-> "running", reach |-> {w}]]
  BY <1>1, InheritedIsOwn DEF Fork
<1>4. /\ pc' = [pc EXCEPT ![w] = "wait"]
      /\ UNCHANGED <<table, format, io, attempt, clock, got>>
  BY DEF Fork, Goto
<1> HIDE DEF until
<1>5. TypeOK'
  BY <1>1, <1>2, <1>3, <1>4 DEF TypeOK, Labels
<1>6. Frame(w)
  BY <1>1, <1>2, <1>3, <1>4 DEF Frame, TypeOK
<1>7. /\ pc'[w] = "wait" /\ due'[w] = until
      /\ child'[w].state = "running" /\ child'[w].reach = {w}
  BY <1>1, <1>2, <1>3, <1>4 DEF TypeOK
<1>8. Place(w)' /\ Fresh(w)'
  BY <1>1, <1>4, <1>7 DEF Local, Place, Fresh
<1>9. Reach(w)' /\ Winner(w)' /\ InTime(w)'
  BY <1>1, <1>2, <1>4, <1>7 DEF Local, Reach, Winner, InTime, LastMoment
<1>10. QED
  BY <1>4, <1>5, <1>6, <1>8, <1>9, StillKeeps DEF Local

LEMMA NoForkKeeps ==
  ASSUME IInv, NEW w \in Workers, NoFork(w)
  PROVE  IInv'
<1>1. TypeOK /\ Local(w) /\ pc[w] = "spawn"
  BY DEF IInv, NoFork
<1>2. /\ pc'[w] = AfterFailure(w)
      /\ pc'[w] \in {"replace", "abort"}
      /\ pc'[w] = "replace" => attempt[w] < Attempts(format[w])
  BY <1>1, AfterFailureGoesOn DEF NoFork, Goto, TypeOK
<1>3. TypeOK'
  BY <1>1, <1>2 DEF NoFork, Goto, TypeOK, Labels
<1>4. Frame(w)
  BY <1>1 DEF NoFork, Goto, Frame, TypeOK
<1>5. Place(w)' /\ Fresh(w)'
  BY <1>1, <1>2 DEF NoFork, Local, Place, Fresh
<1>6. Reach(w)' /\ Winner(w)' /\ InTime(w)'
  BY <1>1, <1>2 DEF NoFork, Local, Reach, Winner, InTime, LastMoment
<1>7. QED
  BY <1>3, <1>4, <1>5, <1>6, StillKeeps DEF NoFork, Local

LEMMA PollKeeps ==
  ASSUME IInv, NEW w \in Workers, Poll(w)
  PROVE  IInv'
<1>1. TypeOK /\ Local(w) /\ pc[w] = "wait"
  BY DEF IInv, Poll
<1>2. /\ pc'[w] \in {"wait", "kill"}
      /\ clock'[w] \in Nat
      /\ clock'[w] <= LastMoment
  <2>1. CASE clock[w] >= due[w]
    BY <2>1, <1>1 DEF Poll, Goto, TypeOK, Local, InTime
  <2>2. CASE ~ (clock[w] >= due[w])
    <3>1. clock[w] < due[w] /\ due[w] <= Budget * Tick + (Tick - 1) /\ due[w] \in Nat
      BY <2>2, <1>1 DEF TypeOK, Local, InTime
    <3>2. clock'[w] = clock[w] + PollTime /\ pc'[w] = pc[w] /\ clock[w] \in Nat
      BY <2>2, <1>1 DEF Poll, TypeOK
    <3>3. QED
      BY <1>1, <3>1, <3>2, LastMomentIsLate, TimeAssumption
  <2>3. QED
    BY <2>1, <2>2
<1>3. TypeOK'
  <2>1. pc' \in [Workers -> Labels]
    BY <1>1 DEF Poll, Goto, TypeOK, Labels
  <2>2. clock' \in [Workers -> Nat]
    BY <1>1, <1>2, TimeAssumption DEF Poll, TypeOK
  <2>3. QED
    BY <1>1, <2>1, <2>2 DEF Poll, TypeOK
<1>4. Frame(w)
  BY <1>1 DEF Poll, Goto, Frame, TypeOK
<1>5. Place(w)' /\ Fresh(w)'
  BY <1>1, <1>2 DEF Poll, Local, Place, Fresh
<1>6. Reach(w)' /\ Winner(w)' /\ InTime(w)'
  BY <1>1, <1>2 DEF Poll, Local, Reach, Winner, InTime, LastMoment
<1>7. QED
  BY <1>3, <1>4, <1>5, <1>6, StillKeeps DEF Poll, Local

LEMMA ReapKeeps ==
  ASSUME IInv, NEW w \in Workers, Reap(w)
  PROVE  IInv'
<1>1. TypeOK /\ Local(w) /\ pc[w] = "wait"
  BY DEF IInv, Reap
<1>2. /\ pc'[w] \in {"replace", "abort", "finish"}
      /\ pc'[w] = "replace" => attempt[w] < Attempts(format[w])
      /\ pc'[w] = "finish" => child[w].state = "succeeded"
      /\ child'[w].state = "none"
  BY <1>1, AfterFailureGoesOn DEF Reap, Goto, TypeOK, NoChild
<1>3. TypeOK'
  BY <1>1, <1>2, AfterFailureGoesOn DEF Reap, Goto, TypeOK, Labels, NoChild
<1>4. Frame(w)
  BY <1>1 DEF Reap, Goto, Frame, TypeOK
<1>5. Place(w)' /\ Fresh(w)'
  BY <1>1, <1>2 DEF Reap, Local, Place, Fresh
<1>6. Reach(w)' /\ Winner(w)' /\ InTime(w)'
  BY <1>1, <1>2 DEF Reap, Local, Reach, Winner, InTime, LastMoment
<1>7. QED
  BY <1>3, <1>4, <1>5, <1>6, StillKeeps DEF Reap, Local

LEMMA KillKeeps ==
  ASSUME IInv, NEW w \in Workers, Kill(w)
  PROVE  IInv'
<1>1. TypeOK /\ Local(w) /\ pc[w] = "kill"
  BY DEF IInv, Kill
<1>2. /\ pc'[w] \in {"replace", "abort"}
      /\ pc'[w] = "replace" => attempt[w] < Attempts(format[w])
      /\ child'[w].state = "none"
  BY <1>1, AfterFailureGoesOn DEF Kill, Goto, TypeOK, NoChild
<1>3. TypeOK'
  BY <1>1, <1>2, AfterFailureGoesOn DEF Kill, Goto, TypeOK, Labels, NoChild
<1>4. Frame(w)
  BY <1>1 DEF Kill, Goto, Frame, TypeOK
<1>5. Place(w)' /\ Fresh(w)'
  BY <1>1, <1>2 DEF Kill, Local, Place, Fresh
<1>6. Reach(w)' /\ Winner(w)' /\ InTime(w)'
  BY <1>1, <1>2 DEF Kill, Local, Reach, Winner, InTime, LastMoment
<1>7. QED
  BY <1>3, <1>4, <1>5, <1>6, StillKeeps DEF Kill, Local

LEMMA CloseSpentKeeps ==
  ASSUME IInv, NEW w \in Workers, CloseSpent(w)
  PROVE  IInv'
<1>1. TypeOK /\ NumbersOK /\ CloexecOK /\ Local(w) /\ pc[w] = "replace"
  BY DEF IInv, CloseSpent
<1>2. /\ table' \in TableType /\ io' \in IoType /\ NumbersOK' /\ CloexecOK'
      /\ io'[w]["out"] = NoFd
      /\ \A v \in Workers \ {w} :
           /\ io'[v] = io[v]
           /\ \A r \in Roles : io[v][r] # NoFd => table'[io[v][r]] = table[io[v][r]]
  BY <1>1, CloseOutput DEF CloseSpent
<1>3. /\ pc' = [pc EXCEPT ![w] = "retry"]
      /\ attempt' = [attempt EXCEPT ![w] = attempt[w] + 1]
      /\ UNCHANGED <<format, clock, due, child, got>>
  BY DEF CloseSpent, Goto
<1>4. attempt[w] + 1 \in 1 .. 3 /\ attempt[w] + 1 <= Attempts(format[w])
  <2>1. format[w] \in Formats /\ attempt[w] < Attempts(format[w]) /\ attempt[w] \in 1 .. 3
    BY <1>1 DEF Local, Place, TypeOK
  <2>2. QED
    BY <2>1, AttemptsRange
<1>5. TypeOK'
  <2>1. attempt' \in [Workers -> 1 .. 3] /\ pc' \in [Workers -> Labels]
    BY <1>1, <1>3, <1>4 DEF TypeOK, Labels
  <2>2. QED
    BY <1>1, <1>2, <1>3, <2>1 DEF TypeOK, TableType, IoType
<1>6. Frame(w)
  BY <1>1, <1>2, <1>3 DEF Frame, TypeOK
<1>7. pc'[w] = "retry" /\ attempt'[w] = attempt[w] + 1
  BY <1>1, <1>3 DEF TypeOK
<1>8. Place(w)' /\ Fresh(w)'
  BY <1>1, <1>2, <1>3, <1>4, <1>7 DEF Local, Place, Fresh
<1>9. Reach(w)' /\ Winner(w)' /\ InTime(w)'
  BY <1>1, <1>3, <1>7 DEF Local, Reach, Winner, InTime, LastMoment
<1>10. QED
  BY <1>2, <1>5, <1>6, <1>8, <1>9, Assemble DEF Local

LEMMA RetryKeeps ==
  ASSUME IInv, NEW w \in Workers, Retry(w)
  PROVE  IInv'
<1>1. TypeOK /\ NumbersOK /\ CloexecOK /\ Local(w) /\ pc[w] = "retry"
  BY DEF IInv, Retry
<1>2. /\ io[w]["out"] = NoFd /\ child[w].state = "none"
      /\ UNCHANGED <<format, attempt, clock, due, child, got>>
  BY <1>1 DEF Local, Place, Retry
<1>3. CASE Create(w, "out") /\ Goto(w, "spawn")
  <2>1. io'[w]["out"] # NoFd /\ pc'[w] = "spawn"
    BY <1>1, <1>2, <1>3, CreateMemfd DEF Goto, Roles, TypeOK, NoFd, Fds
  <2>2. Place(w)'
    BY <1>1, <1>2, <2>1 DEF Local, Place
  <2>3. QED
    BY <1>2, <1>3, <2>2, OpenKeeps DEF Roles, Labels
<1>4. CASE /\ Goto(w, IF format[w] = "video" THEN "abort" ELSE AfterFailure(w))
           /\ UNCHANGED <<table, io>>
  <2>1. /\ pc'[w] \in {"replace", "abort"}
        /\ pc'[w] = "replace" => attempt[w] < Attempts(format[w])
    BY <1>1, <1>4, AfterFailureGoesOn DEF Goto, TypeOK
  <2>2. TypeOK'
    BY <1>1, <1>2, <1>4, AfterFailureGoesOn DEF Goto, TypeOK, Labels
  <2>3. Frame(w)
    BY <1>1, <1>2, <1>4 DEF Goto, Frame, TypeOK
  <2>4. Place(w)' /\ Fresh(w)'
    BY <1>1, <1>2, <1>4, <2>1 DEF Local, Place, Fresh
  <2>5. Reach(w)' /\ Winner(w)' /\ InTime(w)'
    BY <1>1, <1>2, <2>1 DEF Local, Reach, Winner, InTime, LastMoment
  <2>6. QED
    BY <1>4, <2>2, <2>3, <2>4, <2>5, StillKeeps DEF Local
<1>5. QED
  BY <1>3, <1>4 DEF Retry

-----------------------------------------------------------------------------
(* The converter's own steps change the output of its worker, which no      *)
(* other worker names.                                                      *)

LEMMA OutputIsOwn ==
  ASSUME IInv, NEW w \in Workers, child[w].state # "none"
  PROVE  /\ pc[w] \in {"wait", "kill"}
         /\ io[w]["out"] \in Fds
         /\ \A v \in Workers \ {w}, r \in Roles : io[v][r] # io[w]["out"]
<1>1. TypeOK /\ NumbersOK /\ Local(w)
  BY DEF IInv
<1>2. pc[w] \in {"wait", "kill"} /\ io[w]["out"] # NoFd
  BY <1>1 DEF Local, Place
<1>3. io[w]["out"] \in Fds
  BY <1>1, <1>2 DEF TypeOK, Roles
<1>4. table[io[w]["out"]].owner = w
  BY <1>1, <1>2 DEF NumbersOK, Roles
<1>5. ASSUME NEW v \in Workers \ {w}, NEW r \in Roles
      PROVE  io[v][r] # io[w]["out"]
  BY <1>1, <1>2, <1>4 DEF NumbersOK
<1>6. QED
  BY <1>2, <1>3, <1>5

(* Another content for the output at hand.                                  *)
LEMMA ContentKeeps ==
  ASSUME IInv, NEW w \in Workers, child[w].state # "none",
         UNCHANGED <<pc, format, io, attempt, clock, due, got>>,
         table' \in TableType, child' \in ChildType,
         \A n \in Fds : /\ table'[n].owner = table[n].owner
                       /\ table'[n].role = table[n].role
                       /\ table'[n].cloexec = table[n].cloexec,
         \A n \in Fds \ {io[w]["out"]} : table'[n] = table[n],
         \A v \in Workers \ {w} : child'[v] = child[v],
         child'[w].reach = child[w].reach,
         child'[w].state # "none",
         table'[io[w]["out"]].wrote \subseteq {attempt[w]},
         child'[w].state = "succeeded" =>
           (table'[io[w]["out"]].wrote # {} => table'[io[w]["out"]].whole)
  PROVE  IInv'
<1> DEFINE out == io[w]["out"]
<1>1. TypeOK /\ NumbersOK /\ CloexecOK /\ Local(w)
  BY DEF IInv
<1>2. /\ pc[w] \in {"wait", "kill"} /\ out \in Fds
      /\ \A v \in Workers \ {w}, r \in Roles : io[v][r] # out
  BY OutputIsOwn
<1>3. TypeOK'
  BY <1>1 DEF TypeOK, TableType, ChildType
<1>4. ASSUME NEW v \in Workers, NEW r \in Roles, io[v][r] # NoFd
      PROVE  /\ table'[io[v][r]].owner = v /\ table'[io[v][r]].role = r
             /\ v # w => table'[io[v][r]] = table[io[v][r]]
  <2>1. io[v][r] \in Fds /\ table[io[v][r]].owner = v /\ table[io[v][r]].role = r
    BY <1>1, <1>4 DEF TypeOK, NumbersOK
  <2>2. v # w => io[v][r] \in Fds \ {out}
    BY <1>2, <2>1
  <2>3. QED
    BY <2>1, <2>2
<1>5. NumbersOK'
  BY <1>1, <1>4 DEF NumbersOK
<1>6. CloexecOK'
  BY <1>1 DEF CloexecOK
<1>7. Frame(w)
  BY <1>4 DEF Frame
<1>8. Place(w)'
  BY <1>1, <1>2 DEF Local, Place
<1>9. Fresh(w)'
  BY <1>2 DEF Fresh
<1>10. Reach(w)' /\ Winner(w)' /\ InTime(w)'
  BY <1>1, <1>2 DEF Local, Reach, Winner, InTime, LastMoment
<1>11. QED
  BY <1>3, <1>5, <1>6, <1>7, <1>8, <1>9, <1>10, Assemble DEF Local

LEMMA ChildWritesKeeps ==
  ASSUME IInv, NEW w \in Workers, ChildWrites(w)
  PROVE  IInv'
<1> DEFINE out == io[w]["out"]
           more == table[out].wrote \cup {attempt[w]}
<1>1. TypeOK /\ Local(w) /\ out \in Fds /\ child[w].state = "running"
  BY OutputIsOwn DEF IInv, ChildWrites
<1>2. attempt[w] \in 1 .. 3 /\ table[out].wrote \subseteq {attempt[w]}
  BY <1>1 DEF Local, Fresh, TypeOK, Fds, NoFd
<1>3. more \in SUBSET (1 .. 3) /\ more \subseteq {attempt[w]}
  BY <1>2
<1>4. /\ table' = [table EXCEPT ![out].wrote = more]
      /\ UNCHANGED <<pc, format, io, attempt, clock, due, child, got>>
  BY DEF ChildWrites
<1> HIDE DEF out, more
<1>5. table \in TableType
  BY <1>1 DEF TypeOK, TableType
<1>6. table' \in TableType
  BY <1>3, <1>4, <1>5 DEF TableType
<1>7. /\ \A n \in Fds : /\ table'[n].owner = table[n].owner
                        /\ table'[n].role = table[n].role
                        /\ table'[n].cloexec = table[n].cloexec
      /\ \A n \in Fds \ {out} : table'[n] = table[n]
      /\ table'[out].wrote = more
  BY <1>1, <1>4, <1>5 DEF TableType
<1>8. child' \in ChildType
  BY <1>1, <1>4 DEF TypeOK, ChildType
<1>9. QED
  BY <1>1, <1>3, <1>4, <1>6, <1>7, <1>8, ContentKeeps DEF out

LEMMA ChildExitsKeeps ==
  ASSUME IInv, NEW w \in Workers, ChildExits(w)
  PROVE  IInv'
<1> DEFINE out == io[w]["out"]
           all == table[out].whole \/ table[out].wrote # {}
<1>1. TypeOK /\ Local(w) /\ out \in Fds /\ child[w].state = "running"
  BY OutputIsOwn DEF IInv, ChildExits
<1>2. table[out].wrote \subseteq {attempt[w]}
  BY <1>1 DEF Local, Fresh, Fds, NoFd
<1>3. table \in TableType /\ child \in ChildType
  BY <1>1 DEF TypeOK, TableType, ChildType
<1>4. all \in BOOLEAN /\ (table[out].wrote # {} => all)
  OBVIOUS
<1>5. UNCHANGED <<pc, format, io, attempt, clock, due, got>>
  BY DEF ChildExits
<1>6. \/ /\ child' = [child EXCEPT ![w].state = "succeeded"]
         /\ table' = [table EXCEPT ![out].whole = all]
      \/ /\ child' = [child EXCEPT ![w].state = "failed"]
         /\ table' = table
  BY DEF ChildExits
<1> HIDE DEF out, all
<1>7. /\ child' \in ChildType
      /\ \A v \in Workers \ {w} : child'[v] = child[v]
      /\ child'[w].reach = child[w].reach
      /\ child'[w].state \in {"succeeded", "failed"}
  BY <1>3, <1>6 DEF ChildType
<1>8. CASE table' = [table EXCEPT ![out].whole = all]
  <2>1. table' \in TableType
    BY <1>3, <1>4, <1>8 DEF TableType
  <2>2. /\ \A n \in Fds : /\ table'[n].owner = table[n].owner
                          /\ table'[n].role = table[n].role
                          /\ table'[n].cloexec = table[n].cloexec
        /\ \A n \in Fds \ {out} : table'[n] = table[n]
        /\ table'[out].wrote = table[out].wrote
        /\ table'[out].whole = all
    BY <1>1, <1>3, <1>8 DEF TableType
  <2>3. QED
    BY <1>1, <1>2, <1>4, <1>5, <1>7, <2>1, <2>2, ContentKeeps DEF out
<1>9. CASE child' = [child EXCEPT ![w].state = "failed"] /\ table' = table
  <2>1. child'[w].state = "failed"
    BY <1>3, <1>9 DEF ChildType
  <2>2. QED
    BY <1>1, <1>2, <1>3, <1>5, <1>7, <1>9, <2>1, ContentKeeps DEF out
<1>10. QED
  BY <1>6, <1>8, <1>9

-----------------------------------------------------------------------------
(* The invariant.                                                           *)

LEMMA Initially == Init => IInv
<1> SUFFICES ASSUME Init PROVE IInv
  OBVIOUS
<1> USE DEF Init
<1>1. FreeFd.owner = Nobody /\ FreeFd.cloexec
  BY DEF FreeFd, Memfd
<1>2. TypeOK
  <2>1. table \in TableType
    BY DEF TableType, FreeFd, Memfd
  <2>2. io \in IoType
    BY DEF IoType, NoIo
  <2>3. child \in ChildType
    BY DEF NoChild, ChildType
  <2>4. got \in [Workers -> ResultType]
    BY DEF Nothing, ResultType
  <2>5. QED
    BY <2>1, <2>2, <2>3, <2>4 DEF TypeOK, Labels, TableType, IoType, ChildType, ResultType
<1>3. NumbersOK /\ CloexecOK
  BY <1>1, NobodyAssumption DEF NumbersOK, CloexecOK, NoIo, Roles
<1>4. ASSUME NEW w \in Workers
      PROVE  Local(w)
  <2>1. Place(w) /\ Fresh(w)
    BY DEF Place, Fresh, NoIo, Roles, NoChild
  <2>2. Reach(w) /\ Winner(w) /\ InTime(w)
    BY LastMomentIsLate DEF Reach, Winner, InTime, NoChild, LastMoment
  <2>3. QED
    BY <2>1, <2>2 DEF Local
<1>5. QED
  BY <1>2, <1>3, <1>4 DEF IInv

LEMMA StepKeeps ==
  ASSUME IInv, NEW w \in Workers, Step(w)
  PROVE  IInv'
<1>1. CASE Decline(w) \/ OpenFails(w) \/ Abort(w) \/ Finish(w)
  BY <1>1, DeclineKeeps, OpenFailsKeeps, AbortKeeps, FinishKeeps
<1>2. CASE OpenIn(w) \/ OpenOut(w) \/ OpenMeta(w)
  BY <1>2, OpenInKeeps, OpenOutKeeps, OpenMetaKeeps
<1>3. CASE BeginChain(w) \/ Fork(w) \/ NoFork(w)
  BY <1>3, BeginChainKeeps, ForkKeeps, NoForkKeeps
<1>4. CASE Poll(w) \/ Reap(w) \/ Kill(w)
  BY <1>4, PollKeeps, ReapKeeps, KillKeeps
<1>5. CASE CloseSpent(w) \/ Retry(w)
  BY <1>5, CloseSpentKeeps, RetryKeeps
<1>6. QED
  BY <1>1, <1>2, <1>3, <1>4, <1>5 DEF Step

LEMMA Inductive == IInv /\ [Next]_vars => IInv'
<1> SUFFICES ASSUME IInv, [Next]_vars PROVE IInv'
  OBVIOUS
<1>1. CASE Next
  <2>1. PICK w \in Workers : Begin(w) \/ Step(w) \/ ChildWrites(w) \/ ChildExits(w)
    BY <1>1 DEF Next
  <2>2. QED
    BY <2>1, BeginKeeps, StepKeeps, ChildWritesKeeps, ChildExitsKeeps
<1>2. CASE UNCHANGED vars
  <2>1. TypeOK' /\ NumbersOK' /\ CloexecOK'
    BY <1>2 DEF IInv, vars, TypeOK, NumbersOK, CloexecOK
  <2>2. ASSUME NEW w \in Workers
        PROVE  Local(w)'
    BY <1>2 DEF IInv, vars, Local, Place, Fresh, Reach, Winner, InTime, LastMoment
  <2>3. QED
    BY <2>1, <2>2 DEF IInv
<1>3. QED
  BY <1>1, <1>2

LEMMA Always == Spec => []IInv
BY Initially, Inductive, PTL DEF Spec

-----------------------------------------------------------------------------
(* Theorems.                                                                *)

(* Types, for any number of workers and descriptors; no chain makes more    *)
(* than three attempts.                                                     *)
THEOREM TypeCorrect == Spec => []TypeOK
<1>1. IInv => TypeOK
  BY DEF IInv
<1>2. QED
  BY <1>1, Always, PTL

(* Every descriptor is closed once and by its owner, whatever fails.        *)
THEOREM DescriptorsOwned == Spec => []OwnDescriptors
<1>1. IInv => OwnDescriptors
  BY DEF IInv, OwnDescriptors, NumbersOK, Local, Place
<1>2. QED
  BY <1>1, Always, PTL

(* A converter can reach the memfds of its own conversion only.             *)
THEOREM ConvertersApart == Spec => []Apart
<1>1. IInv => Apart
  BY DEF IInv, Apart, Local, Reach
<1>2. QED
  BY <1>1, Always, PTL

(* What a conversion returns is all that the attempt which succeeded wrote. *)
THEOREM WinnerReturned == Spec => []WinnersOutput
<1>1. IInv => WinnersOutput
  BY DEF IInv, WinnersOutput, Local, Winner
<1>2. QED
  BY <1>1, Always, PTL

(* A chain and its children are within the budget, the rounding of one      *)
(* second and one sleep.                                                    *)
THEOREM BudgetKept == Spec => []WithinBudget
<1>1. IInv => WithinBudget
  BY DEF IInv, WithinBudget, Local, Place, InTime
<1>2. QED
  BY <1>1, Always, PTL
=============================================================================
