-------------------------- MODULE WorkQueueProofs --------------------------
(***************************************************************************)
(* The work queue, proved for every number of workers and connections,     *)
(* every capacity and both kinds of push.                                  *)
(***************************************************************************)
EXTENDS WorkQueue, Sequences, FiniteSetTheorems,
        SequenceTheorems, TLAPS

USE QueueAssumption

-----------------------------------------------------------------------------
(* The inductive invariant.                                                *)

(* The ring is live from head to tail and holds connections only.          *)
RingOK ==
  /\ tail = (head + count) % Capacity
  /\ \A i \in 1 .. count : fds[SlotAt(i)] \in Conns

(* Where a thread is says what it holds.                                   *)
ThreadsOK ==
  /\ \A w \in Workers : wpc[w] = "serving" <=> serving[w] # NoConn
  /\ ppc \in {"pushing", "blocked"} <=> held # NoConn
  /\ shutdown <=> ppc \in {"joining", "joined"}
  /\ ppc = "joined" => \A w \in Workers : wpc[w] = "exited"

(* No worker leaves early and none sleeps through the shutdown.            *)
ShutdownOK ==
  /\ \A w \in Workers : wpc[w] = "exited" => shutdown /\ count = 0
  /\ shutdown => Sleeping = {}

IInv ==
  TypeOK /\ RingOK /\ ThreadsOK /\ ShutdownOK /\ OneOwner /\ NoLostWakeup

-----------------------------------------------------------------------------
(* Arithmetic of the ring.                                                 *)

LEMMA Wrap ==
  ASSUME NEW x \in 0 .. Capacity - 1, NEW k \in 0 .. Capacity
  PROVE  (x + k) % Capacity = IF x + k < Capacity THEN x + k ELSE x + k - Capacity
OBVIOUS

LEMMA SlotAtIs ==
  ASSUME TypeOK, NEW i \in 1 .. Capacity + 1
  PROVE  SlotAt(i) = IF head + i - 1 < Capacity THEN head + i - 1
                     ELSE head + i - 1 - Capacity
<1>1. i - 1 \in 0 .. Capacity
  OBVIOUS
<1>2. (head + (i - 1)) % Capacity =
        IF head + (i - 1) < Capacity THEN head + (i - 1)
        ELSE head + (i - 1) - Capacity
  BY <1>1, Wrap DEF TypeOK
<1>3. head + i - 1 = head + (i - 1)
  BY DEF TypeOK
<1>4. QED
  BY <1>2, <1>3 DEF SlotAt

(* Places of the ring are slots, and different places different slots.     *)
LEMMA SlotAtInjective ==
  ASSUME TypeOK
  PROVE  /\ \A i \in 1 .. Capacity : SlotAt(i) \in 0 .. Capacity - 1
         /\ \A i, j \in 1 .. Capacity : SlotAt(i) = SlotAt(j) => i = j
<1>1. \A i \in 1 .. Capacity :
        SlotAt(i) = IF head + i - 1 < Capacity THEN head + i - 1
                    ELSE head + i - 1 - Capacity
  BY SlotAtIs
<1>2. head \in 0 .. Capacity - 1
  BY DEF TypeOK
<1>3. QED
  BY <1>1, <1>2

(* The place after the last is where tail points.                          *)
LEMMA TailIs ==
  ASSUME TypeOK, RingOK
  PROVE  tail = SlotAt(count + 1)
<1>1. head + (count + 1) - 1 = head + count
  BY DEF TypeOK
<1>2. QED
  BY <1>1 DEF RingOK, SlotAt

(* Appending behind tail.                                                  *)
LEMMA RingPush ==
  ASSUME TypeOK, RingOK, count # Capacity, NEW c \in Conns,
         fds' = [fds EXCEPT ![tail] = c],
         tail' = (tail + 1) % Capacity, count' = count + 1, head' = head
  PROVE  /\ tail' = (head' + count') % Capacity
         /\ \A i \in 1 .. count : fds'[SlotAt(i)'] = fds[SlotAt(i)]
         /\ fds'[SlotAt(count)'] = c
<1>1. \A i \in 1 .. Capacity : SlotAt(i)' = SlotAt(i)
  BY DEF SlotAt
<1>2. count + 1 \in 1 .. Capacity /\ count \in 0 .. Capacity
  BY DEF TypeOK
<1>3. tail = SlotAt(count + 1) /\ tail \in 0 .. Capacity - 1
  BY TailIs DEF TypeOK
<1>4. \A i \in 1 .. count : SlotAt(i) # tail /\ SlotAt(i) \in 0 .. Capacity - 1
  BY <1>2, <1>3, SlotAtInjective
<1>5. \A i \in 1 .. count : fds'[SlotAt(i)] = fds[SlotAt(i)]
  BY <1>4 DEF TypeOK
<1>6. fds'[tail] = c
  BY <1>3 DEF TypeOK
<1>7. tail' = (head' + count') % Capacity
  <2>1. tail = IF head + count < Capacity THEN head + count
               ELSE head + count - Capacity
    BY <1>2, Wrap DEF TypeOK, RingOK
  <2>2. (head' + count') % Capacity =
          IF head' + count' < Capacity THEN head' + count'
          ELSE head' + count' - Capacity
    <3>1. head' \in 0 .. Capacity - 1 /\ count' \in 0 .. Capacity
      BY <1>2 DEF TypeOK
    <3>2. QED
      BY <3>1, Wrap
  <2>3. (tail + 1) % Capacity =
          IF tail + 1 < Capacity THEN tail + 1 ELSE tail + 1 - Capacity
    BY <1>3
  <2>4. head \in 0 .. Capacity - 1
    BY DEF TypeOK
  <2>5. QED
    BY <1>2, <2>1, <2>2, <2>3, <2>4
<1>8. SlotAt(count)' = tail
  <2>1. head' + count' - 1 = head + count
    BY <1>2 DEF TypeOK
  <2>2. QED
    BY <2>1 DEF SlotAt, RingOK
<1>9. QED
  BY <1>1, <1>2, <1>5, <1>6, <1>7, <1>8

(* Taking from head.                                                       *)
LEMMA RingPop ==
  ASSUME TypeOK, RingOK, count # 0,
         head' = (head + 1) % Capacity, count' = count - 1,
         fds' = fds, tail' = tail
  PROVE  /\ tail' = (head' + count') % Capacity
         /\ \A i \in 1 .. count' : fds'[SlotAt(i)'] = fds[SlotAt(i + 1)]
         /\ SlotAt(1) = head
<1>1. /\ head \in 0 .. Capacity - 1
      /\ count \in 1 .. Capacity
  BY DEF TypeOK
<1>2. head' = IF head + 1 < Capacity THEN head + 1 ELSE 0
  BY <1>1
<1>3. head' \in 0 .. Capacity - 1
  BY <1>1, <1>2
<1>4. SlotAt(1) = head
  BY <1>1, SlotAtIs
<1>5. ASSUME NEW i \in 1 .. count'
      PROVE  SlotAt(i)' = SlotAt(i + 1)
  <2>1. (head' + (i - 1)) % Capacity =
          IF head' + (i - 1) < Capacity THEN head' + (i - 1)
          ELSE head' + (i - 1) - Capacity
    <3>1. i - 1 \in 0 .. Capacity
      BY <1>1
    <3>2. QED
      BY <1>3, <3>1, Wrap
  <2>2. SlotAt(i + 1) = IF head + i < Capacity THEN head + i
                        ELSE head + i - Capacity
    <3>1. i + 1 \in 1 .. Capacity + 1
      BY <1>1
    <3>2. QED
      BY <1>1, <3>1, SlotAtIs
  <2>3. SlotAt(i)' = (head' + (i - 1)) % Capacity
    <3>1. head' + i - 1 = head' + (i - 1)
      BY <1>1, <1>3
    <3>2. QED
      BY <3>1 DEF SlotAt
  <2>4. CASE head + 1 < Capacity
    <3>1. head' = head + 1
      BY <1>1, <1>2, <2>4
    <3>2. head' + (i - 1) = head + i
      BY <1>1, <3>1
    <3>3. QED
      BY <1>1, <2>1, <2>2, <2>3, <3>2
  <2>5. CASE ~ (head + 1 < Capacity)
    <3>1. head' = 0 /\ head = Capacity - 1
      BY <1>1, <1>2, <2>5
    <3>2. i \in 1 .. Capacity - 1
      BY <1>1
    <3>3. /\ head' + (i - 1) = i - 1 /\ i - 1 < Capacity
          /\ ~ (head + i < Capacity) /\ head + i - Capacity = i - 1
      BY <3>1, <3>2
    <3>4. QED
      BY <2>1, <2>2, <2>3, <3>3
  <2>6. QED
    BY <2>4, <2>5
<1>6. tail' = (head' + count') % Capacity
  <2>1. tail = IF head + count < Capacity THEN head + count
               ELSE head + count - Capacity
    BY <1>1 DEF RingOK
  <2>2. (head' + count') % Capacity =
          IF head' + count' < Capacity THEN head' + count'
          ELSE head' + count' - Capacity
    <3>1. count' \in 0 .. Capacity
      BY <1>1
    <3>2. QED
      BY <1>3, <3>1, Wrap
  <2>3. QED
    BY <1>1, <1>2, <2>1, <2>2
<1>7. QED
  BY <1>4, <1>5, <1>6

-----------------------------------------------------------------------------
(* The initial state.                                                      *)

LEMMA InitOK == Init => IInv
<1> SUFFICES ASSUME Init PROVE IInv
  OBVIOUS
<1>1. TypeOK
  <2>1. shutdown \in BOOLEAN /\ running \in BOOLEAN /\ is_signer \in BOOLEAN
    BY DEF Init
  <2>2. 0 \in 0 .. Capacity - 1 /\ 0 \in 0 .. Capacity
    OBVIOUS
  <2>3. QED
    BY <2>1, <2>2, Zenon DEF Init, TypeOK
<1>2. RingOK
  BY DEF Init, RingOK
<1>3. ThreadsOK
  BY DEF Init, ThreadsOK
<1>4. Sleeping = {}
  BY DEF Init, Sleeping
<1>5. ShutdownOK /\ NoLostWakeup
  BY <1>4 DEF Init, ShutdownOK, NoLostWakeup
<1>6. OneOwner
  BY DEF Init, OneOwner, QueuePlaces, Servers
<1>7. QED
  BY <1>1, <1>2, <1>3, <1>5, <1>6 DEF IInv

-----------------------------------------------------------------------------
(* Each part of the invariant is kept by every step.                       *)

(* The oldest connection, when there is one.                               *)
LEMMA HeadIs ==
  ASSUME TypeOK, RingOK, count # 0
  PROVE  fds[head] \in Conns /\ SlotAt(1) = head
<1>1. 1 \in 1 .. count /\ 1 \in 1 .. Capacity + 1
  BY DEF TypeOK
<1>2. SlotAt(1) = head
  BY <1>1, SlotAtIs DEF TypeOK
<1>3. QED
  BY <1>1, <1>2 DEF RingOK

(* The connection the accept loop pushes is one.                           *)
LEMMA HeldIs ==
  ASSUME TypeOK, ThreadsOK, ppc = "pushing"
  PROVE  held \in Conns
BY DEF TypeOK, ThreadsOK

LEMMA TypeStep ==
  TypeOK /\ RingOK /\ ThreadsOK /\ [Next]_vars => TypeOK'
<1> SUFFICES ASSUME TypeOK, RingOK, ThreadsOK, [Next]_vars
             PROVE  TypeOK'
  OBVIOUS
<1>1. ASSUME NEW c \in Conns, Accept(c)
      PROVE  TypeOK'
  BY <1>1 DEF TypeOK, Accept, queueVars, workerVars
<1>2. CASE Signal
  BY <1>2 DEF TypeOK, Signal, queueVars, workerVars
<1>3. CASE Push
  <2>1. held \in Conns
    BY <1>3, HeldIs DEF Push
  <2>2. wpc' \in [Workers -> {"popping", "waiting", "serving", "exited"}]
    BY <1>3 DEF TypeOK, Push, Enqueue, SignalNotEmpty, Sleeping
  <2>3. tail' \in 0 .. Capacity - 1 /\ count' \in 0 .. Capacity
    BY <1>3 DEF TypeOK, Push, Enqueue
  <2>4. fds' \in [0 .. Capacity - 1 -> Conns \cup {NoConn}]
    BY <1>3, <2>1 DEF TypeOK, Push, Enqueue
  <2>5. QED
    BY <1>3, <2>1, <2>2, <2>3, <2>4 DEF TypeOK, Push, Enqueue
<1>4. CASE Shed
  BY <1>4 DEF TypeOK, Shed, queueVars, workerVars
<1>5. CASE Block
  BY <1>5 DEF TypeOK, Block, queueVars, workerVars
<1>6. CASE Shutdown
  BY <1>6 DEF TypeOK, Shutdown
<1>7. CASE Join
  BY <1>7 DEF TypeOK, Join, queueVars, workerVars
<1>8. ASSUME NEW w \in Workers, Pop(w)
      PROVE  TypeOK'
  <2>1. fds[head] \in Conns
    BY <1>8, HeadIs DEF Pop
  <2>2. head' \in 0 .. Capacity - 1 /\ count' \in 0 .. Capacity
    BY <1>8 DEF TypeOK, Pop
  <2>3. QED
    BY <1>8, <2>1, <2>2 DEF TypeOK, Pop
<1>9. ASSUME NEW w \in Workers, Sleep(w) \/ Exit(w) \/ Finish(w) \/ SpuriousWake(w)
      PROVE  TypeOK'
  BY <1>9 DEF TypeOK, Sleep, Exit, Finish, SpuriousWake, queueVars, loopVars
<1>10. CASE SpuriousUnblock
  BY <1>10 DEF TypeOK, SpuriousUnblock, queueVars, workerVars
<1>11. CASE UNCHANGED vars
  BY <1>11 DEF TypeOK, vars, queueVars, workerVars, loopVars
<1>12. QED
  BY <1>1, <1>2, <1>3, <1>4, <1>5, <1>6, <1>7, <1>8, <1>9, <1>10, <1>11
     DEF Next, LoopStep, PopStep

LEMMA RingStep ==
  TypeOK /\ RingOK /\ ThreadsOK /\ [Next]_vars => RingOK'
<1> SUFFICES ASSUME TypeOK, RingOK, ThreadsOK, [Next]_vars
             PROVE  RingOK'
  OBVIOUS
<1>1. CASE UNCHANGED <<fds, head, tail, count>>
  BY <1>1 DEF RingOK, SlotAt
<1>2. CASE Push
  <2>1. /\ tail' = (head' + count') % Capacity
        /\ \A i \in 1 .. count : fds'[SlotAt(i)'] = fds[SlotAt(i)]
        /\ fds'[SlotAt(count)'] \in Conns
    BY <1>2, HeldIs, RingPush DEF Push, Enqueue
  <2>2. \A i \in 1 .. count' : i \in 1 .. count \/ i = count'
    BY <1>2 DEF TypeOK, Push, Enqueue
  <2>3. \A i \in 1 .. count' : fds'[SlotAt(i)'] \in Conns
    <3>1. ASSUME NEW i \in 1 .. count
          PROVE  fds'[SlotAt(i)'] \in Conns
      BY <2>1 DEF RingOK
    <3>2. ASSUME NEW i \in 1 .. count', i = count'
          PROVE  fds'[SlotAt(i)'] \in Conns
      BY <2>1, <3>2 DEF SlotAt
    <3>3. QED
      BY <2>2, <3>1, <3>2
  <2>4. QED
    BY <2>1, <2>3 DEF RingOK
<1>3. ASSUME NEW w \in Workers, Pop(w)
      PROVE  RingOK'
  <2>1. /\ tail' = (head' + count') % Capacity
        /\ \A i \in 1 .. count' : fds'[SlotAt(i)'] = fds[SlotAt(i + 1)]
    BY <1>3, RingPop DEF Pop
  <2>2. \A i \in 1 .. count' : i + 1 \in 1 .. count
    BY <1>3 DEF TypeOK, Pop
  <2>3. \A i \in 1 .. count' : fds'[SlotAt(i)'] \in Conns
    BY <2>1, <2>2 DEF RingOK
  <2>4. QED
    BY <2>1, <2>3 DEF RingOK
<1>4. QED
  BY <1>1, <1>2, <1>3
     DEF Next, LoopStep, PopStep, Accept, Signal, Shed, Block, Shutdown, Join,
         Sleep, Exit, Finish, SpuriousWake, SpuriousUnblock, vars, queueVars

LEMMA ThreadsStep ==
  TypeOK /\ RingOK /\ ThreadsOK /\ [Next]_vars => ThreadsOK'
<1> SUFFICES ASSUME TypeOK, RingOK, ThreadsOK, [Next]_vars
             PROVE  ThreadsOK'
  OBVIOUS
<1>1. ASSUME NEW c \in Conns, Accept(c)
      PROVE  ThreadsOK'
  BY <1>1 DEF TypeOK, ThreadsOK, Accept, queueVars, workerVars
<1>2. CASE Signal
  BY <1>2 DEF ThreadsOK, Signal, queueVars, workerVars
<1>3. CASE Push
  BY <1>3 DEF TypeOK, ThreadsOK, Push, Enqueue, SignalNotEmpty, Sleeping
<1>4. CASE Shed \/ Block \/ SpuriousUnblock
  BY <1>4 DEF ThreadsOK, Shed, Block, SpuriousUnblock, queueVars, workerVars
<1>5. CASE Shutdown
  BY <1>5 DEF TypeOK, ThreadsOK, Shutdown
<1>6. CASE Join
  BY <1>6 DEF ThreadsOK, Join, queueVars, workerVars
<1>7. ASSUME NEW w \in Workers, Pop(w)
      PROVE  ThreadsOK'
  <2>1. fds[head] \in Conns
    BY <1>7, HeadIs DEF Pop
  <2>2. ppc # "joined"
    BY <1>7 DEF ThreadsOK, Pop
  <2>3. QED
    BY <1>7, <2>1, <2>2 DEF TypeOK, ThreadsOK, Pop
<1>8. ASSUME NEW w \in Workers, Sleep(w) \/ Exit(w) \/ Finish(w) \/ SpuriousWake(w)
      PROVE  ThreadsOK'
  BY <1>8 DEF TypeOK, ThreadsOK, Sleep, Exit, Finish, SpuriousWake,
              queueVars, loopVars
<1>9. CASE UNCHANGED vars
  BY <1>9 DEF ThreadsOK, vars, queueVars, workerVars, loopVars
<1>10. QED
  BY <1>1, <1>2, <1>3, <1>4, <1>5, <1>6, <1>7, <1>8, <1>9
     DEF Next, LoopStep, PopStep

LEMMA ShutdownStep ==
  TypeOK /\ ThreadsOK /\ ShutdownOK /\ [Next]_vars => ShutdownOK'
<1> SUFFICES ASSUME TypeOK, ThreadsOK, ShutdownOK, [Next]_vars
             PROVE  ShutdownOK'
  OBVIOUS
<1>1. CASE UNCHANGED <<wpc, count, shutdown>>
  BY <1>1 DEF ShutdownOK, Sleeping
<1>2. CASE Push
  BY <1>2 DEF TypeOK, ShutdownOK, Push, Enqueue, SignalNotEmpty, Sleeping
<1>3. CASE Shutdown
  BY <1>3 DEF TypeOK, ThreadsOK, ShutdownOK, Shutdown, Sleeping
<1>4. ASSUME NEW w \in Workers, Pop(w)
      PROVE  ShutdownOK'
  BY <1>4 DEF TypeOK, ShutdownOK, Pop, Sleeping
<1>5. ASSUME NEW w \in Workers, Sleep(w) \/ Exit(w) \/ Finish(w) \/ SpuriousWake(w)
      PROVE  ShutdownOK'
  BY <1>5 DEF TypeOK, ShutdownOK, Sleep, Exit, Finish, SpuriousWake, Sleeping,
              queueVars
<1>6. QED
  BY <1>1, <1>2, <1>3, <1>4, <1>5
     DEF Next, LoopStep, PopStep, Accept, Signal, Shed, Block, Join,
         SpuriousUnblock, vars, queueVars, workerVars

(* Signalling when someone sleeps adds one awake worker.                   *)
LEMMA WakeOne ==
  ASSUME TypeOK, NEW w \in Workers, w \notin Awake,
         wpc' = [wpc EXCEPT ![w] = "popping"]
  PROVE  Cardinality(Awake') = Cardinality(Awake) + 1
<1>1. IsFiniteSet(Awake)
  BY FS_Subset DEF Awake
<1>2. Awake' = Awake \cup {w}
  BY DEF TypeOK, Awake
<1>3. QED
  BY <1>1, <1>2, FS_AddElement

LEMMA WakeupStep ==
  TypeOK /\ RingOK /\ ThreadsOK /\ ShutdownOK /\ NoLostWakeup /\ [Next]_vars
    => NoLostWakeup'
<1> SUFFICES ASSUME TypeOK, RingOK, ThreadsOK, ShutdownOK, NoLostWakeup,
                    [Next]_vars
             PROVE  NoLostWakeup'
  OBVIOUS
<1>1. IsFiniteSet(Awake) /\ Cardinality(Awake) \in Nat
  BY FS_Subset, FS_CardinalityType DEF Awake
<1>2. IsFiniteSet(Awake') /\ Cardinality(Awake') \in Nat
  BY FS_Subset, FS_CardinalityType DEF Awake
<1>3. CASE UNCHANGED <<wpc, count, ppc>>
  BY <1>3 DEF NoLostWakeup, Sleeping, Awake
<1>4. CASE UNCHANGED <<wpc, count>> /\ (ppc' = "blocked" => count = Capacity)
  BY <1>4 DEF NoLostWakeup, Sleeping, Awake
<1>5. CASE Push
  <2>1. ppc' # "blocked"
    BY <1>5 DEF Push, Enqueue
  <2>2. CASE Sleeping = {}
    <3>1. Sleeping' = {}
      BY <1>5, <2>2 DEF Push, Enqueue, SignalNotEmpty, Sleeping
    <3>2. QED
      BY <2>1, <3>1 DEF NoLostWakeup
  <2>3. CASE Sleeping # {}
    <3>1. PICK w \in Sleeping : wpc' = [wpc EXCEPT ![w] = "popping"]
      BY <1>5, <2>3 DEF Push, Enqueue, SignalNotEmpty
    <3>2. w \in Workers /\ w \notin Awake
      BY DEF Sleeping, Awake
    <3>3. Cardinality(Awake') = Cardinality(Awake) + 1
      BY <3>1, <3>2, WakeOne
    <3>4. count' = count + 1 /\ count \in Nat
      BY <1>5 DEF Push, Enqueue, TypeOK
    <3>5. count <= Cardinality(Awake)
      BY <2>3 DEF NoLostWakeup
    <3>6. count' <= Cardinality(Awake')
      BY <1>1, <3>3, <3>4, <3>5
    <3>7. QED
      BY <2>1, <3>6 DEF NoLostWakeup
  <2>4. QED
    BY <2>2, <2>3
<1>6. CASE Shutdown
  <2>1. Sleeping' = {} /\ ppc' # "blocked"
    BY <1>6 DEF TypeOK, Shutdown, Sleeping
  <2>2. QED
    BY <2>1 DEF NoLostWakeup
<1>7. ASSUME NEW w \in Workers, Pop(w)
      PROVE  NoLostWakeup'
  <2>1. w \in Awake
    BY <1>7 DEF Pop, Awake
  <2>2. Awake' = Awake \ {w} /\ Sleeping' = Sleeping
    BY <1>7 DEF TypeOK, Pop, Awake, Sleeping
  <2>3. Cardinality(Awake') = Cardinality(Awake) - 1
    BY <1>1, <2>1, <2>2, FS_RemoveElement
  <2>4. count' = count - 1 /\ count \in Nat /\ ppc' # "blocked"
    BY <1>7 DEF Pop, TypeOK
  <2>5. Sleeping' # {} => count' <= Cardinality(Awake')
    BY <1>1, <2>2, <2>3, <2>4 DEF NoLostWakeup
  <2>6. QED
    BY <2>4, <2>5 DEF NoLostWakeup
<1>8. ASSUME NEW w \in Workers, Sleep(w) \/ Exit(w)
      PROVE  NoLostWakeup'
  <2>1. count' = 0 /\ count = 0 /\ ppc' = ppc
    BY <1>8 DEF Sleep, Exit, queueVars, loopVars
  <2>2. count' <= Cardinality(Awake')
    BY <1>2, <2>1
  <2>3. QED
    BY <2>1, <2>2 DEF NoLostWakeup
<1>9. ASSUME NEW w \in Workers, Finish(w) \/ SpuriousWake(w)
      PROVE  NoLostWakeup'
  <2>1. w \notin Awake /\ wpc' = [wpc EXCEPT ![w] = "popping"]
    BY <1>9 DEF Finish, SpuriousWake, Awake
  <2>2. Cardinality(Awake') = Cardinality(Awake) + 1
    BY <2>1, WakeOne
  <2>3. count' = count /\ count \in Nat /\ ppc' = ppc
    BY <1>9 DEF Finish, SpuriousWake, queueVars, loopVars, TypeOK
  <2>4. Sleeping' # {} => Sleeping # {}
    BY <2>1 DEF TypeOK, Sleeping
  <2>5. Sleeping' # {} => count' <= Cardinality(Awake')
    BY <1>1, <2>2, <2>3, <2>4 DEF NoLostWakeup
  <2>6. QED
    BY <2>3, <2>5 DEF NoLostWakeup
<1>10. QED
  <2>1. ASSUME NEW c \in Conns, Accept(c)
        PROVE  UNCHANGED <<wpc, count>> /\ ppc' # "blocked"
    BY <2>1 DEF Accept, queueVars, workerVars
  <2>2. ASSUME Shed \/ Join \/ SpuriousUnblock
        PROVE  UNCHANGED <<wpc, count>> /\ ppc' # "blocked"
    BY <2>2 DEF Shed, Join, SpuriousUnblock, queueVars, workerVars
  <2>3. ASSUME Block
        PROVE  UNCHANGED <<wpc, count>> /\ count = Capacity
    BY <2>3 DEF Block, queueVars, workerVars
  <2>4. ASSUME Signal \/ UNCHANGED vars
        PROVE  UNCHANGED <<wpc, count, ppc>>
    BY <2>4 DEF Signal, vars, queueVars, workerVars, loopVars
  <2>5. QED
    BY <1>3, <1>4, <1>5, <1>6, <1>7, <1>8, <1>9, <2>1, <2>2, <2>3, <2>4
       DEF Next, LoopStep, PopStep

(* Nobody else has the connection the accept loop holds.                   *)
LEMMA HeldAlone ==
  ASSUME TypeOK, ThreadsOK, OneOwner, ppc = "pushing"
  PROVE  /\ held \in Conns /\ conn[held] = "held"
         /\ QueuePlaces(held) = {} /\ Servers(held) = {}
<1>1. held \in Conns
  BY HeldIs
<1>2. conn[held] = "held"
  BY <1>1 DEF OneOwner
<1>3. QED
  BY <1>1, <1>2 DEF OneOwner

(* What the ring holds after a push.                                       *)
LEMMA PlacesPush ==
  ASSUME TypeOK, RingOK, ThreadsOK, OneOwner, Push, NEW c \in Conns
  PROVE  QueuePlaces(c)' = IF c = held THEN {count'} ELSE QueuePlaces(c)
<1>1. /\ held \in Conns
      /\ \A i \in 1 .. count : fds'[SlotAt(i)'] = fds[SlotAt(i)]
      /\ fds'[SlotAt(count)'] = held
  BY HeldIs, RingPush DEF Push, Enqueue
<1>2. \A i \in 1 .. count' : i \in 1 .. count \/ i = count'
  BY DEF TypeOK, Push, Enqueue
<1>3. \A i \in 1 .. count : i \in 1 .. count' /\ i # count'
  BY DEF TypeOK, Push, Enqueue
<1>4. count' \in 1 .. count'
  BY DEF TypeOK, Push, Enqueue
<1>5. QueuePlaces(held) = {}
  BY HeldAlone DEF Push
<1>6. \A i \in 1 .. count' :
        fds'[SlotAt(i)'] = IF i = count' THEN held ELSE fds[SlotAt(i)]
  <2>1. ASSUME NEW i \in 1 .. count', i = count'
        PROVE  fds'[SlotAt(i)'] = held
    BY <1>1, <2>1 DEF SlotAt
  <2>2. QED
    BY <1>1, <1>2, <2>1
<1>7. QueuePlaces(c)' = {i \in 1 .. count' : fds'[SlotAt(i)'] = c}
  BY DEF QueuePlaces
<1>8. QueuePlaces(c) = {i \in 1 .. count : fds[SlotAt(i)] = c}
  BY DEF QueuePlaces
<1>9. \A i \in 1 .. count : held # fds[SlotAt(i)]
  BY <1>5 DEF QueuePlaces
<1>10. CASE c = held
  BY <1>2, <1>4, <1>6, <1>7, <1>9, <1>10
<1>11. CASE c # held
  BY <1>2, <1>3, <1>6, <1>7, <1>8, <1>11
<1>12. QED
  BY <1>10, <1>11

(* What the ring holds after a pop: every place moves forward by one.      *)
LEMMA PlacesPop ==
  ASSUME TypeOK, RingOK, NEW w \in Workers, Pop(w), NEW c \in Conns
  PROVE  QueuePlaces(c)' = {i \in 1 .. count' : i + 1 \in QueuePlaces(c)}
<1>1. \A i \in 1 .. count' : fds'[SlotAt(i)'] = fds[SlotAt(i + 1)]
  BY RingPop DEF Pop
<1>2. \A i \in 1 .. count' : i + 1 \in 1 .. count
  BY DEF TypeOK, Pop
<1>3. QueuePlaces(c)' = {i \in 1 .. count' : fds'[SlotAt(i)'] = c}
  BY DEF QueuePlaces
<1>4. \A i \in 1 .. count' : i + 1 \in QueuePlaces(c) <=> fds[SlotAt(i + 1)] = c
  BY <1>2 DEF QueuePlaces
<1>5. QED
  BY <1>1, <1>3, <1>4

LEMMA OwnerStep ==
  TypeOK /\ RingOK /\ ThreadsOK /\ OneOwner /\ [Next]_vars => OneOwner'
<1> SUFFICES ASSUME TypeOK, RingOK, ThreadsOK, OneOwner, [Next]_vars
             PROVE  OneOwner'
  OBVIOUS
<1>1. CASE UNCHANGED <<fds, head, count, serving, held, conn>>
  BY <1>1 DEF OneOwner, QueuePlaces, SlotAt, Servers
<1>2. ASSUME NEW c \in Conns, Accept(c)
      PROVE  OneOwner'
  <2>1. \A d \in Conns : QueuePlaces(d)' = QueuePlaces(d) /\ Servers(d)' = Servers(d)
    BY <1>2 DEF Accept, QueuePlaces, SlotAt, Servers, queueVars, workerVars
  <2>2. held = NoConn
    BY <1>2 DEF Accept, ThreadsOK
  <2>3. \A d \in Conns : conn'[d] = IF d = c THEN "held" ELSE conn[d]
    BY <1>2 DEF Accept, TypeOK
  <2>4. held' = c /\ conn[c] = "pending"
    BY <1>2 DEF Accept
  <2>5. QED
    BY <2>1, <2>2, <2>3, <2>4 DEF OneOwner
<1>3. CASE Push
  <2>1. \A d \in Conns :
          /\ QueuePlaces(d)' = IF d = held THEN {count'} ELSE QueuePlaces(d)
          /\ Servers(d)' = Servers(d)
    BY <1>3, PlacesPush DEF Push, Enqueue, Servers
  <2>2. /\ held \in Conns /\ conn[held] = "held"
        /\ QueuePlaces(held) = {} /\ Servers(held) = {}
    BY <1>3, HeldAlone DEF Push
  <2>3. \A d \in Conns : conn'[d] = IF d = held THEN "queued" ELSE conn[d]
    BY <1>3 DEF Push, Enqueue, TypeOK
  <2>4. held' = NoConn
    BY <1>3 DEF Push, Enqueue
  <2>5. QED
    BY <2>1, <2>2, <2>3, <2>4 DEF OneOwner
<1>4. CASE Shed
  <2>1. \A d \in Conns : QueuePlaces(d)' = QueuePlaces(d) /\ Servers(d)' = Servers(d)
    BY <1>4 DEF Shed, QueuePlaces, SlotAt, Servers, queueVars, workerVars
  <2>2. /\ held \in Conns /\ conn[held] = "held"
        /\ QueuePlaces(held) = {} /\ Servers(held) = {}
    BY <1>4, HeldAlone DEF Shed
  <2>3. \A d \in Conns : conn'[d] = IF d = held THEN "shed" ELSE conn[d]
    BY <1>4 DEF Shed, TypeOK
  <2>4. held' = NoConn
    BY <1>4 DEF Shed
  <2>5. QED
    BY <2>1, <2>2, <2>3, <2>4 DEF OneOwner
<1>5. ASSUME NEW w \in Workers, Pop(w)
      PROVE  OneOwner'
  <2>0. fds[head] \in Conns /\ SlotAt(1) = head
    BY <1>5, HeadIs DEF Pop
  <2>1. PICK x \in Conns : x = fds[head]
    BY <2>0
  <2>2. 1 \in 1 .. count /\ count' = count - 1
    BY <1>5 DEF Pop, TypeOK
  <2>3. 1 \in QueuePlaces(x)
    BY <2>0, <2>1, <2>2 DEF QueuePlaces
  <2>4. conn[x] = "queued" /\ Servers(x) = {} /\ held # x
    BY <2>1, <2>3 DEF OneOwner
  <2>5. \A i \in QueuePlaces(x) : i = 1
    BY <2>1, <2>3 DEF OneOwner
  <2>6. \A d \in Conns : d # x => 1 \notin QueuePlaces(d)
    BY <2>0, <2>1 DEF QueuePlaces
  <2>7. \A d \in Conns :
          QueuePlaces(d)' = {i \in 1 .. count' : i + 1 \in QueuePlaces(d)}
    BY <1>5, PlacesPop
  <2>8. QueuePlaces(x)' = {}
    <3>1. \A i \in 1 .. count' : i + 1 # 1
      BY <2>2 DEF TypeOK
    <3>2. QED
      BY <2>1, <2>5, <2>7, <3>1
  <2>9. ASSUME NEW d \in Conns, d # x
        PROVE  /\ QueuePlaces(d)' # {} <=> QueuePlaces(d) # {}
               /\ \A i, j \in QueuePlaces(d)' : i = j
    <3>1. \A i \in QueuePlaces(d) : i \in 2 .. count
      BY <2>6, <2>9 DEF QueuePlaces
    <3>2. \A i \in QueuePlaces(d) : i - 1 \in QueuePlaces(d)'
      <4>1. \A i \in QueuePlaces(d) : i - 1 \in 1 .. count' /\ (i - 1) + 1 = i
        BY <2>2, <3>1 DEF TypeOK
      <4>2. QED
        BY <2>7, <4>1
    <3>3. \A i, j \in QueuePlaces(d) : i = j
      BY DEF OneOwner
    <3>4. \A i, j \in 1 .. count' : i + 1 = j + 1 => i = j
      OBVIOUS
    <3>5. QED
      BY <2>7, <3>2, <3>3, <3>4
  <2>10. serving[w] = NoConn
    BY <1>5 DEF Pop, ThreadsOK
  <2>11. \A v \in Workers : serving'[v] = IF v = w THEN x ELSE serving[v]
    BY <1>5, <2>1 DEF Pop, TypeOK
  <2>12. \A d \in Conns : Servers(d)' = IF d = x THEN {w} ELSE Servers(d)
    <3>1. \A d \in Conns : Servers(d)' = {v \in Workers : serving'[v] = d}
      BY DEF Servers
    <3>2. \A d \in Conns : Servers(d) = {v \in Workers : serving[v] = d}
      BY DEF Servers
    <3>3. \A v \in Workers : serving[v] # x
      BY <2>1, <2>4 DEF Servers
    <3>4. w \notin Servers(x) /\ \A d \in Conns : d # NoConn
      BY <2>4
    <3>5. ASSUME NEW d \in Conns
          PROVE  Servers(d)' = IF d = x THEN {w} ELSE Servers(d)
      <4>1. CASE d = x
        BY <2>11, <3>1, <3>3, <4>1
      <4>2. CASE d # x
        BY <2>10, <2>11, <3>1, <3>2, <3>4, <4>2
      <4>3. QED
        BY <4>1, <4>2
    <3>6. QED
      BY <3>5
  <2>13. \A d \in Conns : conn'[d] = IF d = x THEN "serving" ELSE conn[d]
    BY <1>5, <2>1 DEF Pop, TypeOK
  <2>14. held' = held
    BY <1>5 DEF Pop
  <2>15. ASSUME NEW d \in Conns
         PROVE  /\ conn'[d] = "queued" <=> QueuePlaces(d)' # {}
                /\ conn'[d] = "serving" <=> Servers(d)' # {}
                /\ conn'[d] = "held" <=> held' = d
                /\ \A i, j \in QueuePlaces(d)' : i = j
                /\ \A u, v \in Servers(d)' : u = v
    <3>1. CASE d = x
      BY <2>1, <2>4, <2>8, <2>12, <2>13, <2>14, <3>1
    <3>2. CASE d # x
      BY <2>9, <2>12, <2>13, <2>14, <3>2 DEF OneOwner
    <3>3. QED
      BY <3>1, <3>2
  <2>16. QED
    BY <2>15 DEF OneOwner
<1>6. ASSUME NEW w \in Workers, Finish(w)
      PROVE  OneOwner'
  <2>1. serving[w] \in Conns
    BY <1>6 DEF Finish, ThreadsOK, TypeOK
  <2>2. PICK x \in Conns : x = serving[w]
    BY <2>1
  <2>3. w \in Servers(x)
    BY <2>2 DEF Servers
  <2>4. conn[x] = "serving" /\ QueuePlaces(x) = {} /\ held # x
    BY <2>3 DEF OneOwner
  <2>5. \A v \in Workers : serving[v] = x => v = w
    BY <2>3 DEF OneOwner, Servers
  <2>6. \A v \in Workers : serving'[v] = IF v = w THEN NoConn ELSE serving[v]
    BY <1>6 DEF Finish, TypeOK
  <2>7. Servers(x)' = {}
    BY <2>5, <2>6 DEF Servers
  <2>8. \A d \in Conns : d # x => Servers(d)' = Servers(d)
    BY <2>2, <2>6 DEF Servers
  <2>9. \A d \in Conns : QueuePlaces(d)' = QueuePlaces(d)
    BY <1>6 DEF Finish, QueuePlaces, SlotAt, queueVars
  <2>10. \A d \in Conns : conn'[d] = IF d = x THEN "closed" ELSE conn[d]
    BY <1>6, <2>2 DEF Finish, TypeOK
  <2>11. held' = held
    BY <1>6 DEF Finish, loopVars
  <2>12. QED
    BY <2>4, <2>7, <2>8, <2>9, <2>10, <2>11 DEF OneOwner
<1>7. QED
  <2>1. ASSUME \/ Signal \/ Block \/ Shutdown \/ Join \/ SpuriousUnblock
               \/ UNCHANGED vars
        PROVE  UNCHANGED <<fds, head, count, serving, held, conn>>
    BY <2>1 DEF Signal, Block, Shutdown, Join, SpuriousUnblock, vars, queueVars,
                workerVars, loopVars
  <2>2. ASSUME NEW w \in Workers, Sleep(w) \/ Exit(w) \/ SpuriousWake(w)
        PROVE  UNCHANGED <<fds, head, count, serving, held, conn>>
    BY <2>2 DEF Sleep, Exit, SpuriousWake, queueVars, loopVars
  <2>3. QED
    BY <1>1, <1>2, <1>3, <1>4, <1>5, <1>6, <2>1, <2>2
       DEF Next, LoopStep, PopStep

-----------------------------------------------------------------------------
(* The theorems.                                                           *)

THEOREM Invariance == Spec => []IInv
<1>1. IInv /\ [Next]_vars => IInv'
  BY TypeStep, RingStep, ThreadsStep, ShutdownStep, OwnerStep, WakeupStep
     DEF IInv
<1>2. QED
  BY InitOK, <1>1, PTL DEF Spec

(* Every variable of the queue and its threads keeps its type; in          *)
(* particular the ring's indices stay inside work_queue_t.fds.             *)
THEOREM TypeCorrect == Spec => []TypeOK
BY Invariance, PTL DEF IInv

(* Every connection has exactly the owner its state names: one slot of the *)
(* ring, one worker or the accept loop, for every pool and every capacity. *)
THEOREM OneOwnership == Spec => []OneOwner
BY Invariance, PTL DEF IInv

(* One pthread_cond_signal for each push is enough: a worker never sleeps  *)
(* while more connections wait than awake workers are coming for.          *)
THEOREM NoWakeupLost == Spec => []NoLostWakeup
BY Invariance, PTL DEF IInv

(* A shutdown drains the queue: nothing the daemon accepted is left behind *)
(* when its threads have been joined.                                      *)
THEOREM Drained == Spec => []DrainsOnShutdown
<1>1. IInv => DrainsOnShutdown
  <2> SUFFICES ASSUME IInv, ppc = "joined", NEW c \in Conns
               PROVE  conn[c] \in {"pending", "closed", "shed"}
    BY DEF IInv, ShutdownOK, DrainsOnShutdown
  <2>1. PICK w \in Workers : wpc[w] = "exited"
    BY DEF IInv, ThreadsOK
  <2>2. count = 0
    BY <2>1 DEF IInv, ShutdownOK
  <2>3. QueuePlaces(c) = {}
    BY <2>2 DEF QueuePlaces
  <2>4. Servers(c) = {}
    BY DEF IInv, ThreadsOK, Servers
  <2>5. held # c
    BY DEF IInv, ThreadsOK
  <2>6. conn[c] \notin {"queued", "serving", "held"}
    BY <2>3, <2>4, <2>5 DEF IInv, OneOwner
  <2>7. QED
    BY <2>6 DEF IInv, TypeOK
<1>2. QED
  BY <1>1, Invariance, PTL

-----------------------------------------------------------------------------
(* The hand-off is implemented.                                            *)

Ring == [i \in 1 .. count |-> fds[SlotAt(i)]]

Done == {c \in Conns : conn[c] \in {"closed", "shed"}}

LEMMA RingIsSeq ==
  ASSUME TypeOK, RingOK
  PROVE  Ring \in Seq(Conns) /\ Len(Ring) = count
<1>1. count \in Nat /\ Ring \in [1 .. count -> Conns]
  BY DEF TypeOK, RingOK, Ring
<1>2. QED
  BY <1>1

(* A sequence is the function that lists its elements.                     *)
LEMMA SeqIsFunction ==
  ASSUME NEW S, NEW n \in Nat, NEW s \in Seq(S), Len(s) = n,
         NEW f \in [1 .. n -> S], \A i \in 1 .. n : s[i] = f[i]
  PROVE  s = f
<1>1. f \in Seq(S) /\ Len(f) = n
  OBVIOUS
<1>2. QED
  BY <1>1, SeqEqual

LEMMA RingAppends ==
  ASSUME TypeOK, RingOK, RingOK', ThreadsOK, Push
  PROVE  Ring' = Append(Ring, held)
<1>1. /\ \A i \in 1 .. count : fds'[SlotAt(i)'] = fds[SlotAt(i)]
      /\ fds'[SlotAt(count)'] = held
  BY HeldIs, RingPush DEF Push, Enqueue
<1>2. held \in Conns /\ count \in Nat /\ count' = count + 1
  BY HeldIs DEF Push, Enqueue, TypeOK
<1>3. Ring' = [i \in 1 .. count' |-> fds'[SlotAt(i)']]
  BY DEF Ring
<1>4. \A i \in 1 .. count' :
        fds'[SlotAt(i)'] = IF i = count + 1 THEN held ELSE Ring[i]
  <2>1. ASSUME NEW i \in 1 .. count', i = count'
        PROVE  fds'[SlotAt(i)'] = held
    BY <1>1, <2>1 DEF SlotAt
  <2>2. \A i \in 1 .. count' : i = count' \/ i \in 1 .. count
    BY <1>2
  <2>3. QED
    BY <1>1, <1>2, <2>1, <2>2 DEF Ring
<1>5. Append(Ring, held) =
        [i \in 1 .. count + 1 |-> IF i = count + 1 THEN held ELSE Ring[i]]
  <2>1. PICK r \in Seq(Conns) : r = Ring /\ Len(r) = count
    BY RingIsSeq
  <2>2. /\ Append(r, held) \in Seq(Conns)
        /\ Len(Append(r, held)) = count + 1
        /\ \A i \in 1 .. count : Append(r, held)[i] = r[i]
        /\ Append(r, held)[count + 1] = held
    BY <1>2, <2>1, AppendProperties
  <2> DEFINE f == [i \in 1 .. count + 1 |-> IF i = count + 1 THEN held ELSE r[i]]
  <2>3. Append(r, held) = f
    <3>1. \A i \in 1 .. count + 1 : i \in 1 .. count \/ i = count + 1
      BY <1>2
    <3>2. f \in [1 .. count + 1 -> Conns] /\ count + 1 \in Nat
      BY <1>2, <2>1, <3>1
    <3>3. \A i \in 1 .. count + 1 : Append(r, held)[i] = f[i]
      BY <1>2, <2>2, <3>1
    <3> HIDE DEF f
    <3>4. QED
      BY <2>2, <3>2, <3>3, SeqIsFunction
  <2>4. QED
    BY <2>1, <2>3
<1>6. QED
  BY <1>2, <1>3, <1>4, <1>5

LEMMA RingTails ==
  ASSUME TypeOK, RingOK, NEW w \in Workers, Pop(w)
  PROVE  Ring # <<>> /\ Head(Ring) = fds[head] /\ Ring' = Tail(Ring)
<1>1. /\ \A i \in 1 .. count' : fds'[SlotAt(i)'] = fds[SlotAt(i + 1)]
      /\ SlotAt(1) = head
  BY RingPop DEF Pop
<1>2. count \in Nat \ {0} /\ count' = count - 1
  BY DEF Pop, TypeOK
<1>3. Ring \in Seq(Conns) /\ Len(Ring) = count
  BY RingIsSeq
<1>4. Ring' = [i \in 1 .. count' |-> fds'[SlotAt(i)']]
  BY DEF Ring
<1>5. \A i \in 1 .. count' : i + 1 \in 1 .. count
  BY <1>2
<1>6. Ring' = [i \in 1 .. count' |-> Ring[i + 1]]
  BY <1>1, <1>4, <1>5 DEF Ring
<1>7. Ring[1] = fds[head]
  BY <1>1, <1>2 DEF Ring
<1>8. Tail(Ring) = [i \in 1 .. count - 1 |-> Ring[i + 1]]
  <2>1. PICK r \in Seq(Conns) : r = Ring /\ Len(r) = count
    BY <1>3
  <2>2. r # <<>>
    BY <1>2, <2>1
  <2>3. /\ Tail(r) \in Seq(Conns)
        /\ Len(Tail(r)) = count - 1
        /\ \A i \in 1 .. count - 1 : Tail(r)[i] = r[i + 1]
    BY <1>2, <2>1, <2>2, HeadTailProperties
  <2> DEFINE f == [i \in 1 .. count - 1 |-> r[i + 1]]
  <2>4. Tail(r) = f
    <3>1. f \in [1 .. count - 1 -> Conns] /\ count - 1 \in Nat
      BY <1>2, <2>1
    <3>2. \A i \in 1 .. count - 1 : Tail(r)[i] = f[i]
      BY <2>3
    <3> HIDE DEF f
    <3>3. QED
      BY <2>3, <3>1, <3>2, SeqIsFunction
  <2>5. QED
    BY <2>1, <2>4
<1>9. QED
  BY <1>2, <1>3, <1>6, <1>7, <1>8

LEMMA StepSimulates ==
  IInv /\ IInv' /\ [Next]_vars => [HandedOff!Next]_(HandedOff!vars)
<1> SUFFICES ASSUME IInv, IInv', [Next]_vars
             PROVE  [HandedOff!Next]_(HandedOff!vars)
  OBVIOUS
<1> USE DEF IInv
<1>1. CASE UNCHANGED <<fds, head, count, serving, shutdown>> /\ Done' = Done
  BY <1>1 DEF HandedOff!vars, SlotAt, Done
<1>2. CASE Push
  <2>1. /\ held \in Conns /\ conn[held] = "held"
        /\ QueuePlaces(held) = {} /\ Servers(held) = {}
    BY <1>2, HeldAlone DEF Push
  <2>2. PICK c \in Conns : c = held
    BY <2>1
  <2>3. Ring' = Append(Ring, c)
    BY <1>2, <2>2, RingAppends
  <2>4. Len(Ring) < Capacity
    BY <1>2, RingIsSeq DEF Push, TypeOK
  <2>5. \A i \in 1 .. Len(Ring) : Ring[i] # c
    BY <2>1, <2>2, RingIsSeq DEF QueuePlaces, Ring
  <2>6. c \notin Done /\ \A w \in Workers : serving[w] # c
    BY <2>1, <2>2 DEF Done, Servers
  <2>7. /\ serving' = serving /\ Done' = Done
        /\ (~ shutdown) /\ ((~ shutdown') = (~ shutdown))
    BY <1>2, <2>1 DEF Push, Enqueue, Done, TypeOK
  <2>8. HandedOff!Enqueue(c)
    BY <2>3, <2>4, <2>5, <2>6, <2>7
       DEF HandedOff!Enqueue, HandedOff!Fresh, Ring, Done
  <2>9. QED
    BY <2>8 DEF HandedOff!Next
<1>3. ASSUME NEW w \in Workers, Pop(w)
      PROVE  HandedOff!Next
  <2>1. Ring # <<>> /\ Head(Ring) = fds[head] /\ Ring' = Tail(Ring)
    BY <1>3, RingTails
  <2>2. serving[w] = NoConn
    BY <1>3 DEF Pop, ThreadsOK
  <2>3. fds[head] \in Conns /\ SlotAt(1) = head /\ 1 \in 1 .. count
    BY <1>3, HeadIs DEF Pop, TypeOK
  <2>4. fds[head] \in Conns /\ conn[fds[head]] = "queued"
    BY <2>3 DEF OneOwner, QueuePlaces
  <2>5. /\ serving' = [serving EXCEPT ![w] = Head(Ring)]
        /\ Done' = Done /\ shutdown' = shutdown
    BY <1>3, <2>1, <2>4 DEF Pop, Done, TypeOK
  <2>6. HandedOff!Dequeue(w)
    BY <2>1, <2>2, <2>5 DEF HandedOff!Dequeue, Ring, Done
  <2>7. QED
    BY <2>6 DEF HandedOff!Next
<1>4. ASSUME NEW w \in Workers, Finish(w)
      PROVE  HandedOff!Next
  <2>1. serving[w] \in Conns
    BY <1>4 DEF Finish, ThreadsOK, TypeOK
  <2>2. Done' = Done \cup {serving[w]}
    BY <1>4, <2>1 DEF Finish, Done, TypeOK
  <2>3. /\ serving[w] # NoConn
        /\ serving' = [serving EXCEPT ![w] = NoConn]
        /\ Ring' = Ring /\ shutdown' = shutdown
    BY <1>4, <2>1 DEF Finish, Ring, SlotAt, queueVars
  <2>4. HandedOff!Finish(w)
    BY <2>2, <2>3 DEF HandedOff!Finish, Ring, Done
  <2>5. QED
    BY <2>4 DEF HandedOff!Next
<1>5. CASE Shutdown
  <2>1. /\ Ring' = Ring /\ serving' = serving /\ Done' = Done
        /\ (~ shutdown') = FALSE
    BY <1>5 DEF Shutdown, Ring, SlotAt, Done
  <2>2. HandedOff!Close
    BY <2>1 DEF HandedOff!Close, Ring, Done
  <2>3. QED
    BY <2>2 DEF HandedOff!Next
<1>6. CASE Shed
  <2>1. /\ held \in Conns /\ conn[held] = "held"
        /\ QueuePlaces(held) = {} /\ Servers(held) = {}
    BY <1>6, HeldAlone DEF Shed
  <2>2. PICK c \in Conns : c = held
    BY <2>1
  <2>3. \A i \in 1 .. Len(Ring) : Ring[i] # c
    BY <2>1, <2>2, RingIsSeq DEF QueuePlaces, Ring
  <2>4. c \notin Done /\ \A w \in Workers : serving[w] # c
    BY <2>1, <2>2 DEF Done, Servers
  <2>5. /\ serving' = serving /\ shutdown' = shutdown /\ Ring' = Ring
    BY <1>6 DEF Shed, queueVars, workerVars, Ring, SlotAt
  <2>6. Done' = Done \cup {c}
    BY <1>6, <2>2 DEF Shed, Done, TypeOK
  <2>7. HandedOff!TurnAway(c)
    BY <2>3, <2>4, <2>5, <2>6 DEF HandedOff!TurnAway, HandedOff!Fresh, Ring, Done
  <2>8. QED
    BY <2>7 DEF HandedOff!Next
<1>7. QED
  <2>1. ASSUME Signal \/ Block \/ Join \/ SpuriousUnblock \/ UNCHANGED vars
        PROVE  UNCHANGED <<fds, head, count, serving, shutdown>> /\ Done' = Done
    BY <2>1 DEF Signal, Block, Join, SpuriousUnblock, vars, queueVars,
                workerVars, loopVars, Done
  <2>2. ASSUME NEW w \in Workers, Sleep(w) \/ Exit(w) \/ SpuriousWake(w)
        PROVE  UNCHANGED <<fds, head, count, serving, shutdown>> /\ Done' = Done
    BY <2>2 DEF Sleep, Exit, SpuriousWake, queueVars, loopVars, Done
  <2>3. ASSUME NEW c \in Conns, Accept(c)
        PROVE  UNCHANGED <<fds, head, count, serving, shutdown>> /\ Done' = Done
    BY <2>3 DEF Accept, queueVars, workerVars, Done, TypeOK
  <2>4. QED
    BY <1>1, <1>2, <1>3, <1>4, <1>5, <1>6, <2>1, <2>2, <2>3
       DEF Next, LoopStep, PopStep

(* The ring, its mutex and its condition variables implement a first-in    *)
(* first-out hand-off that serves each connection once.                    *)
THEOREM ImplementsHandoff == Spec => HandoffSpec
<1>1. Init => HandedOff!Init
  <2> SUFFICES ASSUME Init PROVE HandedOff!Init
    OBVIOUS
  <2>1. [i \in 1 .. count |-> fds[SlotAt(i)]] = <<>>
    BY DEF Init
  <2>2. {c \in Conns : conn[c] \in {"closed", "shed"}} = {}
    BY DEF Init
  <2>3. QED
    BY <2>1, <2>2 DEF Init, HandedOff!Init
<1>2. QED
  BY <1>1, StepSimulates, Invariance, PTL DEF Spec, HandoffSpec, HandedOff!Spec
=============================================================================
