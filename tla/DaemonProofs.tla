---------------------------- MODULE DaemonProofs ----------------------------
(***************************************************************************)
(* What clients and operators can rely on of the daemon as a whole, proved *)
(* for every number of workers, connections, requests, slots and rounds:   *)
(* a connection is in one place and answered for what it asked, nothing    *)
(* accepted is left behind when the daemon stops, the statistics an answer *)
(* to metrics shows fit together, and each of the two queues is a hand-off *)
(* as module WorkQueue implements it.                                      *)
(***************************************************************************)
EXTENDS Daemon, SequenceTheorems, FiniteSetTheorems, TLAPS

USE DaemonAssumption

-----------------------------------------------------------------------------
(* The inductive invariant.                                                *)

Inboxes == {"empty", "part", "whole", "gone", "cut", "read"}
Fates == {"absent", "backlog", "held", "queued", "served", "closed"}
Stops == {"poll", "peek", "answer", "push", "shutting", "joining", "done"}
Tasks == {"popping", "reading", "scanning", "counted", "asking", "answering", "exited"}
Threads == Servers \cup {Loop}
Counters == Verdicts \cup {"completed"}

(* What the clients see, where the threads are, and the statistics.        *)
ClientShapes ==
  /\ request \in [Conns -> Kinds]
  /\ inbox \in [Conns -> Inboxes]
  /\ fate \in [Conns -> Fates]
  /\ reply \in [Conns -> Kinds \cup {"none", "busy", "invalid"}]

ThreadShapes ==
  /\ at \in Stops
  /\ held \in Conns \cup {NoConn}
  /\ dest \in Queues
  /\ queue \in [Queues -> Seq(Conns)]
  /\ down \in [Queues -> BOOLEAN]
  /\ pc \in [Servers -> Tasks]
  /\ serving \in [Servers -> Conns \cup {NoConn}]

Statistics ==
  /\ tally \in [Counters -> Nat]
  /\ loads \in [Threads -> Seq(Nat)]
  /\ \A t \in Threads : Len(loads[t]) <= Len(Order)

(* The loop holds a connection between accepting it and letting it go.     *)
Holding ==
  /\ held # NoConn <=> at \in {"peek", "answer", "push"}
  /\ \A c \in Conns : fate[c] = "held" <=> held = c

(* A connection in a queue is there once, and in one queue.                *)
InLine(q, i, c) == i \in 1 .. Len(queue[q]) /\ queue[q][i] = c

Waiting ==
  /\ \A c \in Conns : fate[c] = "queued" <=> \E q \in Queues : \E i \in Nat : InLine(q, i, c)
  /\ \A c \in Conns, p, q \in Queues, i, j \in Nat :
       InLine(p, i, c) /\ InLine(q, j, c) => p = q /\ i = j

(* A server has a connection while it handles one, each its own.           *)
Handling ==
  /\ \A s \in Servers : serving[s] = NoConn <=> pc[s] \in {"popping", "exited"}
  /\ \A c \in Conns : fate[c] = "served" <=> \E s \in Servers : serving[s] = c
  /\ \A s, t \in Servers : serving[s] # NoConn /\ serving[s] = serving[t] => s = t

(* The message of a connection is taken from it once, by whoever answers.  *)
Reading ==
  /\ \A c \in Conns : inbox[c] = "read" => fate[c] \in {"held", "served", "closed"}
  /\ at \in {"peek", "push"} => inbox[held] # "read"
  /\ \A s \in Servers : pc[s] = "reading" => inbox[serving[s]] # "read"
  /\ \A s \in Servers : pc[s] = "asking" => request[serving[s]] = "attestation"
  /\ \A s \in Servers : pc[s] \in {"scanning", "counted"} => request[serving[s]] = "scan"

(* An answer ends a connection and is for what was asked.                  *)
Replying ==
  \A c \in Conns :
    /\ reply[c] \in {"none", "busy", "invalid", request[c]}
    /\ fate[c] # "closed" => reply[c] = "none"
    /\ reply[c] = "invalid" => inbox[c] # "read"

(* After the shutdown nothing is pushed, and a server leaves an empty      *)
(* queue behind.                                                           *)
Ending ==
  /\ \A q \in Queues : down[q] => at \in {"shutting", "joining", "done"}
  /\ \A s \in Servers : pc[s] = "exited" => down[Source(s)] /\ queue[Source(s)] = <<>>
  /\ at = "done" => \A s \in Servers : pc[s] = "exited"

Shapes == ClientShapes /\ ThreadShapes

IInv == Shapes /\ Holding /\ Waiting /\ Handling /\ Reading /\ Replying /\ Ending

-----------------------------------------------------------------------------
(* A server that reads has a connection to read from.                      *)
LEMMA ReadsOne ==
  ASSUME IInv
  PROVE  \A s \in Servers : pc[s] = "reading" =>
           serving[s] \in Conns /\ fate[serving[s]] = "served"
<1>1. SUFFICES ASSUME NEW s \in Servers, pc[s] = "reading"
               PROVE  serving[s] \in Conns /\ fate[serving[s]] = "served"
  OBVIOUS
<1>2. serving[s] \in Conns \cup {NoConn}
  BY DEF IInv, Shapes, ThreadShapes
<1>3. serving[s] # NoConn
  BY <1>1 DEF IInv, Handling
<1>4. serving[s] \in Conns
  BY <1>2, <1>3
<1>5. QED
  BY <1>4 DEF IInv, Handling

LEMMA InitInv == Init => IInv
<1> SUFFICES ASSUME Init PROVE IInv
  OBVIOUS
<1>1. Shapes
  BY DEF Init, Shapes, ClientShapes, ThreadShapes, Inboxes, Fates, Stops, Tasks, Queues
<1>2. Holding /\ Handling /\ Reading /\ Replying /\ Ending
  BY DEF Init, Holding, Handling, Reading, Replying, Ending
<1>3. Waiting
  BY DEF Init, Waiting, InLine
<1>4. QED
  BY <1>1, <1>2, <1>3 DEF IInv

(* The clients move: a connection appears, a message arrives or ends.      *)
LEMMA ClientStep ==
  ASSUME IInv, NEW c \in Conns, Connect(c) \/ Send(c) \/ Hangup(c)
  PROVE  IInv'
<1>1. UNCHANGED <<request, reply, loopVars, queue, down, serverVars>>
  BY DEF Connect, Send, Hangup
<1>2. /\ \/ fate' = fate
         \/ fate[c] = "absent" /\ fate' = [fate EXCEPT ![c] = "backlog"]
      /\ inbox' \in [Conns -> Inboxes] /\ inbox'[c] # "read"
      /\ \A d \in Conns \ {c} : inbox'[d] = inbox[d]
  <2> USE DEF IInv, Shapes, ClientShapes, Inboxes
  <2>1. CASE Connect(c)
    BY <2>1 DEF Connect
  <2>2. CASE Send(c)
    BY <2>2 DEF Send
  <2>3. CASE Hangup(c)
    BY <2>3 DEF Hangup
  <2>4. QED
    BY <2>1, <2>2, <2>3
<1>3. Shapes'
  BY <1>1, <1>2
     DEF IInv, Shapes, ClientShapes, ThreadShapes, loopVars, serverVars, Inboxes, Fates
<1>4. /\ \A d \in Conns : fate'[d] # fate[d] => fate[d] = "absent" /\ fate'[d] = "backlog"
      /\ \A d \in Conns : inbox'[d] = "read" => inbox[d] = "read"
  BY <1>2 DEF IInv, Shapes, ClientShapes, Inboxes
<1>5. Holding' /\ Handling' /\ Ending'
  BY <1>1, <1>4 DEF IInv, Holding, Handling, Ending, Source, loopVars, serverVars
<1>6. Waiting'
  <2>1. \A q, i, d : InLine(q, i, d)' <=> InLine(q, i, d)
    BY <1>1 DEF InLine
  <2>2. \A d \in Conns : fate'[d] = "queued" <=> fate[d] = "queued"
    BY <1>4
  <2>3. QED
    BY <2>1, <2>2 DEF IInv, Waiting
<1>7. Reading'
  <2>1. at \in {"peek", "push"} => held \in Conns
    BY DEF IInv, Holding, Shapes, ThreadShapes
  <2>2. \A s \in Servers : pc[s] = "reading" => serving[s] \in Conns
    BY ReadsOne
  <2>3. QED
    BY <1>1, <1>4, <2>1, <2>2 DEF IInv, Reading, loopVars, serverVars
<1>8. Replying'
  BY <1>1, <1>4 DEF IInv, Replying
<1>9. QED
  BY <1>3, <1>5, <1>6, <1>7, <1>8 DEF IInv

(* Steps of the loop that leave its connection where it is: it looks at    *)
(* the message, or has begun to stop.                                      *)
LEMMA LoopStays ==
  ASSUME IInv,
         FastAnswer \/ FastRoute \/ FastQueue \/ FastWait \/ Shutdown \/ ShutdownControl \/ Join
  PROVE  IInv'
<1>1. UNCHANGED <<request, fate, reply, held, queue, serverVars>>
  BY DEF FastAnswer, FastRoute, FastQueue, FastWait, Shutdown, ShutdownControl, Join, clientVars
<1>2. /\ at' \in Stops /\ dest' \in Queues /\ down' \in [Queues -> BOOLEAN]
      /\ at' \in {"peek", "answer", "push"} <=> at \in {"peek", "answer", "push"}
      /\ at' \in {"peek", "push"} => at = "peek" /\ inbox' = inbox
      /\ \/ inbox' = inbox
         \/ inbox' = [inbox EXCEPT ![held] = "read"]
  BY DEF IInv, Shapes, ThreadShapes, FastAnswer, FastRoute, FastQueue, FastWait, Shutdown,
         ShutdownControl, Join, clientVars, Stops, Queues
<1>3. Shapes'
  BY <1>1, <1>2 DEF IInv, Shapes, ClientShapes, ThreadShapes, serverVars, Inboxes
<1>4. Holding'
  BY <1>1, <1>2 DEF IInv, Holding
<1>5. Waiting'
  BY <1>1 DEF IInv, Waiting, InLine
<1>6. Handling'
  BY <1>1 DEF IInv, Handling, serverVars
<1>7. \A c \in Conns : inbox'[c] # inbox[c] => held = c /\ fate[c] = "held"
  BY <1>2 DEF IInv, Holding, Shapes, ClientShapes
<1>8. Reading'
  <2>1. \A s \in Servers : pc[s] = "reading" => serving[s] \in Conns /\ fate[serving[s]] = "served"
    BY ReadsOne
  <2>2. \A s \in Servers : pc[s] = "reading" => inbox'[serving[s]] = inbox[serving[s]]
    BY <1>7, <2>1
  <2>3. QED
    BY <1>1, <1>2, <1>7, <2>2 DEF IInv, Reading, serverVars
<1>9. Replying'
  BY <1>1, <1>7 DEF IInv, Replying
<1>10. Ending'
  <2>1. \A q \in Queues : down'[q] => at' \in {"shutting", "joining", "done"}
    BY DEF IInv, Ending, Shapes, ThreadShapes, FastAnswer, FastRoute, FastQueue, FastWait,
           Shutdown, ShutdownControl, Join
  <2>2. \A q \in Queues : down[q] => down'[q]
    BY DEF IInv, Ending, Shapes, ThreadShapes, FastAnswer, FastRoute, FastQueue, FastWait,
           Shutdown, ShutdownControl, Join
  <2>3. at' = "done" => \A s \in Servers : pc[s] = "exited"
    BY DEF FastAnswer, FastRoute, FastQueue, FastWait, Shutdown, ShutdownControl, Join, IInv, Ending
  <2>4. \A s \in Servers : Source(s) \in Queues
    BY DEF Source, Queues
  <2>5. QED
    BY <1>1, <2>1, <2>2, <2>3, <2>4 DEF IInv, Ending, serverVars
<1>11. QED
  BY <1>3, <1>4, <1>5, <1>6, <1>8, <1>9, <1>10 DEF IInv

(* A connection leaves the backlog: into the loop's hands, or closed for   *)
(* the uid of its peer.                                                    *)
LEMMA AcceptStep ==
  ASSUME IInv, NEW c \in Conns, Accept(c)
  PROVE  IInv'
<1>1. /\ UNCHANGED <<request, inbox, reply, dest, queue, down, serverVars>>
      /\ at = "poll" /\ fate[c] = "backlog"
  BY DEF Accept, clientVars
<1>2. \/ fate' = [fate EXCEPT ![c] = "closed"] /\ UNCHANGED <<at, held>>
      \/ fate' = [fate EXCEPT ![c] = "held"] /\ at' = "peek" /\ held' = c
  BY DEF Accept
<1>3. /\ fate'[c] \in {"held", "closed"}
      /\ fate'[c] = "held" <=> held' = c
      /\ \A d \in Conns \ {c} : fate'[d] = fate[d] /\ held' # d /\ held # d
      /\ held # c
  <2>1. held = NoConn
    BY <1>1 DEF IInv, Holding
  <2>2. QED
    BY <1>2, <2>1 DEF IInv, Shapes, ClientShapes
<1>4. Shapes'
  BY <1>1, <1>2 DEF IInv, Shapes, ClientShapes, ThreadShapes, serverVars, Fates, Stops
<1>5. Holding'
  BY <1>1, <1>2, <1>3 DEF IInv, Holding
<1>6. Waiting'
  <2>1. \A q, i, d : InLine(q, i, d)' <=> InLine(q, i, d)
    BY <1>1 DEF InLine
  <2>2. \A d \in Conns : fate'[d] = "queued" <=> fate[d] = "queued"
    BY <1>1, <1>3
  <2>3. QED
    BY <2>1, <2>2 DEF IInv, Waiting
<1>7. Handling'
  <2>1. \A d \in Conns : fate'[d] = "served" <=> fate[d] = "served"
    BY <1>1, <1>3
  <2>2. QED
    BY <1>1, <2>1 DEF IInv, Handling, serverVars
<1>8. Reading'
  <2>1. inbox[c] # "read"
    BY <1>1 DEF IInv, Reading
  <2>2. QED
    BY <1>1, <1>2, <1>3, <2>1 DEF IInv, Reading, serverVars
<1>9. Replying'
  BY <1>1, <1>3 DEF IInv, Replying
<1>10. Ending'
  BY <1>1, <1>2 DEF IInv, Ending, Source, serverVars
<1>11. QED
  BY <1>4, <1>5, <1>6, <1>7, <1>8, <1>9, <1>10 DEF IInv

(* The loop lets its connection go with an answer: its own, or busy.       *)
LEMMA LoopCloses ==
  ASSUME IInv, NEW r \in {"busy", request[held]}, held # NoConn, CloseWith(held, r),
         at' = "poll", held' = NoConn,
         UNCHANGED <<request, inbox, dest, queue, down, serverVars>>
  PROVE  IInv'
<1>1. held \in Conns /\ fate[held] = "held" /\ request[held] \in Kinds
  BY DEF IInv, Holding, Shapes, ClientShapes, ThreadShapes
<1>2. /\ fate'[held] = "closed" /\ reply'[held] = r
      /\ \A d \in Conns \ {held} : fate'[d] = fate[d] /\ reply'[d] = reply[d]
  BY <1>1 DEF CloseWith, IInv, Shapes, ClientShapes
<1>3. Shapes'
  BY <1>1 DEF CloseWith, IInv, Shapes, ClientShapes, ThreadShapes, serverVars, Fates, Stops
<1>4. Holding'
  BY <1>1, <1>2 DEF IInv, Holding
<1>5. Waiting'
  <2>1. \A q, i, d : InLine(q, i, d)' <=> InLine(q, i, d)
    BY DEF InLine
  <2>2. \A d \in Conns : fate'[d] = "queued" <=> fate[d] = "queued"
    BY <1>1, <1>2
  <2>3. QED
    BY <2>1, <2>2 DEF IInv, Waiting
<1>6. Handling'
  <2>1. \A d \in Conns : fate'[d] = "served" <=> fate[d] = "served"
    BY <1>1, <1>2
  <2>2. QED
    BY <2>1 DEF IInv, Handling, serverVars
<1>7. Reading'
  BY <1>1, <1>2 DEF IInv, Reading, serverVars
<1>8. Replying'
  <2>1. r # "invalid"
    BY <1>1 DEF Kinds
  <2>2. QED
    BY <1>1, <1>2, <2>1 DEF IInv, Replying
<1>9. Ending'
  <2>1. at \in {"peek", "answer", "push"}
    BY DEF IInv, Holding
  <2>2. QED
    BY <2>1 DEF IInv, Ending, Source, serverVars
<1>10. QED
  BY <1>3, <1>4, <1>5, <1>6, <1>7, <1>8, <1>9 DEF IInv

(* The connection goes to the end of a queue: nothing is there twice, for  *)
(* it was the loop's.                                                      *)
LEMMA PushStep ==
  ASSUME IInv, Push
  PROVE  IInv'
<1>1. /\ UNCHANGED <<request, inbox, reply, dest, down, serverVars>>
      /\ queue' = [queue EXCEPT ![dest] = Append(queue[dest], held)]
      /\ fate' = [fate EXCEPT ![held] = "queued"]
      /\ at = "push" /\ at' = "poll" /\ held' = NoConn
  BY DEF Push, clientVars
<1>2. held \in Conns /\ fate[held] = "held" /\ dest \in Queues
  BY <1>1 DEF IInv, Holding, Shapes, ThreadShapes
<1>3. /\ fate'[held] = "queued"
      /\ \A d \in Conns \ {held} : fate'[d] = fate[d]
  BY <1>1, <1>2 DEF IInv, Shapes, ClientShapes
<1>4. \A q \in Queues : queue[q] \in Seq(Conns)
  BY DEF IInv, Shapes, ThreadShapes
<1>5. /\ queue'[dest] = Append(queue[dest], held)
      /\ \A q \in Queues \ {dest} : queue'[q] = queue[q]
  BY <1>1, <1>2 DEF IInv, Shapes, ThreadShapes
<1>6. Append(queue[dest], held) \in Seq(Conns)
  BY <1>2, <1>4
<1>7. Shapes'
  <2>1. queue' \in [Queues -> Seq(Conns)]
    BY <1>1, <1>2, <1>6 DEF IInv, Shapes, ThreadShapes
  <2>2. QED
    BY <1>1, <1>2, <2>1
       DEF IInv, Shapes, ClientShapes, ThreadShapes, serverVars, Fates, Stops
<1>8. Holding'
  BY <1>1, <1>2, <1>3 DEF IInv, Holding
<1>9. Waiting'
  <2>1. \A q \in Queues, i \in Nat, d \in Conns :
          InLine(q, i, d)' <=> InLine(q, i, d) \/ (q = dest /\ d = held /\ i = Len(queue[dest]) + 1)
    <3> SUFFICES ASSUME NEW q \in Queues, NEW i \in Nat, NEW d \in Conns
                 PROVE  InLine(q, i, d)' <=>
                          InLine(q, i, d) \/ (q = dest /\ d = held /\ i = Len(queue[dest]) + 1)
      OBVIOUS
    <3>1. CASE q # dest
      BY <3>1, <1>5 DEF InLine
    <3>2. CASE q = dest
      BY <3>2, <1>2, <1>4, <1>5 DEF InLine
    <3>3. QED
      BY <3>1, <3>2
  <2>2. \A q \in Queues, i \in Nat : ~ InLine(q, i, held)
    BY <1>2 DEF IInv, Waiting
  <2>3. Len(queue[dest]) + 1 \in Nat
    BY <1>2, <1>4
  <2>4. \A d \in Conns : fate'[d] = "queued" <=> \E q \in Queues : \E i \in Nat : InLine(q, i, d)'
    <3> SUFFICES ASSUME NEW d \in Conns
                 PROVE  fate'[d] = "queued" <=> \E q \in Queues : \E i \in Nat : InLine(q, i, d)'
      OBVIOUS
    <3>1. CASE d = held
      BY <3>1, <1>2, <1>3, <2>1, <2>3
    <3>2. CASE d # held
      <4>1. fate[d] = "queued" <=> \E q \in Queues : \E i \in Nat : InLine(q, i, d)
        BY DEF IInv, Waiting
      <4>2. QED
        BY <3>2, <4>1, <1>3, <2>1
    <3>3. QED
      BY <3>1, <3>2
  <2>5. \A c \in Conns, p, q \in Queues, i, j \in Nat :
          InLine(p, i, c)' /\ InLine(q, j, c)' => p = q /\ i = j
    BY <2>1, <2>2 DEF IInv, Waiting
  <2>6. QED
    BY <2>4, <2>5 DEF Waiting
<1>10. Handling'
  <2>1. \A d \in Conns : fate'[d] = "served" <=> fate[d] = "served"
    BY <1>2, <1>3
  <2>2. QED
    BY <1>1, <2>1 DEF IInv, Handling, serverVars
<1>11. Reading'
  <2>1. inbox[held] # "read"
    BY <1>1 DEF IInv, Reading
  <2>2. QED
    BY <1>1, <1>2, <1>3, <2>1 DEF IInv, Reading, serverVars
<1>12. Replying'
  BY <1>1, <1>2, <1>3 DEF IInv, Replying
<1>13. Ending'
  <2>1. \A q \in Queues : ~ down[q]
    BY <1>1 DEF IInv, Ending
  <2>2. \A s \in Servers : Source(s) \in Queues
    BY DEF Source, Queues
  <2>3. QED
    BY <1>1, <2>1, <2>2 DEF IInv, Ending, serverVars
<1>14. QED
  BY <1>7, <1>8, <1>9, <1>10, <1>11, <1>12, <1>13 DEF IInv

(* A server takes the oldest connection of its queue; the others move up.  *)
LEMMA PopStep ==
  ASSUME IInv, NEW s \in Servers, Pop(s)
  PROVE  IInv'
<1> DEFINE h == Source(s)
<1>1. /\ h \in Queues /\ \A q \in Queues : queue[q] \in Seq(Conns)
      /\ queue[h] # <<>>
  BY DEF Source, Queues, IInv, Shapes, ThreadShapes, Pop
<1>2. PICK c \in Conns : c = Head(queue[h])
  BY <1>1
<1>3. /\ UNCHANGED <<request, inbox, reply, loopVars, down>>
      /\ pc[s] = "popping"
      /\ serving' = [serving EXCEPT ![s] = c]
      /\ fate' = [fate EXCEPT ![c] = "served"]
      /\ queue' = [queue EXCEPT ![h] = Tail(queue[h])]
      /\ pc' = [pc EXCEPT ![s] = "reading"]
  BY <1>2 DEF Pop, clientVars
<1>4. /\ Tail(queue[h]) \in Seq(Conns)
      /\ Len(queue[h]) \in Nat /\ Len(queue[h]) >= 1 /\ queue[h][1] = c
      /\ Len(Tail(queue[h])) = Len(queue[h]) - 1
      /\ \A i \in 1 .. Len(queue[h]) - 1 : Tail(queue[h])[i] = queue[h][i + 1]
  BY <1>1, <1>2
<1>5. InLine(h, 1, c) /\ fate[c] = "queued"
  <2>1. InLine(h, 1, c)
    BY <1>4 DEF InLine
  <2>2. QED
    BY <1>1, <2>1 DEF IInv, Waiting
<1>6. /\ fate'[c] = "served" /\ \A d \in Conns \ {c} : fate'[d] = fate[d]
      /\ serving'[s] = c /\ \A t \in Servers \ {s} : serving'[t] = serving[t]
      /\ pc'[s] = "reading" /\ \A t \in Servers \ {s} : pc'[t] = pc[t]
      /\ queue'[h] = Tail(queue[h]) /\ \A q \in Queues \ {h} : queue'[q] = queue[q]
  BY <1>1, <1>3 DEF IInv, Shapes, ClientShapes, ThreadShapes
<1>7. \A t \in Servers : serving[t] # c
  BY <1>5 DEF IInv, Handling
<1>8. Shapes'
  <2>1. queue' \in [Queues -> Seq(Conns)]
    BY <1>1, <1>3, <1>4 DEF IInv, Shapes, ThreadShapes
  <2>2. QED
    BY <1>3, <2>1
       DEF IInv, Shapes, ClientShapes, ThreadShapes, loopVars, Fates, Tasks
<1>9. Holding'
  BY <1>3, <1>5, <1>6 DEF IInv, Holding, loopVars
<1>10. Waiting'
  <2>1. \A q \in Queues \ {h}, i \in Nat, d \in Conns : InLine(q, i, d)' <=> InLine(q, i, d)
    BY <1>6 DEF InLine
  <2>2. \A i \in Nat, d \in Conns : InLine(h, i, d)' <=> i >= 1 /\ InLine(h, i + 1, d)
    BY <1>1, <1>4, <1>6 DEF InLine
  <2>3. \A d \in Conns, i \in Nat : InLine(h, i, d) /\ d # c => i >= 2
    BY <1>4 DEF InLine
  <2>4. \A q \in Queues, i \in Nat : InLine(q, i, c) => q = h /\ i = 1
    BY <1>1, <1>5 DEF IInv, Waiting
  <2>5. \A d \in Conns : fate'[d] = "queued" <=> \E q \in Queues : \E i \in Nat : InLine(q, i, d)'
    <3> SUFFICES ASSUME NEW d \in Conns
                 PROVE  fate'[d] = "queued" <=> \E q \in Queues : \E i \in Nat : InLine(q, i, d)'
      OBVIOUS
    <3>1. CASE d = c
      <4>1. ASSUME NEW q \in Queues, NEW i \in Nat PROVE ~ InLine(q, i, c)'
        <5>1. CASE q = h
          BY <5>1, <2>2, <2>4
        <5>2. CASE q # h
          BY <5>2, <2>1, <2>4
        <5>3. QED
          BY <5>1, <5>2
      <4>2. QED
        BY <3>1, <4>1, <1>6
    <3>2. CASE d # c
      <4>1. fate'[d] = "queued" <=> \E q \in Queues : \E i \in Nat : InLine(q, i, d)
        BY <3>2, <1>6 DEF IInv, Waiting
      <4>2. ASSUME NEW q \in Queues, NEW i \in Nat, InLine(q, i, d)
            PROVE  \E j \in Nat : InLine(q, j, d)'
        <5>1. CASE q = h
          <6>1. i - 1 \in Nat /\ i - 1 >= 1 /\ (i - 1) + 1 = i
            BY <4>2, <5>1, <3>2, <2>3
          <6>2. InLine(h, i - 1, d)'
            BY <6>1, <4>2, <5>1, <2>2
          <6>3. QED
            BY <6>1, <6>2, <5>1
        <5>2. CASE q # h
          BY <4>2, <5>2, <2>1
        <5>3. QED
          BY <5>1, <5>2
      <4>3. ASSUME NEW q \in Queues, NEW i \in Nat, InLine(q, i, d)'
            PROVE  \E j \in Nat : InLine(q, j, d)
        <5>1. CASE q = h
          BY <4>3, <5>1, <2>2
        <5>2. CASE q # h
          BY <4>3, <5>2, <2>1
        <5>3. QED
          BY <5>1, <5>2
      <4>4. QED
        BY <4>1, <4>2, <4>3
    <3>3. QED
      BY <3>1, <3>2
  <2>6. ASSUME NEW d \in Conns, NEW p \in Queues, NEW q \in Queues, NEW i \in Nat, NEW j \in Nat,
               InLine(p, i, d)', InLine(q, j, d)'
        PROVE  p = q /\ i = j
    <3>1. CASE p = h /\ q = h
      <4>1. InLine(h, i + 1, d) /\ InLine(h, j + 1, d)
        BY <2>6, <3>1, <2>2
      <4>2. i + 1 = j + 1
        BY <4>1, <1>1 DEF IInv, Waiting
      <4>3. QED
        BY <3>1, <4>2
    <3>2. CASE p = h /\ q # h
      <4>1. InLine(h, i + 1, d) /\ InLine(q, j, d)
        BY <2>6, <3>2, <2>1, <2>2
      <4>2. QED
        BY <4>1, <3>2, <1>1 DEF IInv, Waiting
    <3>3. CASE p # h /\ q = h
      <4>1. InLine(p, i, d) /\ InLine(h, j + 1, d)
        BY <2>6, <3>3, <2>1, <2>2
      <4>2. QED
        BY <4>1, <3>3, <1>1 DEF IInv, Waiting
    <3>4. CASE p # h /\ q # h
      BY <2>6, <3>4, <2>1 DEF IInv, Waiting
    <3>5. QED
      BY <3>1, <3>2, <3>3, <3>4
  <2>7. QED
    BY <2>5, <2>6 DEF Waiting
<1>11. Handling'
  <2>1. c # NoConn
    OBVIOUS
  <2>2. \A t \in Servers : serving'[t] = NoConn <=> pc'[t] \in {"popping", "exited"}
    BY <1>6, <2>1 DEF IInv, Handling
  <2>3. \A d \in Conns : fate'[d] = "served" <=> \E t \in Servers : serving'[t] = d
    <3>1. serving[s] = NoConn
      BY <1>3 DEF IInv, Handling
    <3>2. QED
      BY <1>6, <3>1 DEF IInv, Handling
  <2>4. \A t, u \in Servers : serving'[t] # NoConn /\ serving'[t] = serving'[u] => t = u
    BY <1>6, <1>7 DEF IInv, Handling
  <2>5. QED
    BY <2>2, <2>3, <2>4 DEF Handling
<1>12. Reading'
  <2>1. inbox[c] # "read"
    BY <1>5 DEF IInv, Reading
  <2>2. QED
    BY <1>3, <1>6, <2>1 DEF IInv, Reading, loopVars
<1>13. Replying'
  BY <1>3, <1>5, <1>6 DEF IInv, Replying
<1>14. Ending'
  <2>1. ASSUME NEW t \in Servers, pc'[t] = "exited"
        PROVE  down[Source(t)] /\ queue'[Source(t)] = <<>>
    <3>1. t # s /\ pc[t] = "exited"
      BY <1>6, <2>1
    <3>2. down[Source(t)] /\ queue[Source(t)] = <<>>
      BY <3>1 DEF IInv, Ending
    <3>3. Source(t) # h /\ Source(t) \in Queues
      BY <1>1, <3>2 DEF Source, Queues
    <3>4. QED
      BY <3>2, <3>3, <1>6
  <2>2. at # "done"
    BY <1>3 DEF IInv, Ending
  <2>3. QED
    BY <1>3, <2>1, <2>2 DEF IInv, Ending, loopVars
<1>15. QED
  BY <1>8, <1>9, <1>10, <1>11, <1>12, <1>13, <1>14 DEF IInv

(* A server goes on with its connection: the message is read, or a verdict *)
(* is counted.                                                             *)
LEMMA ServerGoesOn ==
  ASSUME IInv, NEW s \in Servers, Dispatch(s) \/ Count(s)
  PROVE  IInv'
<1> DEFINE c == serving[s]
<1>1. /\ UNCHANGED <<request, fate, reply, loopVars, queue, down, serving>>
      /\ pc[s] \in {"reading", "scanning"}
      /\ inbox' = inbox \/ inbox' = [inbox EXCEPT ![c] = "read"]
  BY DEF Dispatch, Count, clientVars
<1>2. PICK a \in {"scanning", "asking", "answering", "counted"} :
        /\ pc' = [pc EXCEPT ![s] = a]
        /\ a = "asking" => request[c] = "attestation"
        /\ a \in {"scanning", "counted"} => request[c] = "scan"
  <2>1. CASE Dispatch(s)
    <3> DEFINE a == CASE request[c] = "scan" -> "scanning"
                      [] request[c] = "attestation" -> "asking"
                      [] OTHER -> "answering"
    <3>1. pc' = [pc EXCEPT ![s] = a]
      BY <2>1 DEF Dispatch
    <3>2. /\ a \in {"scanning", "asking", "answering"}
          /\ a = "asking" => request[c] = "attestation"
          /\ a = "scanning" => request[c] = "scan"
      OBVIOUS
    <3> HIDE DEF a
    <3>3. QED
      BY <3>1, <3>2
  <2>2. CASE Count(s)
    BY <2>2 DEF Count, IInv, Reading
  <2>3. QED
    BY <2>1, <2>2
<1>3. c \in Conns /\ fate[c] = "served"
  BY <1>1 DEF IInv, Handling, Shapes, ThreadShapes
<1>4. /\ pc'[s] = a /\ \A t \in Servers \ {s} : pc'[t] = pc[t]
      /\ \A d \in Conns \ {c} : inbox'[d] = inbox[d]
  BY <1>1, <1>2 DEF IInv, Shapes, ClientShapes, ThreadShapes
<1>5. Shapes'
  BY <1>1, <1>2, <1>3 DEF IInv, Shapes, ClientShapes, ThreadShapes, loopVars, Inboxes, Tasks
<1>6. Holding'
  BY <1>1 DEF IInv, Holding, loopVars
<1>7. Waiting'
  BY <1>1 DEF IInv, Waiting, InLine
<1>8. Handling'
  BY <1>1, <1>2, <1>4 DEF IInv, Handling
<1>9. Reading'
  <2>1. \A d \in Conns : inbox'[d] = "read" => fate[d] \in {"held", "served", "closed"}
    BY <1>3, <1>4 DEF IInv, Reading
  <2>2. at \in {"peek", "push"} => inbox'[held] # "read"
    <3>1. SUFFICES ASSUME at \in {"peek", "push"} PROVE inbox'[held] # "read"
      OBVIOUS
    <3>2. held \in Conns /\ fate[held] = "held"
      BY <3>1 DEF IInv, Holding, Shapes, ThreadShapes
    <3>3. held # c
      BY <1>3, <3>2
    <3>4. QED
      BY <3>1, <3>2, <3>3, <1>4 DEF IInv, Reading
  <2>3. ASSUME NEW t \in Servers, pc'[t] = "reading"
        PROVE  inbox'[serving[t]] # "read"
    <3>1. t # s /\ pc[t] = "reading"
      BY <2>3, <1>2, <1>4
    <3>2. serving[t] \in Conns /\ serving[t] # c
      BY <3>1, <1>3 DEF IInv, Handling, Shapes, ThreadShapes
    <3>3. QED
      BY <3>1, <3>2, <1>4 DEF IInv, Reading
  <2>4. ASSUME NEW t \in Servers
        PROVE  /\ pc'[t] = "asking" => request[serving[t]] = "attestation"
               /\ pc'[t] \in {"scanning", "counted"} => request[serving[t]] = "scan"
    BY <1>2, <1>4 DEF IInv, Reading
  <2>5. QED
    BY <1>1, <2>1, <2>2, <2>3, <2>4 DEF Reading, loopVars
<1>10. Replying'
  <2>1. reply[c] = "none"
    BY <1>3 DEF IInv, Replying
  <2>2. QED
    BY <1>1, <1>3, <1>4, <2>1 DEF IInv, Replying
<1>11. Ending'
  <2>1. pc[s] # "exited" /\ at # "done"
    BY <1>1 DEF IInv, Ending
  <2>2. QED
    BY <1>1, <1>2, <1>4, <2>1 DEF IInv, Ending, Source, loopVars
<1>12. QED
  BY <1>5, <1>6, <1>7, <1>8, <1>9, <1>10, <1>11 DEF IInv

(* A server ends with a connection: by an answer for what was asked, or by *)
(* telling that the message is invalid, which it then has not taken.       *)
LEMMA ServerCloses ==
  ASSUME IInv, NEW s \in Servers, NEW c \in Conns, c = serving[s],
         NEW r \in {"invalid", request[c]}, CloseWith(c, r), Release(s),
         UNCHANGED <<request, loopVars, queue, down>>,
         inbox' = inbox \/ inbox' = [inbox EXCEPT ![c] = "read"],
         r = "invalid" => inbox'[c] # "read"
  PROVE  IInv'
<1>1. fate[c] = "served" /\ request[c] \in Kinds /\ pc[s] \notin {"popping", "exited"}
  BY DEF IInv, Handling, Shapes, ClientShapes
<1>2. /\ fate'[c] = "closed" /\ reply'[c] = r
      /\ \A d \in Conns \ {c} : fate'[d] = fate[d] /\ reply'[d] = reply[d] /\ inbox'[d] = inbox[d]
      /\ pc'[s] = "popping" /\ \A t \in Servers \ {s} : pc'[t] = pc[t]
      /\ serving'[s] = NoConn /\ \A t \in Servers \ {s} : serving'[t] = serving[t]
  BY DEF CloseWith, Release, IInv, Shapes, ClientShapes, ThreadShapes
<1>3. \A t \in Servers \ {s} : serving[t] # c
  BY DEF IInv, Handling
<1>4. Shapes'
  BY <1>1 DEF CloseWith, Release, IInv, Shapes, ClientShapes, ThreadShapes, loopVars,
              Inboxes, Fates, Tasks
<1>5. Holding'
  BY <1>1, <1>2 DEF IInv, Holding, loopVars
<1>6. Waiting'
  <2>1. \A q, i, d : InLine(q, i, d)' <=> InLine(q, i, d)
    BY DEF InLine
  <2>2. \A d \in Conns : fate'[d] = "queued" <=> fate[d] = "queued"
    BY <1>1, <1>2
  <2>3. QED
    BY <2>1, <2>2 DEF IInv, Waiting
<1>7. Handling'
  <2>1. \A t \in Servers : serving'[t] = NoConn <=> pc'[t] \in {"popping", "exited"}
    BY <1>2 DEF IInv, Handling
  <2>2. \A d \in Conns : fate'[d] = "served" <=> \E t \in Servers : serving'[t] = d
    BY <1>2, <1>3 DEF IInv, Handling
  <2>3. \A t, u \in Servers : serving'[t] # NoConn /\ serving'[t] = serving'[u] => t = u
    BY <1>2 DEF IInv, Handling
  <2>4. QED
    BY <2>1, <2>2, <2>3 DEF Handling
<1>8. Reading'
  <2>1. \A d \in Conns : inbox'[d] = "read" => fate'[d] \in {"held", "served", "closed"}
    BY <1>2 DEF IInv, Reading
  <2>2. at \in {"peek", "push"} => inbox'[held] # "read"
    <3>1. SUFFICES ASSUME at \in {"peek", "push"} PROVE inbox'[held] # "read"
      OBVIOUS
    <3>2. held \in Conns /\ fate[held] = "held"
      BY <3>1 DEF IInv, Holding, Shapes, ThreadShapes
    <3>3. held # c
      BY <1>1, <3>2
    <3>4. QED
      BY <3>1, <3>2, <3>3, <1>2 DEF IInv, Reading
  <2>3. ASSUME NEW t \in Servers, t # s
        PROVE  /\ pc'[t] = "reading" => inbox'[serving'[t]] # "read"
               /\ pc'[t] = "asking" => request[serving'[t]] = "attestation"
               /\ pc'[t] \in {"scanning", "counted"} => request[serving'[t]] = "scan"
    <3>1. pc[t] = "reading" => serving[t] \in Conns /\ serving[t] # c
      <4>1. pc[t] = "reading" => serving[t] \in Conns
        BY ReadsOne
      <4>2. pc[t] = "reading" => serving[t] # c
        BY <2>3, <1>3 DEF IInv, Handling
      <4>3. QED
        BY <4>1, <4>2
    <3>2. QED
      BY <2>3, <3>1, <1>2 DEF IInv, Reading
  <2>4. QED
    BY <1>2, <2>1, <2>2, <2>3 DEF Reading, loopVars
<1>9. Replying'
  BY <1>1, <1>2 DEF IInv, Replying, Kinds
<1>10. Ending'
  <2>1. at # "done"
    BY <1>1 DEF IInv, Ending
  <2>2. QED
    BY <1>2, <2>1 DEF IInv, Ending, Source, loopVars
<1>11. QED
  BY <1>4, <1>5, <1>6, <1>7, <1>8, <1>9, <1>10 DEF IInv

(* A server leaves when its queue is shut and empty.                       *)
LEMMA ExitStep ==
  ASSUME IInv, NEW s \in Servers, Exit(s)
  PROVE  IInv'
<1>1. /\ UNCHANGED <<request, inbox, fate, reply, loopVars, queue, down, serving>>
      /\ pc[s] = "popping" /\ queue[Source(s)] = <<>> /\ down[Source(s)]
      /\ pc' = [pc EXCEPT ![s] = "exited"]
  BY DEF Exit, clientVars
<1>2. /\ pc'[s] = "exited" /\ \A t \in Servers \ {s} : pc'[t] = pc[t]
      /\ pc' \in [Servers -> Tasks]
  BY <1>1 DEF IInv, Shapes, ThreadShapes, Tasks
<1>3. Shapes'
  BY <1>1, <1>2 DEF IInv, Shapes, ClientShapes, ThreadShapes, loopVars
<1>4. Holding' /\ Replying'
  BY <1>1 DEF IInv, Holding, Replying, loopVars
<1>5. Waiting'
  BY <1>1 DEF IInv, Waiting, InLine
<1>6. Handling' /\ Reading'
  BY <1>1, <1>2 DEF IInv, Handling, Reading, loopVars
<1>7. Ending'
  BY <1>1, <1>2 DEF IInv, Ending, Source, loopVars
<1>8. QED
  BY <1>3, <1>4, <1>5, <1>6, <1>7 DEF IInv

(* What the invariant does not speak of.                                   *)
LEMMA Unseen ==
  ASSUME IInv, UNCHANGED <<clientVars, fate, reply, at, held, dest, queue, down, serverVars>>
  PROVE  IInv'
<1>1. UNCHANGED <<request, inbox, fate, reply, at, held, dest, queue, down, pc, serving>>
  BY DEF clientVars, serverVars
<1>2. Shapes'
  BY <1>1 DEF IInv, Shapes, ClientShapes, ThreadShapes
<1>3. Holding' /\ Replying' /\ Ending'
  BY <1>1 DEF IInv, Holding, Replying, Ending, Source
<1>4. Waiting'
  BY <1>1 DEF IInv, Waiting, InLine
<1>5. Handling' /\ Reading'
  BY <1>1 DEF IInv, Handling, Reading
<1>6. QED
  BY <1>2, <1>3, <1>4, <1>5 DEF IInv

LEMMA LoopInv == ASSUME IInv, LoopStep PROVE IInv'
<1>1. CASE \E c \in Conns : Accept(c)
  BY <1>1, AcceptStep
<1>2. CASE Fast
  BY <1>2, LoopStays DEF Fast
<1>3. CASE Push
  BY <1>3, PushStep
<1>4. CASE Shed
  <2>1. held # NoConn
    BY <1>4 DEF Shed, IInv, Holding
  <2>2. QED
    BY <1>4, <2>1, LoopCloses DEF Shed, clientVars
<1>5. CASE Load(Loop)
  BY <1>5, Unseen DEF Load, loopVars
<1>6. CASE Answer(Loop)
  <2>1. held # NoConn
    BY <1>6 DEF Answer, Answering, IInv, Holding
  <2>2. CloseWith(held, request[held]) /\ at' = "poll" /\ held' = NoConn
        /\ UNCHANGED <<request, inbox, dest, queue, down, serverVars>>
    BY <1>6 DEF Answer, Asker, clientVars
  <2>3. QED
    BY <2>1, <2>2, LoopCloses
<1>7. CASE Shutdown \/ ShutdownControl \/ Join
  BY <1>7, LoopStays
<1>8. QED
  BY <1>1, <1>2, <1>3, <1>4, <1>5, <1>6, <1>7 DEF LoopStep

LEMMA ServerInv == ASSUME IInv, NEW s \in Servers, Serve(s) \/ Scan(s) PROVE IInv'
<1>1. CASE Pop(s) \/ Exit(s)
  BY <1>1, PopStep, ExitStep
<1>2. CASE Dispatch(s) \/ Count(s)
  BY <1>2, ServerGoesOn
<1>3. CASE Load(s)
  BY <1>3, Unseen DEF Load, loopVars
<1>4. ASSUME NEW r, CloseWith(serving[s], r), Release(s),
             r = request[serving[s]] \/ (r = "invalid" /\ inbox'[serving[s]] # "read"),
             UNCHANGED <<request, loopVars, queue, down>>,
             inbox' = inbox \/ inbox' = [inbox EXCEPT ![serving[s]] = "read"],
             pc[s] \notin {"popping", "exited"}
      PROVE  IInv'
  <2>1. PICK c \in Conns : c = serving[s]
    BY <1>4 DEF IInv, Handling, Shapes, ThreadShapes
  <2>2. r = "invalid" => inbox'[c] # "read"
    BY <1>4, <2>1 DEF IInv, Shapes, ClientShapes, Kinds
  <2>3. QED
    BY <1>4, <2>1, <2>2, ServerCloses
<1>5. CASE Unreadable(s)
  <2>1. inbox[serving[s]] # "read" /\ inbox' = inbox
    BY <1>5 DEF Unreadable, IInv, Reading, clientVars
  <2>2. QED
    BY <1>4, <1>5, <2>1 DEF Unreadable, clientVars
<1>6. ASSUME CloseWith(serving[s], request[serving[s]]), Release(s),
             UNCHANGED <<request, loopVars, queue, down>>,
             inbox' = inbox \/ inbox' = [inbox EXCEPT ![serving[s]] = "read"],
             pc[s] \notin {"popping", "exited"}
      PROVE  IInv'
  BY <1>4, <1>6
<1>7. CASE UnknownOp(s)
  <2>1. CloseWith(serving[s], request[serving[s]])
    BY <1>7 DEF UnknownOp
  <2>2. QED
    BY <1>6, <1>7, <2>1 DEF UnknownOp
<1>8. CASE Answer(s)
  <2>1. s # Loop
    OBVIOUS
  <2>2. /\ CloseWith(serving[s], request[serving[s]]) /\ Release(s)
        /\ UNCHANGED <<clientVars, at, held, budget, dest, queue, down>>
        /\ pc[s] = "answering"
    BY <1>8, <2>1 DEF Answer, Answering, Asker, Release
  <2>3. QED
    BY <1>6, <2>2 DEF clientVars, loopVars
<1>9. CASE Attested(s)
  <2>1. request[serving[s]] = "attestation"
    BY <1>9 DEF Attested, IInv, Reading
  <2>2. QED
    BY <1>6, <1>9, <2>1 DEF Attested, clientVars
<1>10. CASE Deliver(s)
  <2>1. request[serving[s]] = "scan"
    BY <1>10 DEF Deliver, IInv, Reading
  <2>2. QED
    BY <1>6, <1>10, <2>1 DEF Deliver, clientVars
<1>11. CASE Fail(s)
  <2>1. request[serving[s]] = "scan"
    BY <1>11 DEF Fail, IInv, Reading
  <2>2. QED
    BY <1>6, <1>11, <2>1 DEF Fail, clientVars
<1>12. QED
  BY <1>1, <1>2, <1>3, <1>5, <1>7, <1>8, <1>9, <1>10, <1>11 DEF Serve, Scan

LEMMA NextInv == ASSUME IInv, [Next]_vars PROVE IInv'
<1>1. CASE \E c \in Conns : Connect(c) \/ Send(c) \/ Hangup(c)
  BY <1>1, ClientStep
<1>2. CASE Signal
  BY <1>2, Unseen DEF Signal, loopVars
<1>3. CASE LoopStep
  BY <1>3, LoopInv
<1>4. CASE \E s \in Servers : Serve(s)
  BY <1>4, ServerInv
<1>5. CASE \E w \in Workers : Scan(w)
  BY <1>5, ServerInv DEF Servers
<1>6. CASE UNCHANGED vars
  BY <1>6, Unseen DEF vars, loopVars
<1>7. QED
  BY <1>1, <1>2, <1>3, <1>4, <1>5, <1>6 DEF Next

LEMMA Invariance == Spec => []IInv
<1>1. Init => IInv
  BY InitInv
<1>2. IInv /\ [Next]_vars => IInv'
  BY NextInv
<1>3. QED
  BY <1>1, <1>2, PTL DEF Spec

(* A queue that some server has left is empty, so at the end both are: no  *)
(* connection waits, none is held or served.                               *)
LEMMA Answered == IInv => OneAnswer
<1> SUFFICES ASSUME IInv PROVE OneAnswer
  OBVIOUS
<1>1. ASSUME NEW c \in Conns
      PROVE  /\ reply[c] \in {"none", "busy", "invalid", request[c]}
             /\ reply[c] = "invalid" => inbox[c] # "read"
             /\ fate[c] = "served" <=> \E s \in Servers : serving[s] = c
             /\ fate[c] = "held" <=> held = c
  BY DEF IInv, Holding, Handling, Replying
<1>2. ASSUME NEW c \in Conns
      PROVE  fate[c] = "queued" <=> \E q \in Queues : c \in ToSet(queue[q])
  <2>1. ASSUME NEW q \in Queues
        PROVE  c \in ToSet(queue[q]) <=> \E i \in Nat : InLine(q, i, c)
    <3>1. queue[q] \in Seq(Conns)
      BY DEF IInv, Shapes, ThreadShapes
    <3>2. QED
      BY <3>1 DEF ToSet, InLine
  <2>2. QED
    BY <2>1 DEF IInv, Waiting
<1>3. ASSUME at = "done", NEW c \in Conns
      PROVE  fate[c] \in {"absent", "backlog", "closed"}
  <2>1. \A s \in Servers : pc[s] = "exited" /\ serving[s] = NoConn /\ queue[Source(s)] = <<>>
    BY <1>3 DEF IInv, Ending, Handling
  <2>2. \A q \in Queues : \E s \in Servers : Source(s) = q
    BY DEF Queues, Servers, Source
  <2>3. \A q \in Queues : queue[q] = <<>>
    BY <2>1, <2>2
  <2>4. fate[c] # "queued"
    BY <2>3 DEF IInv, Waiting, InLine
  <2>5. fate[c] # "served" /\ fate[c] # "held"
    BY <1>3, <2>1 DEF IInv, Handling, Holding
  <2>6. QED
    BY <2>4, <2>5 DEF IInv, Shapes, ClientShapes, Fates
<1>4. QED
  BY <1>1, <1>2, <1>3 DEF OneAnswer

(* Whichever way a connection took through the daemon, it is in one place  *)
(* and answered once and for what it asked, and a daemon that stops has    *)
(* left nothing it accepted.                                               *)
THEOREM OneAnswerEach == Spec => []OneAnswer
<1>1. IInv => OneAnswer
  BY Answered
<1>2. QED
  BY <1>1, Invariance, PTL

-----------------------------------------------------------------------------
(* The statistics.                                                         *)

(* The scans whose verdict is counted and not yet delivered.               *)
Undelivered == {s \in Servers : pc[s] = "counted"}

VerdictsCounted == tally["clean"] + tally["sanitized"] + tally["rejected"] + tally["errored"]

Balance ==
  /\ IsFiniteSet(Undelivered)
  /\ VerdictsCounted = tally["completed"] + Cardinality(Undelivered)

(* What an answer will show at least of the counter that is the i-th to be *)
(* loaded: what was loaded, or else what it is now.                        *)
Shown(t, i) == IF i <= Len(loads[t]) THEN loads[t][i] ELSE tally[Order[i]]

Ahead ==
  \A t \in Threads :
    loads[t] # <<>> =>
      loads[t][1] <= Shown(t, 2) + Shown(t, 3) + Shown(t, 4) + Shown(t, 5)

SInv == Statistics /\ Balance /\ Ahead

LEMMA Ordered ==
  /\ Order[1] = "completed" /\ Order[2] = "clean" /\ Order[3] = "sanitized"
  /\ Order[4] = "rejected" /\ Order[5] = "errored" /\ Len(Order) = 5
  BY DEF Order

LEMMA InitStatistics == Init => SInv
<1> SUFFICES ASSUME Init PROVE SInv
  OBVIOUS
<1>1. Statistics
  BY Ordered DEF Init, Statistics, Counters, Threads
<1>2. Undelivered = {}
  BY DEF Init, Undelivered
<1>3. Balance
  BY <1>2, FS_EmptySet DEF Init, Balance, VerdictsCounted, Verdicts
<1>4. Ahead
  BY DEF Init, Ahead, Threads
<1>5. QED
  BY <1>1, <1>3, <1>4 DEF SInv

(* What is loaded is a number, and the next counter is one of the five.    *)
LEMMA Loaded ==
  ASSUME Statistics, NEW t \in Threads
  PROVE  /\ loads[t] \in Seq(Nat) /\ Len(loads[t]) \in Nat /\ Len(loads[t]) <= 5
         /\ \A i \in 1 .. 5 : Order[i] \in Counters /\ Shown(t, i) \in Nat
<1>1. loads[t] \in Seq(Nat) /\ Len(loads[t]) \in Nat /\ Len(loads[t]) <= 5
  <2>1. loads[t] \in Seq(Nat) /\ Len(loads[t]) <= 5
    BY DEF Statistics, Order
  <2>2. QED
    BY <2>1
<1>2. \A i \in 1 .. 5 : Order[i] \in Counters
  BY Ordered DEF Counters, Verdicts
<1>3. \A i \in 1 .. 5 : tally[Order[i]] \in Nat
  BY <1>2 DEF Statistics
<1>4. ASSUME NEW i \in 1 .. 5, i <= Len(loads[t]) PROVE loads[t][i] \in Nat
  BY <1>1, <1>4
<1>5. QED
  BY <1>1, <1>2, <1>3, <1>4 DEF Shown

(* The counters only grow, so an answer that is being put together can     *)
(* only show more verdicts.                                                *)
LEMMA CountersGrow ==
  ASSUME SInv, loads' = loads, tally' \in [Counters -> Nat],
         \A n \in Counters : tally'[n] >= tally[n]
  PROVE  Statistics' /\ Ahead'
<1>1. Statistics'
  BY DEF SInv, Statistics
<1>2. ASSUME NEW t \in Threads, loads[t] # <<>>
      PROVE  loads[t][1] <= Shown(t, 2)' + Shown(t, 3)' + Shown(t, 4)' + Shown(t, 5)'
  <2>1. \A i \in 1 .. 5 : Shown(t, i) \in Nat /\ Order[i] \in Counters
    BY Loaded DEF SInv
  <2>2. ASSUME NEW i \in 1 .. 5 PROVE Shown(t, i)' \in Nat /\ Shown(t, i)' >= Shown(t, i)
    <3>1. CASE i <= Len(loads[t])
      BY <2>1, <3>1 DEF Shown
    <3>2. CASE ~ i <= Len(loads[t])
      BY <2>1, <3>2 DEF Shown, SInv, Statistics
    <3>3. QED
      BY <3>1, <3>2
  <2>3. /\ Shown(t, 2)' \in Nat /\ Shown(t, 2)' >= Shown(t, 2)
        /\ Shown(t, 3)' \in Nat /\ Shown(t, 3)' >= Shown(t, 3)
        /\ Shown(t, 4)' \in Nat /\ Shown(t, 4)' >= Shown(t, 4)
        /\ Shown(t, 5)' \in Nat /\ Shown(t, 5)' >= Shown(t, 5)
    BY <2>2
  <2>4. loads[t][1] \in Nat
    BY <1>2, Loaded DEF SInv
  <2>5. loads[t][1] <= Shown(t, 2) + Shown(t, 3) + Shown(t, 4) + Shown(t, 5)
    BY <1>2 DEF SInv, Ahead
  <2>6. QED
    BY <2>1, <2>3, <2>4, <2>5
<1>3. QED
  BY <1>1, <1>2 DEF Ahead

(* The total is loaded when it is at most the verdicts; the rest is what   *)
(* the answer was to show.                                                 *)
LEMMA LoadStep ==
  ASSUME SInv, NEW t \in Threads, Load(t)
  PROVE  SInv'
<1> DEFINE k == Len(loads[t])  x == tally[Order[k + 1]]
<1>1. /\ UNCHANGED <<pc, tally>> /\ k < 5
      /\ loads' = [loads EXCEPT ![t] = Append(loads[t], x)]
  BY Ordered DEF Load, serverVars
<1>2. k \in 0 .. 4 /\ loads[t] \in Seq(Nat) /\ Order[k + 1] \in Counters /\ x \in Nat
  <2>1. k \in 0 .. 4 /\ loads[t] \in Seq(Nat) /\ k + 1 \in 1 .. 5
    <3>1. k \in Nat /\ loads[t] \in Seq(Nat)
      BY Loaded DEF SInv
    <3> HIDE DEF k
    <3>2. QED
      BY <1>1, <3>1
  <2>2. Order[k + 1] \in Counters
    BY <2>1, Loaded DEF SInv
  <2>3. QED
    BY <2>1, <2>2 DEF SInv, Statistics
<1>3. /\ loads'[t] = Append(loads[t], x)
      /\ \A u \in Threads \ {t} : loads'[u] = loads[u]
      /\ Append(loads[t], x) \in Seq(Nat) /\ Len(Append(loads[t], x)) = k + 1
  BY <1>1, <1>2 DEF SInv, Statistics
<1>4. Statistics'
  <2>1. loads' \in [Threads -> Seq(Nat)]
    BY <1>1, <1>3 DEF SInv, Statistics
  <2>2. QED
    BY <1>1, <1>2, <1>3, <2>1, Ordered DEF SInv, Statistics
<1>5. Balance'
  BY <1>1 DEF SInv, Balance, Undelivered, VerdictsCounted
<1>6. ASSUME NEW u \in Threads, loads'[u] # <<>>
      PROVE  loads'[u][1] <= Shown(u, 2)' + Shown(u, 3)' + Shown(u, 4)' + Shown(u, 5)'
  <2>1. CASE u # t
    <3>1. ASSUME NEW i \in 1 .. 5 PROVE Shown(u, i)' = Shown(u, i)
      BY <2>1, <1>1, <1>3 DEF Shown
    <3>2. loads[u][1] <= Shown(u, 2) + Shown(u, 3) + Shown(u, 4) + Shown(u, 5)
      BY <1>6, <2>1, <1>3 DEF SInv, Ahead
    <3>3. QED
      BY <2>1, <3>1, <3>2, <1>3
  <2>2. CASE u = t
    <3>1. ASSUME NEW i \in 1 .. 5 PROVE Shown(t, i)' = Shown(t, i)
      <4>1. CASE i <= k
        BY <4>1, <1>2, <1>3 DEF Shown
      <4>2. CASE i = k + 1
        <5>1. Shown(t, i)' = Append(loads[t], x)[k + 1]
          BY <4>2, <1>2, <1>3 DEF Shown
        <5>2. Append(loads[t], x)[k + 1] = x
          BY <1>2
        <5>3. Shown(t, i) = x
          BY <4>2, <1>2 DEF Shown
        <5>4. QED
          BY <5>1, <5>2, <5>3
      <4>3. CASE i > k + 1
        BY <4>3, <1>1, <1>2, <1>3 DEF Shown
      <4>4. QED
        BY <4>1, <4>2, <4>3, <1>2
    <3>2. CASE k = 0
      <4>1. loads'[t][1] = tally["completed"]
        BY <3>2, <1>2, <1>3, Ordered
      <4>2. Shown(t, 2) + Shown(t, 3) + Shown(t, 4) + Shown(t, 5) = VerdictsCounted
        BY <3>2, Ordered DEF Shown, VerdictsCounted
      <4>3. tally["completed"] \in Nat
        BY DEF SInv, Statistics, Counters
      <4>4. tally["completed"] <= VerdictsCounted
        BY <4>3, FS_CardinalityType DEF SInv, Balance
      <4>5. QED
        BY <2>2, <3>1, <4>1, <4>2, <4>4
    <3>3. CASE k > 0
      <4>1. loads'[t][1] = loads[t][1] /\ loads[t] # <<>>
        BY <3>3, <1>2, <1>3
      <4>2. QED
        BY <2>2, <3>1, <4>1 DEF SInv, Ahead
    <3>4. QED
      BY <3>2, <3>3, <1>2
  <2>3. QED
    BY <2>1, <2>2
<1>7. Ahead'
  BY <1>6 DEF Ahead
<1>8. QED
  BY <1>4, <1>5, <1>7 DEF SInv

(* An answer leaves, or nothing is loaded or counted, and the same scans   *)
(* have a counted verdict.                                                 *)
LEMMA NotCounting ==
  ASSUME SInv, tally' = tally, Undelivered' = Undelivered,
         loads' = loads \/ \E t \in Threads : loads' = [loads EXCEPT ![t] = <<>>]
  PROVE  SInv'
<1>1. Balance'
  BY DEF SInv, Balance, VerdictsCounted
<1>2. CASE loads' = loads
  <2>1. \A n \in Counters : tally'[n] >= tally[n]
    BY DEF SInv, Statistics
  <2>2. tally' \in [Counters -> Nat]
    BY DEF SInv, Statistics
  <2>3. QED
    BY <1>1, <1>2, <2>1, <2>2, CountersGrow DEF SInv
<1>3. ASSUME NEW t \in Threads, loads' = [loads EXCEPT ![t] = <<>>]
      PROVE  SInv'
  <2>1. /\ loads'[t] = <<>>
        /\ \A u \in Threads \ {t} : loads'[u] = loads[u]
        /\ loads' \in [Threads -> Seq(Nat)]
    BY <1>3 DEF SInv, Statistics
  <2>2. Statistics'
    <3>1. Len(loads'[t]) = 0 /\ Len(Order) = 5
      BY <2>1, Ordered
    <3>2. \A u \in Threads \ {t} : Len(loads'[u]) <= Len(Order)
      BY <2>1 DEF SInv, Statistics
    <3>3. QED
      BY <1>3, <2>1, <3>1, <3>2 DEF SInv, Statistics
  <2>3. ASSUME NEW u \in Threads, loads'[u] # <<>>
        PROVE  loads'[u][1] <= Shown(u, 2)' + Shown(u, 3)' + Shown(u, 4)' + Shown(u, 5)'
    <3>1. u # t /\ loads'[u] = loads[u]
      BY <2>1, <2>3
    <3>2. ASSUME NEW i \in 1 .. 5 PROVE Shown(u, i)' = Shown(u, i)
      BY <3>1 DEF Shown
    <3>3. QED
      BY <2>3, <3>1, <3>2 DEF SInv, Ahead
  <2>4. QED
    BY <1>1, <2>2, <2>3 DEF SInv, Ahead
<1>4. QED
  BY <1>2, <1>3

(* A verdict is counted before the scan is counted as completed.           *)
LEMMA CountStep ==
  ASSUME IInv, SInv, NEW s \in Servers, Count(s)
  PROVE  SInv'
<1>1. PICK v \in Verdicts : tally' = [tally EXCEPT ![v] = tally[v] + 1]
  BY DEF Count
<1>2. /\ loads' = loads /\ pc[s] = "scanning"
      /\ pc' = [pc EXCEPT ![s] = "counted"] /\ pc \in [Servers -> Tasks]
  BY DEF Count, IInv, Shapes, ThreadShapes
<1>3. /\ tally \in [Counters -> Nat] /\ v \in Counters /\ v # "completed"
      /\ "completed" \in Counters
  BY DEF SInv, Statistics, Counters, Verdicts
<1>4. /\ tally' \in [Counters -> Nat] /\ tally'["completed"] = tally["completed"]
      /\ \A n \in Counters : tally'[n] >= tally[n]
  BY <1>1, <1>3
<1>5. Undelivered' = Undelivered \cup {s} /\ s \notin Undelivered
  BY <1>2 DEF Undelivered
<1>6. IsFiniteSet(Undelivered') /\ Cardinality(Undelivered') = Cardinality(Undelivered) + 1
  BY <1>5, FS_AddElement DEF SInv, Balance
<1>7. VerdictsCounted' = VerdictsCounted + 1
  BY <1>1, <1>3 DEF VerdictsCounted, Verdicts, Counters
<1>8. tally["completed"] \in Nat /\ Cardinality(Undelivered) \in Nat
  BY <1>3, FS_CardinalityType DEF SInv, Balance
<1>9. Balance'
  BY <1>4, <1>6, <1>7, <1>8 DEF SInv, Balance
<1>10. QED
  BY <1>2, <1>4, <1>9, CountersGrow DEF SInv

LEMMA DeliverStep ==
  ASSUME IInv, SInv, NEW s \in Servers, Deliver(s)
  PROVE  SInv'
<1>1. /\ loads' = loads /\ pc[s] = "counted"
      /\ tally' = [tally EXCEPT !["completed"] = tally["completed"] + 1]
      /\ pc' = [pc EXCEPT ![s] = "popping"] /\ pc \in [Servers -> Tasks]
  BY DEF Deliver, Release, IInv, Shapes, ThreadShapes
<1>2. tally \in [Counters -> Nat] /\ "completed" \in Counters
  BY DEF SInv, Statistics, Counters
<1>3. /\ tally' \in [Counters -> Nat] /\ tally'["completed"] = tally["completed"] + 1
      /\ \A n \in Counters : tally'[n] >= tally[n]
      /\ VerdictsCounted' = VerdictsCounted
  BY <1>1, <1>2 DEF VerdictsCounted
<1>4. Undelivered' = Undelivered \ {s} /\ s \in Undelivered
  BY <1>1 DEF Undelivered
<1>5. IsFiniteSet(Undelivered') /\ Cardinality(Undelivered') = Cardinality(Undelivered) - 1
  BY <1>4, FS_RemoveElement DEF SInv, Balance
<1>6. tally["completed"] \in Nat /\ Cardinality(Undelivered) \in Nat
  BY <1>2, FS_CardinalityType DEF SInv, Balance
<1>7. Balance'
  BY <1>3, <1>5, <1>6 DEF SInv, Balance
<1>8. QED
  BY <1>1, <1>3, <1>7, CountersGrow DEF SInv

(* The steps of a server that are not the end of a scan.                   *)
LEMMA SameUndelivered ==
  ASSUME IInv, NEW s \in Servers, NEW a \in Tasks \ {"counted"},
         pc[s] # "counted", pc' = [pc EXCEPT ![s] = a]
  PROVE  Undelivered' = Undelivered
  BY DEF IInv, Shapes, ThreadShapes, Undelivered

LEMMA ServerStatistics ==
  ASSUME IInv, SInv, NEW s \in Servers, Serve(s) \/ Scan(s)
  PROVE  SInv'
<1>1. CASE Load(s)
  BY <1>1, LoadStep DEF Threads
<1>2. CASE Count(s)
  BY <1>2, CountStep
<1>3. CASE Deliver(s)
  BY <1>3, DeliverStep
<1>4. ASSUME NEW a \in Tasks \ {"counted"}, pc[s] # "counted", pc' = [pc EXCEPT ![s] = a],
             tally' = tally,
             loads' = loads \/ loads' = [loads EXCEPT ![s] = <<>>]
      PROVE  SInv'
  <2>1. Undelivered' = Undelivered
    BY <1>4, SameUndelivered
  <2>2. s \in Threads
    BY DEF Threads
  <2>3. QED
    BY <1>4, <2>1, <2>2, NotCounting
<1>5. CASE Pop(s)
  BY <1>4, <1>5 DEF Pop, Tasks
<1>6. CASE Exit(s)
  BY <1>4, <1>6 DEF Exit, Tasks
<1>7. CASE Dispatch(s)
  <2> DEFINE a == CASE request[serving[s]] = "scan" -> "scanning"
                    [] request[serving[s]] = "attestation" -> "asking"
                    [] OTHER -> "answering"
  <2>1. a \in Tasks \ {"counted"}
    BY DEF Tasks
  <2>2. pc[s] # "counted" /\ pc' = [pc EXCEPT ![s] = a] /\ tally' = tally /\ loads' = loads
    BY <1>7 DEF Dispatch
  <2> HIDE DEF a
  <2>3. QED
    BY <1>4, <2>1, <2>2
<1>8. CASE Unreadable(s) \/ UnknownOp(s)
  BY <1>4, <1>8 DEF Unreadable, UnknownOp, Release, Tasks
<1>9. CASE Answer(s)
  <2>1. /\ pc[s] # "counted" /\ pc' = [pc EXCEPT ![s] = "popping"]
        /\ tally' = tally /\ loads' = [loads EXCEPT ![s] = <<>>]
    BY <1>9 DEF Answer, Answering
  <2>2. QED
    BY <1>4, <2>1 DEF Tasks
<1>10. CASE Attested(s) \/ Fail(s)
  BY <1>4, <1>10 DEF Attested, Fail, Release, Tasks
<1>11. QED
  BY <1>1, <1>2, <1>3, <1>5, <1>6, <1>7, <1>8, <1>9, <1>10 DEF Serve, Scan

LEMMA NextStatistics == ASSUME IInv, SInv, [Next]_vars PROVE SInv'
<1>1. ASSUME UNCHANGED <<pc, tally, loads>> PROVE SInv'
  BY <1>1, NotCounting DEF Undelivered
<1>2. CASE \E c \in Conns : Connect(c) \/ Send(c) \/ Hangup(c)
  BY <1>1, <1>2 DEF Connect, Send, Hangup, serverVars
<1>3. CASE Signal
  BY <1>1, <1>3 DEF Signal, serverVars
<1>4. CASE LoopStep
  <2>1. CASE \E c \in Conns : Accept(c)
    BY <1>1, <2>1 DEF Accept, serverVars
  <2>2. CASE Fast
    BY <1>1, <2>2 DEF Fast, FastAnswer, FastRoute, FastQueue, FastWait, serverVars
  <2>3. CASE Push \/ Shed
    BY <1>1, <2>3 DEF Push, Shed, serverVars
  <2>4. CASE Shutdown \/ ShutdownControl \/ Join
    BY <1>1, <2>4 DEF Shutdown, ShutdownControl, Join, serverVars
  <2>5. CASE Load(Loop)
    BY <2>5, LoadStep DEF Threads
  <2>6. CASE Answer(Loop)
    <3>1. UNCHANGED <<pc, tally>> /\ loads' = [loads EXCEPT ![Loop] = <<>>]
      BY <2>6 DEF Answer, serverVars
    <3>2. QED
      BY <3>1, NotCounting DEF Undelivered, Threads
  <2>7. QED
    BY <1>4, <2>1, <2>2, <2>3, <2>4, <2>5, <2>6 DEF LoopStep
<1>5. CASE \E s \in Servers : Serve(s)
  BY <1>5, ServerStatistics
<1>6. CASE \E w \in Workers : Scan(w)
  BY <1>6, ServerStatistics DEF Servers
<1>7. CASE UNCHANGED vars
  BY <1>1, <1>7 DEF vars, serverVars
<1>8. QED
  BY <1>2, <1>3, <1>4, <1>5, <1>6, <1>7 DEF Next

LEMMA Agreeing == SInv => Snapshot
<1> SUFFICES ASSUME SInv, NEW t \in Threads, Len(loads[t]) = Len(Order)
             PROVE  LET shown == [n \in ToSet(Order) |->
                                    loads[t][CHOOSE i \in 1 .. Len(Order) : Order[i] = n]]
                    IN  shown["completed"] <=
                          shown["clean"] + shown["sanitized"] + shown["rejected"] + shown["errored"]
  BY DEF Snapshot, Threads
<1>1. Len(loads[t]) = 5 /\ loads[t] # <<>>
  <2>1. Len(loads[t]) = 5
    BY Ordered
  <2>2. QED
    BY <2>1
<1>2. loads[t][1] <= loads[t][2] + loads[t][3] + loads[t][4] + loads[t][5]
  BY <1>1 DEF SInv, Ahead, Shown
<1>3. ASSUME NEW i \in 1 .. 5
      PROVE  Order[i] \in ToSet(Order) /\ (CHOOSE j \in 1 .. Len(Order) : Order[j] = Order[i]) = i
  <2>1. \A j \in 1 .. 5 : Order[j] = Order[i] => j = i
    BY Ordered
  <2>2. i \in DOMAIN Order
    BY DEF Order
  <2>3. QED
    BY <2>1, <2>2, Ordered DEF ToSet
<1> DEFINE shown == [n \in ToSet(Order) |->
                       loads[t][CHOOSE i \in 1 .. Len(Order) : Order[i] = n]]
<1>4. \A i \in 1 .. 5 : shown[Order[i]] = loads[t][i]
  BY <1>3
<1>5. /\ shown["completed"] = loads[t][1] /\ shown["clean"] = loads[t][2]
      /\ shown["sanitized"] = loads[t][3] /\ shown["rejected"] = loads[t][4]
      /\ shown["errored"] = loads[t][5]
  <2> HIDE DEF shown
  <2>1. QED
    BY <1>4, Ordered
<1>6. QED
  BY <1>2, <1>5

(* However the loads of one answer fall among the counting of scans in the *)
(* other threads, it never shows more scans completed than verdicts.       *)
THEOREM MetricsAgree == Spec => []Snapshot
<1>1. Init => SInv
  BY InitStatistics
<1>2. IInv /\ SInv /\ [Next]_vars => SInv'
  BY NextStatistics
<1>3. SInv => Snapshot
  BY Agreeing
<1>4. QED
  BY <1>1, <1>2, <1>3, Invariance, PTL DEF Spec

-----------------------------------------------------------------------------
(* The limits: neither queue outgrows its ring, and the fast path waits no *)
(* longer than it may.                                                     *)
Limits ==
  /\ request \in Requests
  /\ budget \in 0 .. Rounds
  /\ \A q \in Queues : Len(queue[q]) <= Capacity
  /\ running \in BOOLEAN

LEMMA InitLimits == Init => Limits
  BY DEF Init, Limits

LEMMA NextLimits == ASSUME IInv, Limits, [Next]_vars PROVE Limits'
<1>1. ASSUME UNCHANGED <<request, budget, queue>>, running' \in BOOLEAN PROVE Limits'
  BY <1>1 DEF Limits
<1>2. running' = running => running' \in BOOLEAN
  BY DEF Limits
<1>3. CASE \E c \in Conns : Connect(c) \/ Send(c) \/ Hangup(c)
  BY <1>1, <1>2, <1>3 DEF Connect, Send, Hangup, loopVars
<1>4. CASE Signal
  BY <1>1, <1>4 DEF Signal, clientVars, loopVars
<1>5. CASE LoopStep
  <2>1. CASE \E c \in Conns : Accept(c)
    BY <2>1 DEF Accept, Limits, clientVars
  <2>2. CASE FastAnswer \/ FastRoute \/ FastQueue
    BY <1>1, <1>2, <2>2 DEF FastAnswer, FastRoute, FastQueue, clientVars
  <2>3. CASE FastWait
    BY <2>3 DEF FastWait, Limits, clientVars
  <2>4. CASE Push
    <3>1. queue[dest] \in Seq(Conns) /\ held \in Conns /\ dest \in Queues
      BY <2>4 DEF Push, IInv, Holding, Shapes, ThreadShapes
    <3>2. /\ queue'[dest] = Append(queue[dest], held)
          /\ \A q \in Queues \ {dest} : queue'[q] = queue[q]
          /\ Len(queue[dest]) < Capacity
      BY <2>4, <3>1 DEF Push, IInv, Shapes, ThreadShapes
    <3>3. Len(queue'[dest]) <= Capacity
      BY <3>1, <3>2
    <3>4. QED
      BY <2>4, <3>2, <3>3 DEF Push, Limits, clientVars
  <2>5. CASE Shed \/ Load(Loop)
    BY <1>1, <1>2, <2>5 DEF Shed, Load, clientVars, loopVars
  <2>6. CASE Answer(Loop)
    BY <1>1, <1>2, <2>6 DEF Answer, clientVars
  <2>7. CASE Shutdown \/ ShutdownControl \/ Join
    BY <1>1, <1>2, <2>7 DEF Shutdown, ShutdownControl, Join, clientVars
  <2>8. QED
    BY <1>5, <2>1, <2>2, <2>3, <2>4, <2>5, <2>6, <2>7 DEF LoopStep, Fast
<1>6. ASSUME NEW s \in Servers, Serve(s) \/ Scan(s) PROVE Limits'
  <2>1. CASE Pop(s)
    <3>1. Source(s) \in Queues /\ queue[Source(s)] \in Seq(Conns) /\ queue[Source(s)] # <<>>
      BY <2>1 DEF Pop, Source, Queues, IInv, Shapes, ThreadShapes
    <3>2. /\ queue'[Source(s)] = Tail(queue[Source(s)])
          /\ \A q \in Queues \ {Source(s)} : queue'[q] = queue[q]
      BY <2>1, <3>1 DEF Pop, IInv, Shapes, ThreadShapes
    <3>3. Len(queue'[Source(s)]) <= Capacity
      BY <3>1, <3>2 DEF Limits
    <3>4. QED
      BY <2>1, <3>2, <3>3 DEF Pop, Limits, clientVars, loopVars
  <2>2. CASE Exit(s) \/ Dispatch(s) \/ Unreadable(s) \/ UnknownOp(s)
    BY <1>1, <1>2, <2>2 DEF Exit, Dispatch, Unreadable, UnknownOp, clientVars, loopVars
  <2>3. CASE Load(s) \/ Attested(s) \/ Count(s) \/ Fail(s) \/ Deliver(s)
    BY <1>1, <1>2, <2>3 DEF Load, Attested, Count, Fail, Deliver, clientVars, loopVars
  <2>4. CASE Answer(s)
    BY <1>1, <1>2, <2>4 DEF Answer, clientVars
  <2>5. QED
    BY <1>6, <2>1, <2>2, <2>3, <2>4 DEF Serve, Scan
<1>7. CASE UNCHANGED vars
  BY <1>1, <1>2, <1>7 DEF vars, clientVars, loopVars
<1>8. QED
  BY <1>3, <1>4, <1>5, <1>6, <1>7 DEF Next, Servers

(* Every variable keeps its type, the rings and the waiting their limits.  *)
THEOREM TypeCorrect == Spec => []TypeOK
<1>1. Init => SInv /\ Limits
  BY InitStatistics, InitLimits
<1>2. IInv /\ SInv /\ Limits /\ [Next]_vars => (SInv /\ Limits)'
  BY NextStatistics, NextLimits
<1>3. IInv /\ SInv /\ Limits => TypeOK
  <2> SUFFICES ASSUME IInv, SInv, Limits PROVE TypeOK
    OBVIOUS
  <2>1. /\ DOMAIN queue = Queues /\ DOMAIN loads = Threads
        /\ \A q \in Queues : queue[q] \in Seq(Conns)
        /\ \A t \in Threads : loads[t] \in Seq(Nat) /\ Len(loads[t]) <= Len(Order)
    BY DEF IInv, Shapes, ThreadShapes, SInv, Statistics
  <2>2. QED
    BY <2>1 DEF TypeOK, IInv, Shapes, ClientShapes, ThreadShapes, SInv, Statistics, Limits,
                Inboxes, Fates, Stops, Tasks, Counters, Threads
<1>4. QED
  BY <1>1, <1>2, <1>3, Invariance, PTL DEF Spec

-----------------------------------------------------------------------------
(* Each queue with its servers is a hand-off, the same that the ring of    *)
(* WorkQueue implements.                                                   *)

Pool(q) == {s \in Servers : Source(s) = q}

Handing(q) == INSTANCE Handoff
  WITH Workers <- Pool(q),
       queue <- queue[q],
       serving <- [s \in Pool(q) |-> serving[s]],
       done <- {c \in Conns : fate[c] = "closed"},
       open <- ~ down[q]

Closed == {c \in Conns : fate[c] = "closed"}

LEMMA Sources ==
  /\ Servers # {} /\ \A s \in Servers : Source(s) \in Queues
  /\ \A q \in Queues, s \in Servers : s \in Pool(q) <=> Source(s) = q
BY DEF Source, Queues, Pool, Servers

LEMMA InitHands == ASSUME NEW q \in Queues, Init PROVE Handing(q)!Init
<1>1. queue[q] = <<>> /\ down[q] = FALSE
  BY DEF Init
<1>2. [s \in Pool(q) |-> serving[s]] = [s \in Pool(q) |-> NoConn]
  BY DEF Init, Pool
<1>3. {c \in Conns : fate[c] = "closed"} = {}
  BY DEF Init
<1>4. QED
  BY <1>1, <1>2, <1>3 DEF Handing!Init

(* A step that is nothing to this queue.                                   *)
LEMMA HandRests ==
  ASSUME NEW q \in Queues, queue'[q] = queue[q], down'[q] = down[q], Closed' = Closed,
         \A s \in Pool(q) : serving'[s] = serving[s]
  PROVE  UNCHANGED Handing(q)!vars
BY DEF Handing!vars, Closed

(* A connection closed that did not come through this queue.               *)
LEMMA HandTurns ==
  ASSUME IInv, NEW q \in Queues, NEW c \in Conns, fate[c] \notin {"queued", "closed"},
         \A s \in Pool(q) : serving[s] # c,
         queue'[q] = queue[q], down'[q] = down[q], Closed' = Closed \cup {c},
         \A s \in Pool(q) : serving'[s] = serving[s]
  PROVE  Handing(q)!TurnAway(c)
<1>1. \A i \in 1 .. Len(queue[q]) : queue[q][i] # c
  <2>1. queue[q] \in Seq(Conns)
    BY DEF IInv, Shapes, ThreadShapes
  <2>2. 1 .. Len(queue[q]) \subseteq Nat
    BY <2>1
  <2>3. QED
    BY <2>2 DEF IInv, Waiting, InLine
<1>2. Handing(q)!Fresh(c)
  BY <1>1 DEF Handing!Fresh
<1>3. QED
  BY <1>2 DEF Handing!TurnAway, Closed

(* The loop's connection leaves, or one from the backlog is refused.       *)
LEMMA LoopHands ==
  ASSUME IInv, NEW q \in Queues, LoopStep
  PROVE  Handing(q)!Next \/ UNCHANGED Handing(q)!vars
<1>1. ASSUME NEW c \in Conns, fate[c] \in {"backlog", "held"}, UNCHANGED <<queue, down, serving>>,
             fate' = [fate EXCEPT ![c] = "closed"]
      PROVE  Handing(q)!TurnAway(c)
  <2>1. Closed' = Closed \cup {c}
    BY <1>1 DEF Closed, IInv, Shapes, ClientShapes
  <2>2. \A s \in Pool(q) : serving[s] # c
    BY <1>1 DEF IInv, Handling, Pool
  <2>3. QED
    BY <1>1, <2>1, <2>2, HandTurns
<1>2. ASSUME UNCHANGED <<queue, down, serving, fate>>
      PROVE  UNCHANGED Handing(q)!vars
  BY <1>2, HandRests DEF Closed
<1>3. held # NoConn => held \in Conns /\ fate[held] = "held"
  BY DEF IInv, Holding, Shapes, ThreadShapes
<1>4. ASSUME NEW c \in Conns, Accept(c) PROVE Handing(q)!TurnAway(c) \/ UNCHANGED Handing(q)!vars
  <2>1. CASE request[c] = "foreign"
    BY <1>1, <1>4, <2>1 DEF Accept, serverVars
  <2>2. CASE request[c] # "foreign"
    <3>1. Closed' = Closed
      BY <1>4, <2>2 DEF Accept, Closed, IInv, Shapes, ClientShapes
    <3>2. QED
      BY <1>4, <3>1, HandRests DEF Accept, serverVars
  <2>3. QED
    BY <2>1, <2>2
<1>5. CASE Fast
  BY <1>2, <1>5 DEF Fast, FastAnswer, FastRoute, FastQueue, FastWait, serverVars
<1>6. CASE Push
  <2>1. held \in Conns /\ fate[held] = "held" /\ dest \in Queues /\ Len(queue[dest]) < Capacity
        /\ queue' = [queue EXCEPT ![dest] = Append(@, held)] /\ ~ down[dest]
        /\ UNCHANGED <<down, serving>>
    BY <1>3, <1>6 DEF Push, IInv, Holding, Ending, Shapes, ThreadShapes, serverVars
  <2>2. Closed' = Closed
    BY <1>6, <2>1 DEF Push, Closed, IInv, Shapes, ClientShapes
  <2>3. CASE q = dest
    <3>1. PICK c \in Conns : c = held
      BY <2>1
    <3>2. \A i \in 1 .. Len(queue[q]) : queue[q][i] # c
      <4>1. queue[q] \in Seq(Conns)
        BY DEF IInv, Shapes, ThreadShapes
      <4>2. 1 .. Len(queue[q]) \subseteq Nat
        BY <4>1
      <4>3. QED
        BY <2>1, <3>1, <4>2 DEF IInv, Waiting, InLine
    <3>3. \A s \in Pool(q) : serving[s] # c
      BY <2>1, <3>1 DEF IInv, Handling, Pool
    <3>4. queue'[q] = Append(queue[q], c)
      BY <2>1, <2>3, <3>1 DEF IInv, Shapes, ThreadShapes
    <3>5. Handing(q)!Fresh(c)
      BY <2>1, <3>1, <3>2, <3>3 DEF Handing!Fresh
    <3>6. Handing(q)!Enqueue(c)
      BY <2>1, <2>2, <2>3, <3>4, <3>5 DEF Handing!Enqueue, Closed
    <3>7. QED
      BY <3>6 DEF Handing!Next
  <2>4. CASE q # dest
    <3>1. queue'[q] = queue[q]
      BY <2>1, <2>4 DEF IInv, Shapes, ThreadShapes
    <3>2. QED
      BY <2>1, <2>2, <3>1, HandRests
  <2>5. QED
    BY <2>3, <2>4
<1>7. CASE Shed \/ Answer(Loop)
  <2>1. held \in Conns /\ fate[held] = "held"
    BY <1>3, <1>7 DEF Shed, Answer, Answering, IInv, Holding
  <2>2. fate' = [fate EXCEPT ![held] = "closed"] /\ UNCHANGED <<queue, down, serving>>
    BY <1>7 DEF Shed, Answer, Asker, CloseWith, serverVars
  <2>3. QED
    BY <1>1, <2>1, <2>2 DEF Handing!Next
<1>8. CASE Load(Loop) \/ Join
  BY <1>2, <1>8 DEF Load, Join, serverVars
<1>9. CASE Shutdown \/ ShutdownControl
  <2>1. UNCHANGED <<fate, queue, serving>> /\ (down'[q] = down[q] \/ down'[q] = TRUE)
    BY <1>9 DEF Shutdown, ShutdownControl, serverVars, IInv, Shapes, ThreadShapes, Queues
  <2>2. CASE down'[q] = down[q]
    BY <2>1, <2>2, HandRests DEF Closed
  <2>3. CASE down'[q] = TRUE
    <3>1. Handing(q)!Close
      BY <2>1, <2>3 DEF Handing!Close
    <3>2. QED
      BY <3>1 DEF Handing!Next
  <2>4. QED
    BY <2>1, <2>2, <2>3
<1>10. QED
  BY <1>4, <1>5, <1>6, <1>7, <1>8, <1>9 DEF LoopStep, Handing!Next

(* A server takes a connection from its own queue, or ends the one it has. *)
LEMMA ServerHands ==
  ASSUME IInv, NEW q \in Queues, NEW s \in Servers, Serve(s) \/ Scan(s)
  PROVE  Handing(q)!Next \/ UNCHANGED Handing(q)!vars
<1>1. ASSUME UNCHANGED <<queue, down, serving, fate>>
      PROVE  UNCHANGED Handing(q)!vars
  BY <1>1, HandRests DEF Closed
<1>2. CASE Pop(s)
  <2>1. PICK c \in Conns : c = Head(queue[Source(s)]) /\ fate[c] = "queued"
    <3>1. queue[Source(s)] \in Seq(Conns) /\ queue[Source(s)] # <<>> /\ Source(s) \in Queues
      BY <1>2, Sources DEF Pop, IInv, Shapes, ThreadShapes
    <3>2. 1 \in 1 .. Len(queue[Source(s)]) /\ Head(queue[Source(s)]) = queue[Source(s)][1]
          /\ Head(queue[Source(s)]) \in Conns
      BY <3>1
    <3>3. QED
      BY <3>1, <3>2 DEF IInv, Waiting, InLine
  <2>2. /\ serving' = [serving EXCEPT ![s] = c] /\ fate' = [fate EXCEPT ![c] = "served"]
        /\ queue' = [queue EXCEPT ![Source(s)] = Tail(@)] /\ down' = down
        /\ queue[Source(s)] # <<>> /\ serving[s] = NoConn
    BY <1>2, <2>1 DEF Pop, IInv, Handling
  <2>3. Closed' = Closed
    BY <2>1, <2>2 DEF Closed, IInv, Shapes, ClientShapes
  <2>4. \A t \in Servers : serving'[t] = IF t = s THEN c ELSE serving[t]
    BY <2>2 DEF IInv, Shapes, ThreadShapes
  <2>5. CASE Source(s) = q
    <3>1. s \in Pool(q) /\ queue'[q] = Tail(queue[q]) /\ c = Head(queue[q])
      BY <2>1, <2>2, <2>5, Sources DEF IInv, Shapes, ThreadShapes
    <3>2. [t \in Pool(q) |-> serving'[t]] = [[t \in Pool(q) |-> serving[t]] EXCEPT ![s] = c]
      BY <2>4, <3>1 DEF Pool
    <3>3. Handing(q)!Dequeue(s)
      BY <2>2, <2>3, <2>5, <3>1, <3>2 DEF Handing!Dequeue, Closed
    <3>4. QED
      BY <3>1, <3>3 DEF Handing!Next
  <2>6. CASE Source(s) # q
    <3>1. queue'[q] = queue[q] /\ \A t \in Pool(q) : serving'[t] = serving[t]
      BY <2>2, <2>4, <2>6 DEF IInv, Shapes, ThreadShapes, Pool
    <3>2. QED
      BY <2>2, <2>3, <3>1, HandRests
  <2>7. QED
    BY <2>5, <2>6
<1>3. ASSUME pc[s] \notin {"popping", "exited"}, UNCHANGED <<queue, down>>,
             fate' = [fate EXCEPT ![serving[s]] = "closed"],
             serving' = [serving EXCEPT ![s] = NoConn]
      PROVE  Handing(q)!Next
  <2>1. PICK c \in Conns : c = serving[s] /\ fate[c] = "served"
    BY <1>3 DEF IInv, Handling, Shapes, ThreadShapes
  <2>2. Closed' = Closed \cup {c}
    BY <1>3, <2>1 DEF Closed, IInv, Shapes, ClientShapes
  <2>3. \A t \in Servers : serving'[t] = IF t = s THEN NoConn ELSE serving[t]
    BY <1>3 DEF IInv, Shapes, ThreadShapes
  <2>4. CASE Source(s) = q
    <3>1. s \in Pool(q) /\ serving[s] # NoConn
      BY <2>1, <2>4, Sources, DaemonAssumption
    <3>2. [t \in Pool(q) |-> serving'[t]] = [[t \in Pool(q) |-> serving[t]] EXCEPT ![s] = NoConn]
      BY <2>3, <3>1 DEF Pool
    <3>3. Handing(q)!Finish(s)
      BY <1>3, <2>1, <2>2, <3>1, <3>2 DEF Handing!Finish, Closed
    <3>4. QED
      BY <3>1, <3>3 DEF Handing!Next
  <2>5. CASE Source(s) # q
    <3>1. \A t \in Pool(q) : t # s /\ t \in Servers
      BY <2>5 DEF Pool
    <3>2. \A t \in Pool(q) : serving[t] # c
      BY <2>1, <3>1, DaemonAssumption DEF IInv, Handling
    <3>3. \A t \in Pool(q) : serving'[t] = serving[t]
      BY <2>3, <3>1
    <3>4. Handing(q)!TurnAway(c)
      BY <1>3, <2>1, <2>2, <3>2, <3>3, HandTurns
    <3>5. QED
      BY <3>4 DEF Handing!Next
  <2>6. QED
    BY <2>4, <2>5
<1>4. CASE Exit(s) \/ Dispatch(s) \/ Count(s) \/ Load(s)
  BY <1>1, <1>4 DEF Exit, Dispatch, Count, Load, serverVars
<1>5. CASE Unreadable(s) \/ UnknownOp(s) \/ Attested(s) \/ Deliver(s) \/ Fail(s)
  BY <1>3, <1>5 DEF Unreadable, UnknownOp, Attested, Deliver, Fail, CloseWith, Release
<1>6. CASE Answer(s)
  <2>1. s # Loop
    BY DaemonAssumption
  <2>2. QED
    BY <1>3, <1>6, <2>1 DEF Answer, Answering, Asker, CloseWith
<1>7. QED
  BY <1>2, <1>4, <1>5, <1>6 DEF Serve, Scan

LEMMA NextHands ==
  ASSUME IInv, NEW q \in Queues, [Next]_vars
  PROVE  [Handing(q)!Next]_(Handing(q)!vars)
<1>1. ASSUME UNCHANGED <<queue, down, serving>>, Closed' = Closed
      PROVE  UNCHANGED Handing(q)!vars
  BY <1>1, HandRests
<1>2. ASSUME NEW c \in Conns, Connect(c) \/ Send(c) \/ Hangup(c)
      PROVE  UNCHANGED Handing(q)!vars
  <2>1. Closed' = Closed
    BY <1>2 DEF Connect, Send, Hangup, Closed, IInv, Shapes, ClientShapes
  <2>2. QED
    BY <1>1, <1>2, <2>1 DEF Connect, Send, Hangup, serverVars
<1>3. CASE Signal \/ UNCHANGED vars
  BY <1>1, <1>3 DEF Signal, vars, serverVars, Closed
<1>4. CASE LoopStep
  BY <1>4, LoopHands
<1>5. ASSUME NEW s \in Servers, Serve(s) \/ Scan(s)
      PROVE  Handing(q)!Next \/ UNCHANGED Handing(q)!vars
  BY <1>5, ServerHands
<1>6. QED
  BY <1>2, <1>3, <1>4, <1>5 DEF Next, Servers

(* Each of the two queues hands its connections over as WorkQueue does:    *)
(* to one server, once, in order, and none after its shutdown; and what    *)
(* the loop or the other queue's servers close never enters it.            *)
THEOREM QueuesHandOff == ASSUME NEW q \in Queues PROVE Spec => Handing(q)!Spec
<1>1. Init => Handing(q)!Init
  BY InitHands
<1>2. IInv /\ [Next]_vars => [Handing(q)!Next]_(Handing(q)!vars)
  BY NextHands
<1>3. QED
  BY <1>1, <1>2, Invariance, PTL DEF Spec, Handing!Spec
=============================================================================
