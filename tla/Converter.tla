----------------------------- MODULE Converter -----------------------------
(***************************************************************************)
(* External converters (sanitizers/memfd_helpers.h as sanitize_video,      *)
(* sanitize_audio and sanitize_pdf use it).  A worker puts the upload in a *)
(* memfd, forks a converter that reads it and writes another memfd, polls  *)
(* it under a deadline, and tries again with other arguments and a fresh   *)
(* output when that failed, all within one budget of time.  The workers    *)
(* are threads: they share one table of descriptors, a number that is      *)
(* closed is given out again, and a fork copies the table as it stands.    *)
(***************************************************************************)
EXTENDS Integers, FiniteSets

CONSTANTS
  Workers,    \* the worker threads
  Nobody,     \* no worker: a number that is not open
  MaxFd,      \* bound: descriptor numbers 0 .. MaxFd
  Tick,       \* units of time in a second
  PollTime,   \* units a worker sleeps between two looks at its child
  Budget,     \* TEE_SCAN_CONVERTER_BUDGET_SECS
  AttemptCap  \* TEE_SUBPROC_WALL_CAP_SECS

ASSUME NobodyAssumption == Nobody \notin Workers
ASSUME FdAssumption == MaxFd \in Nat
ASSUME TimeAssumption ==
  /\ Tick \in Nat \ {0}
  /\ PollTime \in Nat \ {0}
  /\ Budget \in Nat \ {0}
  /\ AttemptCap \in Nat \ {0}

VARIABLES
  table,    \* the descriptors of the process and the memfds they name
  pc,       \* where each worker is
  format,   \* what it converts
  io,       \* in_fd, out_fd, meta_fd of each worker, NoFd when closed
  attempt,  \* the attempt it is at
  clock,    \* time since the second in which its chain began
  due,      \* when it stops waiting for its child
  child,    \* its converter process
  got       \* what its last conversion returned

vars == <<table, pc, format, io, attempt, clock, due, child, got>>

Fds == 0 .. MaxFd
NoFd == -1

Formats == {"video", "audio", "audio_copy", "pdf"}

(* Remux and re-encode; copy, re-encode and lenient; copy only, for a type  *)
(* without a codec; Ghostscript runs once.                                  *)
Attempts(f) == CASE f = "video" -> 2 [] f = "audio" -> 3 [] OTHER -> 1

(* A memfd: whose, what for, FD_CLOEXEC, the attempts that wrote to it, and *)
(* whether the last one wrote all it had.                                   *)
Memfd(w, role) ==
  [owner |-> w, role |-> role, cloexec |-> TRUE, wrote |-> {}, whole |-> FALSE]

FreeFd == Memfd(Nobody, "none")

Roles == {"in", "out", "meta"}

NoIo == [r \in Roles |-> NoFd]

NoChild == [state |-> "none", reach |-> {}]

Nothing == [owner |-> Nobody, wrote |-> {}, whole |-> FALSE, attempt |-> 0]

Init ==
  /\ table = [n \in Fds |-> FreeFd]
  /\ pc = [w \in Workers |-> "idle"]
  /\ format = [w \in Workers |-> "none"]
  /\ io = [w \in Workers |-> NoIo]
  /\ attempt = [w \in Workers |-> 1]
  /\ clock = [w \in Workers |-> 0]
  /\ due = [w \in Workers |-> 0]
  /\ child = [w \in Workers |-> NoChild]
  /\ got = [w \in Workers |-> Nothing]

-----------------------------------------------------------------------------
(* Descriptors.                                                             *)

Free == {n \in Fds : table[n] = FreeFd}

Lowest(n) == n \in Free /\ \A m \in Free : n <= m

Goto(w, l) == pc' = [pc EXCEPT ![w] = l]

(* tee_memfd_create, into the worker's variable for the role.               *)
Create(w, role) ==
  \E n \in Fds :
    /\ Lowest(n)
    /\ table' = [table EXCEPT ![n] = Memfd(w, role)]
    /\ io' = [io EXCEPT ![w][role] = n]

(* Closing every descriptor the worker's variables name.                    *)
CloseAll(w) ==
  /\ table' = [n \in Fds |->
                 IF \E r \in Roles : io[w][r] = n THEN FreeFd ELSE table[n]]
  /\ io' = [io EXCEPT ![w] = NoIo]

(* The conversion returns; the next starts from scratch.                    *)
End(w, result) ==
  /\ Goto(w, "idle")
  /\ got' = [got EXCEPT ![w] = result]
  /\ attempt' = [attempt EXCEPT ![w] = 1]
  /\ clock' = [clock EXCEPT ![w] = 0]
  /\ format' = [format EXCEPT ![w] = "none"]

-----------------------------------------------------------------------------
(* tee_converter_open, and the script for Ghostscript.                      *)

Begin(w) ==
  /\ pc[w] = "idle"
  /\ \E f \in Formats : format' = [format EXCEPT ![w] = f]
  /\ got' = [got EXCEPT ![w] = Nothing]
  /\ Goto(w, "open_in")
  /\ UNCHANGED <<table, io, attempt, clock, due, child>>

(* The upload is too large or no converter is installed.                    *)
Decline(w) ==
  /\ pc[w] = "open_in"
  /\ End(w, Nothing)
  /\ UNCHANGED <<table, io, due, child>>

OpenIn(w) ==
  /\ pc[w] = "open_in"
  /\ Create(w, "in")
  /\ Goto(w, "open_out")
  /\ UNCHANGED <<format, attempt, clock, due, child, got>>

OpenOut(w) ==
  /\ pc[w] = "open_out"
  /\ Create(w, "out")
  /\ Goto(w, IF format[w] = "pdf" THEN "open_meta" ELSE "begin")
  /\ UNCHANGED <<format, attempt, clock, due, child, got>>

OpenMeta(w) ==
  /\ pc[w] = "open_meta"
  /\ Create(w, "meta")
  /\ Goto(w, "begin")
  /\ UNCHANGED <<format, attempt, clock, due, child, got>>

(* A memfd cannot be created or filled: those opened so far are closed.     *)
OpenFails(w) ==
  /\ pc[w] \in {"open_in", "open_out", "open_meta", "begin"}
  /\ CloseAll(w)
  /\ End(w, Nothing)
  /\ UNCHANGED <<due, child>>

-----------------------------------------------------------------------------
(* The chain of attempts.                                                   *)

(* tee_chain_begin, at any moment of a second.                              *)
BeginChain(w) ==
  /\ pc[w] = "begin"
  /\ \E s \in 0 .. Tick - 1 : clock' = [clock EXCEPT ![w] = s]
  /\ Goto(w, "spawn")
  /\ UNCHANGED <<table, format, io, attempt, due, child, got>>

(* tee_secs_until compares whole seconds.                                   *)
SecsUntil(w) == Budget - (clock[w] \div Tick)

(* Mutant: every attempt has its full time.                                 *)
SecsWithin_Full(w) == AttemptCap

(* tee_secs_within.                                                         *)
SecsWithin(w) == IF SecsUntil(w) > AttemptCap THEN AttemptCap ELSE SecsUntil(w)

(* After a failed attempt: another, or the end of the chain.                *)
AfterFailure(w) == IF attempt[w] < Attempts(format[w]) THEN "replace" ELSE "abort"

Kept(w) == {io[w][r] : r \in Roles} \ {NoFd}

(* What a process forked now can reach after exec, when it has cleared      *)
(* FD_CLOEXEC on the numbers in its own copy of the table.                  *)
Inherited(numbers) ==
  {n \in Fds : table[n] # FreeFd /\ (n \in numbers \/ ~ table[n].cloexec)}

(* Mutant: the flags are cleared in the parent, before the fork.            *)
Fork_KeptInParent(w) ==
  /\ pc[w] = "spawn"
  /\ SecsWithin(w) > 0
  /\ table' = [n \in Fds |->
                 IF n \in Kept(w) THEN [table[n] EXCEPT !.cloexec = FALSE] ELSE table[n]]
  /\ child' = [child EXCEPT ![w] =
       [state |-> "running", reach |-> {table[n].owner : n \in Inherited(Kept(w))}]]
  /\ due' = [due EXCEPT ![w] = clock[w] + SecsWithin(w) * Tick]
  /\ Goto(w, "wait")
  /\ UNCHANGED <<format, io, attempt, clock, got>>

(* tee_spawn_converter forks; reach is whose memfds the converter can open. *)
Fork(w) ==
  /\ pc[w] = "spawn"
  /\ SecsWithin(w) > 0
  /\ child' = [child EXCEPT ![w] =
       [state |-> "running", reach |-> {table[n].owner : n \in Inherited(Kept(w))}]]
  /\ due' = [due EXCEPT ![w] = clock[w] + SecsWithin(w) * Tick]
  /\ Goto(w, "wait")
  /\ UNCHANGED <<table, format, io, attempt, clock, got>>

(* No time is left, or the fork fails.                                      *)
NoFork(w) ==
  /\ pc[w] = "spawn"
  /\ Goto(w, AfterFailure(w))
  /\ UNCHANGED <<table, format, io, attempt, clock, due, child, got>>

(* The converter writes to its output, and exits.                           *)
ChildWrites(w) ==
  /\ child[w].state = "running"
  /\ table' = [table EXCEPT ![io[w]["out"]].wrote = @ \cup {attempt[w]}]
  /\ UNCHANGED <<pc, format, io, attempt, clock, due, child, got>>

(* A converter that reports success has written all it had, or nothing.     *)
ChildExits(w) ==
  /\ child[w].state = "running"
  /\ \/ /\ child' = [child EXCEPT ![w].state = "succeeded"]
        /\ table' = [table EXCEPT ![io[w]["out"]].whole = (@ \/ table[io[w]["out"]].wrote # {})]
     \/ /\ child' = [child EXCEPT ![w].state = "failed"]
        /\ UNCHANGED table
  /\ UNCHANGED <<pc, format, io, attempt, clock, due, got>>

(* tee_wait_child: waitpid with WNOHANG finds the child still running; the  *)
(* worker sleeps before it asks again, or its time is up.                   *)
Poll(w) ==
  /\ pc[w] = "wait"
  /\ child[w].state = "running"
  /\ IF clock[w] >= due[w]
     THEN Goto(w, "kill") /\ UNCHANGED clock
     ELSE clock' = [clock EXCEPT ![w] = @ + PollTime] /\ UNCHANGED pc
  /\ UNCHANGED <<table, format, io, attempt, due, child, got>>

Reap(w) ==
  /\ pc[w] = "wait"
  /\ child[w].state \in {"succeeded", "failed"}
  /\ Goto(w, IF child[w].state = "succeeded" THEN "finish" ELSE AfterFailure(w))
  /\ child' = [child EXCEPT ![w] = NoChild]
  /\ due' = [due EXCEPT ![w] = 0]
  /\ UNCHANGED <<table, format, io, attempt, clock, got>>

(* Mutant: a child that had to be killed counts as done.                    *)
Kill_Lenient(w) ==
  /\ pc[w] = "kill"
  /\ Goto(w, "finish")
  /\ child' = [child EXCEPT ![w] = NoChild]
  /\ due' = [due EXCEPT ![w] = 0]
  /\ UNCHANGED <<table, format, io, attempt, clock, got>>

(* SIGKILL and a blocking waitpid; a timeout even if it had just exited.    *)
Kill(w) ==
  /\ pc[w] = "kill"
  /\ Goto(w, AfterFailure(w))
  /\ child' = [child EXCEPT ![w] = NoChild]
  /\ due' = [due EXCEPT ![w] = 0]
  /\ UNCHANGED <<table, format, io, attempt, clock, got>>

(* Mutant: the number of the output just closed is kept.                    *)
CloseSpent_Kept(w) ==
  /\ pc[w] = "replace"
  /\ table' = [n \in Fds |-> IF n = io[w]["out"] THEN FreeFd ELSE table[n]]
  /\ attempt' = [attempt EXCEPT ![w] = @ + 1]
  /\ Goto(w, "retry")
  /\ UNCHANGED <<format, io, clock, due, child, got>>

(* tee_chain_next_output closes the output of the spent attempt ...         *)
CloseSpent(w) ==
  /\ pc[w] = "replace"
  /\ table' = [n \in Fds |-> IF n = io[w]["out"] THEN FreeFd ELSE table[n]]
  /\ io' = [io EXCEPT ![w]["out"] = NoFd]
  /\ attempt' = [attempt EXCEPT ![w] = @ + 1]
  /\ Goto(w, "retry")
  /\ UNCHANGED <<format, clock, due, child, got>>

(* ... and creates a fresh one.  When it cannot, a video gives up, and an   *)
(* audio file goes on to its next attempt.                                  *)
Retry(w) ==
  /\ pc[w] = "retry"
  /\ \/ Create(w, "out") /\ Goto(w, "spawn")
     \/ /\ Goto(w, IF format[w] = "video" THEN "abort" ELSE AfterFailure(w))
        /\ UNCHANGED <<table, io>>
  /\ UNCHANGED <<format, attempt, clock, due, child, got>>

(* tee_chain_abort.                                                         *)
Abort(w) ==
  /\ pc[w] = "abort"
  /\ CloseAll(w)
  /\ End(w, Nothing)
  /\ UNCHANGED <<due, child>>

(* tee_chain_finish: the output is read back and everything closed; what is *)
(* empty, too large or cannot be read is an error.                          *)
Finish(w) ==
  /\ pc[w] = "finish"
  /\ \/ /\ table[io[w]["out"]].wrote # {}
        /\ End(w, [owner |-> table[io[w]["out"]].owner, wrote |-> table[io[w]["out"]].wrote,
                   whole |-> table[io[w]["out"]].whole, attempt |-> attempt[w]])
     \/ End(w, Nothing)
  /\ CloseAll(w)
  /\ UNCHANGED <<due, child>>

Step(w) ==
  \/ Decline(w) \/ OpenIn(w) \/ OpenOut(w) \/ OpenMeta(w) \/ OpenFails(w)
  \/ BeginChain(w) \/ Fork(w) \/ NoFork(w) \/ Poll(w) \/ Reap(w) \/ Kill(w)
  \/ CloseSpent(w) \/ Retry(w) \/ Abort(w) \/ Finish(w)

Next == \E w \in Workers : Begin(w) \/ Step(w) \/ ChildWrites(w) \/ ChildExits(w)

Spec == Init /\ [][Next]_vars

-----------------------------------------------------------------------------
(* Properties.                                                              *)

Labels ==
  {"idle", "open_in", "open_out", "open_meta", "begin", "spawn", "wait", "kill",
   "replace", "retry", "abort", "finish"}

(* The latest a chain can be at work: the whole seconds of its budget, less *)
(* than one second of rounding, less than one sleep.                        *)
LastMoment == Budget * Tick + (Tick - 1) + (PollTime - 1)

TypeOK ==
  /\ table \in [Fds -> [owner : Workers \cup {Nobody}, cloexec : BOOLEAN,
                        role : {"none", "in", "out", "meta"},
                        wrote : SUBSET (1 .. 3), whole : BOOLEAN]]
  /\ pc \in [Workers -> Labels]
  /\ format \in [Workers -> Formats \cup {"none"}]
  /\ io \in [Workers -> [Roles -> Fds \cup {NoFd}]]
  /\ attempt \in [Workers -> 1 .. 3]
  /\ clock \in [Workers -> Nat]
  /\ due \in [Workers -> Nat]
  /\ child \in [Workers -> [state : {"none", "running", "succeeded", "failed"},
                            reach : SUBSET (Workers \cup {Nobody})]]
  /\ got \in [Workers -> [owner : Workers \cup {Nobody}, wrote : SUBSET (1 .. 3),
                          whole : BOOLEAN, attempt : 0 .. 3]]

(* Every descriptor is closed once and by its owner: what a worker's        *)
(* variables name is open and its own, for the purpose they say, and it has *)
(* nothing else open, so that between conversions it has nothing open,      *)
(* whatever failed ("a retried chain leaves no fd open").  A second close   *)
(* of a number would close what another worker was given under it.          *)
OwnDescriptors ==
  \A w \in Workers :
    /\ \A r \in Roles : io[w][r] # NoFd =>
         table[io[w][r]].owner = w /\ table[io[w][r]].role = r
    /\ \A n \in Fds : table[n].owner = w => io[w][table[n].role] = n
    /\ pc[w] = "idle" => io[w] = NoIo

(* A converter can reach the memfds of its own conversion only, although    *)
(* other workers have theirs open in the table the fork copies ("an         *)
(* unlisted fd is CLOEXEC-closed before exec").                             *)
Apart == \A w \in Workers : child[w].state # "none" => child[w].reach = {w}

(* What a conversion returns is what the attempt that succeeded wrote, all  *)
(* of it, and nothing an earlier attempt left ("the bytes returned are the  *)
(* winning attempt's").                                                     *)
WinnersOutput ==
  \A w \in Workers : got[w] # Nothing =>
    got[w].owner = w /\ got[w].whole /\ got[w].wrote = {got[w].attempt}

(* However its attempts end, a chain and its children are within the budget *)
(* of time, to the rounding of one second and one sleep, and no child       *)
(* outlives the attempt that waits for it.                                  *)
WithinBudget ==
  \A w \in Workers :
    /\ clock[w] <= LastMoment
    /\ child[w].state # "none" => pc[w] \in {"wait", "kill"}
=============================================================================
