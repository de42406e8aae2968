---------------------------- MODULE SignerProofs ----------------------------
(***************************************************************************)
(* What the signer promises, for every value of the constants: its key     *)
(* pair survives on disk (module KeyStore), and the link to it answers     *)
(* each call with the answer to its own request or with a failure          *)
(* (module SignerLink).  The two share no state; the second part begins    *)
(* where its assumption is put to use.                                     *)
(***************************************************************************)
EXTENDS KeyStore, SignerLink, TLAPS

-----------------------------------------------------------------------------
(* The key pair on disk: no step of a start, a save, a death of the        *)
(* process or a power loss tears keypair.bin or rotates a key pair whose   *)
(* directory entry was flushed.  The invariant says, at each system call   *)
(* of a save, what the temporary file holds and how it relates to the key  *)
(* in memory and to the file it is about to replace.                       *)

BeforeRename == {"unlink", "create", "write", "fsync", "rename"}

(* The temporary file under construction is the key in memory, whole once   *)
(* written and on the medium once flushed.                                  *)
TmpOK ==
  /\ step \in {"write", "fsync", "rename"} =>
       tmp \in Files /\ tmp.key = key /\ tmp.kek = kek
  /\ step \in {"fsync", "rename"} => tmp.whole
  /\ step = "rename" => tmp.synced

FilesOK ==
  /\ main # NoFile => main.whole /\ main.synced
  /\ stable # NoFile => stable.whole /\ stable.synced

(* The file seen now holds the key pair the medium holds, at least as well  *)
(* sealed, unless that key pair was overlooked.                             *)
MainOverStable ==
  stable # NoFile =>
    /\ main # NoFile
    /\ stable.key \notin overlooked =>
         /\ main.key = stable.key
         /\ stable.kek # NoKek => main.kek = stable.kek

(* There is no file, or it was taken for missing.                           *)
NothingSeen == main = NoFile \/ main.key \in overlooked

(* A key pair is generated only where no file was seen, and a save replaces *)
(* only a plaintext file of the same key pair, or one that was not seen.    *)
SaveOK ==
  /\ step = "load" => ~ backed
  /\ step = "generate" => ~ backed /\ NothingSeen
  /\ step \in BeforeRename =>
       IF backed THEN main # NoFile /\ main.key = key /\ main.kek = NoKek
                 ELSE NothingSeen
  /\ step = "dirsync" => main # NoFile /\ main.key = key /\ main.kek = kek

KeyInv == KeyTypes /\ TmpOK /\ FilesOK /\ MainOverStable /\ SaveOK /\ Reloadable

LEMMA KeyInitInv == KeyInit => KeyInv
<1> SUFFICES ASSUME KeyInit PROVE KeyInv
  OBVIOUS
<1>1. starts \in 0 .. MaxStarts /\ faults \in 0 .. MaxFaults
  BY BoundsAssumption DEF KeyInit
<1>2. KeyTypes
  BY <1>1 DEF KeyInit, KeyTypes, Pcs, Saving
<1>3. QED
  BY <1>2 DEF KeyInit, KeyInv, TmpOK, FilesOK, MainOverStable, SaveOK, NothingSeen,
              Reloadable, BeforeRename

(* The steps outside a save.                                                *)
LEMMA StartStep == ASSUME KeyInv, NEW k \in Keks \cup {NoKek}, Start(k) PROVE KeyInv'
<1>1. starts' \in 0 .. MaxStarts
  BY BoundsAssumption DEF Start, KeyInv, KeyTypes
<1>2. KeyTypes'
  BY <1>1 DEF Start, KeyInv, KeyTypes, Pcs, Saving
<1>3. QED
  BY <1>2 DEF Start, KeyInv, TmpOK, FilesOK, MainOverStable, SaveOK, NothingSeen,
              Reloadable, BeforeRename

LEMMA LoadStep == ASSUME KeyInv, Load PROVE KeyInv'
<1>1. main \in Files
  BY DEF KeyInv, KeyTypes, Load
<1>2. main.key \in Keys
  BY <1>1 DEF Files
<1>3. KeyTypes'
  BY <1>2 DEF Load, KeyInv, KeyTypes, Pcs, Saving
<1>4. TmpOK' /\ FilesOK' /\ MainOverStable'
  BY DEF Load, KeyInv, TmpOK, FilesOK, MainOverStable
<1>5. SaveOK' /\ Reloadable'
  BY DEF Load, KeyInv, SaveOK, NothingSeen, Reloadable, Loadable, BeforeRename
<1>6. QED
  BY <1>3, <1>4, <1>5 DEF KeyInv

LEMMA RefuseStep == ASSUME KeyInv, Refuse \/ Absent PROVE KeyInv'
<1>1. KeyTypes'
  BY BoundsAssumption DEF Refuse, Absent, Fault, KeyInv, KeyTypes, Pcs, Saving
<1>2. TmpOK' /\ FilesOK' /\ MainOverStable' /\ SaveOK' /\ Reloadable'
  BY DEF Refuse, Absent, Fault, KeyInv, TmpOK, FilesOK, MainOverStable, SaveOK, NothingSeen,
         Reloadable, BeforeRename
<1>3. QED
  BY <1>1, <1>2 DEF KeyInv

LEMMA OverlookStep == ASSUME KeyInv, Overlook PROVE KeyInv'
<1>1. main.key \in Keys
  BY DEF Overlook, KeyInv, KeyTypes, Files
<1>2. faults' \in 0 .. MaxFaults
  BY BoundsAssumption DEF Overlook, KeyInv, KeyTypes
<1>3. KeyTypes'
  BY <1>1, <1>2 DEF Overlook, KeyInv, KeyTypes, Pcs, Saving
<1>4. QED
  BY <1>3 DEF Overlook, KeyInv, TmpOK, FilesOK, MainOverStable, SaveOK, NothingSeen,
              Reloadable, BeforeRename

LEMMA GenerateStep == ASSUME KeyInv, NEW k \in Keys, Generate(k) PROVE KeyInv'
BY BoundsAssumption DEF Generate, Fault, KeyInv, KeyTypes, TmpOK, FilesOK, MainOverStable,
                        SaveOK, NothingSeen, Reloadable, Pcs, Saving, BeforeRename

(* The steps of a save.                                                     *)
LEMMA UnlinkStep == ASSUME KeyInv, UnlinkTmp PROVE KeyInv'
BY DEF UnlinkTmp, KeyInv, KeyTypes, TmpOK, FilesOK, MainOverStable, SaveOK, NothingSeen,
       Reloadable, Pcs, Saving, BeforeRename

LEMMA CreateStep == ASSUME KeyInv, CreateTmp PROVE KeyInv'
<1>1. tmp' \in Files /\ tmp'.key = key /\ tmp'.kek = kek
  BY DEF CreateTmp, KeyInv, KeyTypes, Files
<1>2. KeyTypes'
  BY <1>1 DEF CreateTmp, KeyInv, KeyTypes, Pcs, Saving
<1>3. QED
  BY <1>1, <1>2 DEF CreateTmp, KeyInv, TmpOK, FilesOK, MainOverStable, SaveOK, NothingSeen,
                    Reloadable, BeforeRename

LEMMA WriteStep == ASSUME KeyInv, Write PROVE KeyInv'
<1>1. tmp \in Files /\ tmp.key = key /\ tmp.kek = kek
  BY DEF Write, KeyInv, TmpOK
<1>2. tmp' \in Files /\ tmp'.key = key /\ tmp'.kek = kek /\ tmp'.whole
  BY <1>1 DEF Write, Files
<1>3. KeyTypes'
  BY <1>2 DEF Write, KeyInv, KeyTypes, Pcs, Saving
<1>4. QED
  BY <1>2, <1>3 DEF Write, KeyInv, TmpOK, FilesOK, MainOverStable, SaveOK, NothingSeen,
                    Reloadable, BeforeRename

LEMMA FsyncStep == ASSUME KeyInv, FsyncTmp PROVE KeyInv'
<1>1. tmp \in Files /\ tmp.key = key /\ tmp.kek = kek /\ tmp.whole
  BY DEF FsyncTmp, KeyInv, TmpOK
<1>2. tmp' \in Files /\ tmp'.key = key /\ tmp'.kek = kek /\ tmp'.whole /\ tmp'.synced
  BY <1>1 DEF FsyncTmp, Files
<1>3. KeyTypes'
  BY <1>2 DEF FsyncTmp, KeyInv, KeyTypes, Pcs, Saving
<1>4. QED
  BY <1>2, <1>3 DEF FsyncTmp, KeyInv, TmpOK, FilesOK, MainOverStable, SaveOK, NothingSeen,
                    Reloadable, BeforeRename

LEMMA RenameStep == ASSUME KeyInv, Rename PROVE KeyInv'
<1>1. tmp \in Files /\ tmp.key = key /\ tmp.kek = kek /\ tmp.whole /\ tmp.synced
  BY DEF Rename, KeyInv, TmpOK
<1>2. main' = tmp /\ main' # NoFile
  BY <1>1, NoFileAssumption DEF Rename
<1>3. KeyTypes'
  BY <1>1 DEF Rename, KeyInv, KeyTypes, Pcs, Saving
<1>4. MainOverStable'
  BY <1>1, <1>2 DEF Rename, KeyInv, MainOverStable, SaveOK, NothingSeen, BeforeRename
<1>5. QED
  BY <1>1, <1>2, <1>3, <1>4 DEF Rename, KeyInv, TmpOK, FilesOK, SaveOK, NothingSeen,
                                Reloadable, BeforeRename

LEMMA FailSaveStep == ASSUME KeyInv, FailSave PROVE KeyInv'
<1>1. KeyTypes'
  BY BoundsAssumption DEF FailSave, Fault, KeyInv, KeyTypes, Pcs, Saving
<1>2. Reloadable'
  BY DEF FailSave, KeyInv, SaveOK, NothingSeen, FilesOK, Reloadable, Loadable, BeforeRename
<1>3. QED
  BY <1>1, <1>2 DEF FailSave, KeyInv, TmpOK, FilesOK, MainOverStable, SaveOK, NothingSeen,
                    BeforeRename

LEMMA SyncDirectoryStep == ASSUME KeyInv, SyncDirectory PROVE KeyInv'
<1>1. KeyTypes'
  BY BoundsAssumption DEF SyncDirectory, Fault, KeyInv, KeyTypes, Pcs, Saving
<1>2. Reloadable'
  BY DEF SyncDirectory, KeyInv, SaveOK, NothingSeen, FilesOK, Reloadable, Loadable
<1>3. QED
  BY <1>1, <1>2 DEF SyncDirectory, KeyInv, TmpOK, FilesOK, MainOverStable, SaveOK,
                    NothingSeen, BeforeRename

(* The process dies, the machine loses power.                               *)
LEMMA StopStep == ASSUME KeyInv, Stop PROVE KeyInv'
BY DEF Stop, KeyInv, KeyTypes, TmpOK, FilesOK, MainOverStable, SaveOK, NothingSeen,
       Reloadable, Pcs, Saving, BeforeRename

(* What a power loss leaves under the name: what was there, or what was     *)
(* there at the last directory fsync.                                       *)
LEMMA PowerLossFile ==
  ASSUME KeyInv, PowerLoss
  PROVE  main' \in {main, stable} /\ stable' = main'
BY DEF PowerLoss, Survivors, KeyInv, FilesOK

LEMMA PowerLossStep == ASSUME KeyInv, PowerLoss PROVE KeyInv'
<1>1. main' \in {main, stable} /\ stable' = main'
  BY PowerLossFile
<1>2. KeyTypes'
  BY <1>1 DEF PowerLoss, KeyInv, KeyTypes, Pcs, Saving
<1>3. QED
  BY <1>1, <1>2 DEF PowerLoss, KeyInv, TmpOK, FilesOK, MainOverStable, SaveOK, NothingSeen,
                    Reloadable, BeforeRename

LEMMA KeyNextInv == KeyInv /\ [KeyNext]_keyVars => KeyInv'
<1> SUFFICES ASSUME KeyInv, [KeyNext]_keyVars PROVE KeyInv'
  OBVIOUS
<1>1. CASE UNCHANGED keyVars
  BY <1>1 DEF keyVars, KeyInv, KeyTypes, TmpOK, FilesOK, MainOverStable, SaveOK,
              NothingSeen, Reloadable, Loadable
<1>2. CASE KeyNext
  BY <1>2, StartStep, LoadStep, RefuseStep, OverlookStep, GenerateStep, UnlinkStep,
     CreateStep, WriteStep, FsyncStep, RenameStep, FailSaveStep, SyncDirectoryStep,
     StopStep, PowerLossStep
     DEF KeyNext
<1>3. QED
  BY <1>1, <1>2

THEOREM KeyInvariance == KeySpec => []KeyInv
BY KeyInitInv, KeyNextInv, PTL DEF KeySpec

(* The types of module KeyStore hold in every state.                        *)
THEOREM KeyTypesHold == KeySpec => []KeyTypes
<1>1. KeyInv => KeyTypes
  BY DEF KeyInv
<1>2. QED
  BY <1>1, KeyInvariance, PTL

(* keypair.bin is never half written, before or after a power loss.         *)
THEOREM Whole == KeySpec => []NeverTorn
<1>1. KeyInv => NeverTorn
  BY DEF KeyInv, FilesOK, NeverTorn
<1>2. QED
  BY <1>1, KeyInvariance, PTL

(* A signer that says it loaded or persisted its key pair can be restarted  *)
(* with it.                                                                 *)
THEOREM Restartable == KeySpec => []Reloadable
<1>1. KeyInv => Reloadable
  BY DEF KeyInv
<1>2. QED
  BY <1>1, KeyInvariance, PTL

(* No step replaces a key pair whose directory entry was flushed, and none  *)
(* unseals it, until a start can neither load the file nor find it with     *)
(* access(): a wrong KEK, a failed load, a death or a power loss alone      *)
(* never does.                                                              *)
THEOREM KeyKept == KeySpec => NeverRotates
<1> DEFINE Kept ==
      stable # NoFile /\ stable.key \notin overlooked =>
        /\ stable' # NoFile
        /\ stable'.key = stable.key
        /\ stable.kek # NoKek => stable'.kek = stable.kek
<1>1. ASSUME KeyInv, [KeyNext]_keyVars PROVE [Kept]_keyVars
  <2>1. CASE PowerLoss
    BY <1>1, <2>1, PowerLossFile DEF KeyInv, MainOverStable
  <2>2. CASE SyncDirectory
    BY <1>1, <2>2 DEF SyncDirectory, KeyInv, MainOverStable
  <2>3. CASE UNCHANGED stable
    BY <2>3
  <2>4. QED
    BY <1>1, <2>1, <2>2, <2>3
       DEF KeyNext, Start, Load, Refuse, Overlook, Absent, Generate, UnlinkTmp, CreateTmp, Write,
           FsyncTmp, Rename, FailSave, Stop, keyVars
<1>2. QED
  BY <1>1, KeyInvariance, PTL DEF KeySpec, NeverRotates

-----------------------------------------------------------------------------
(* The link: proved for every number of callers, calls, signer workers and *)
(* deaths, a call ends with the answer to its own request or with a        *)
(* failure, and no request is worked on twice.                             *)

USE LinkAssumption

-----------------------------------------------------------------------------
(* The inductive invariant.                                                *)

(* A caller waits exactly while it is inside signer_call, and has exactly  *)
(* the connection of the call it is in.                                    *)
Calling ==
  \A w \in Callers :
    /\ outcome[w] = Waiting <=> pc[w] # "idle"
    /\ pc[w] # "idle" => calls[w] \in 1 .. MaxCalls
    /\ sock[w] = IF pc[w] \in {"sending", "receiving"} THEN Own(w) ELSE None

(* What a connection carries belongs to it: the request it was opened for, *)
(* until that has been worked on, and the answer to this very request.     *)
Carried ==
  \A c \in Requests :
    /\ request[c] \in {None, c}
    /\ request[c] # None => handled[c] = 0
    /\ response[c] # None =>
         response[c] = <<"refusal", c>> \/ (response[c] = <<"result", c>> /\ handled[c] = 1)

(* A request that has not been sent yet.                                   *)
Unsent(c) ==
  \/ c[2] > calls[c[1]]
  \/ c[2] = calls[c[1]] /\ pc[c[1]] \in {"connecting", "reconnecting", "sending"}

NothingEarly ==
  \A c \in Requests : Unsent(c) => request[c] = None /\ handled[c] = 0

(* A signer worker answers the request of the connection it serves.        *)
Serving ==
  \A s \in Servers :
    work[s] # None => work[s] = task[s] /\ handled[work[s]] = 1

IInv == TypeOK /\ Calling /\ Carried /\ NothingEarly /\ Serving

-----------------------------------------------------------------------------
LEMMA Distinct ==
  /\ Waiting # Failure
  /\ \A kind \in {"result", "refusal"}, r \in Requests :
       <<kind, r>> # Waiting /\ <<kind, r>> # Failure
BY DEF Waiting, Failure

Answers == {"result", "refusal"} \X Requests

LEMMA AnswerType ==
  \A kind \in {"result", "refusal"}, r \in Requests : <<kind, r>> \in Answers
BY DEF Answers

(* The queue of the signer.                                                *)
LEMMA QueueHead ==
  ASSUME NEW q \in Seq(Requests), q # <<>>
  PROVE  Head(q) \in Requests /\ Tail(q) \in Seq(Requests) /\ Len(Tail(q)) = Len(q) - 1
OBVIOUS

LEMMA InitInvariant == Init => IInv
<1> SUFFICES ASSUME Init PROVE IInv
  OBVIOUS
<1>1. TypeOK
  BY DEF Init, TypeOK
<1>2. Calling
  BY Distinct DEF Init, Calling
<1>3. Carried /\ NothingEarly /\ Serving
  BY DEF Init, Carried, NothingEarly, Serving
<1>4. QED
  BY <1>1, <1>2, <1>3 DEF IInv

-----------------------------------------------------------------------------
(* Steps of a caller.  One caller moves, or none.                          *)

LEMMA CallerType ==
  ASSUME IInv, NEW w \in Callers, Begin(w) \/ CallStep(w)
  PROVE  TypeOK'
<1> USE DEF IInv, TypeOK
<1>0. /\ pc[w] # "idle" => Own(w) \in Requests
      /\ pc[w] \in {"sending", "receiving"} => sock[w] = Own(w) /\ sock[w] \in Requests
  BY DEF Calling, Own, Requests
<1>1. CASE Begin(w)
  BY <1>1 DEF Begin, wireVars, signerVars
<1>2. CASE Connect(w)
  BY <1>0, <1>2 DEF Connect, signerVars
<1>3. CASE ConnectFails(w)
  BY <1>3 DEF ConnectFails, wireVars, signerVars
<1>4. CASE ReconnectFails(w)
  BY <1>4 DEF ReconnectFails, Return, wireVars, signerVars
<1>5. CASE Send(w)
  BY <1>0, <1>5 DEF Send, signerVars
<1>6. CASE Broken(w)
  BY <1>0, <1>6 DEF Broken, Return, signerVars
<1>7. CASE Receive(w)
  BY <1>0, <1>7 DEF Receive, Return, signerVars
<1>8. CASE GiveUp(w)
  BY <1>8 DEF GiveUp, Return, wireVars, signerVars
<1>9. QED
  BY <1>1, <1>2, <1>3, <1>4, <1>5, <1>6, <1>7, <1>8 DEF CallStep

(* A call that ends.                                                       *)
LEMMA ReturnInvariant ==
  ASSUME IInv, TypeOK', NEW w \in Callers, NEW r, r # Waiting,
         pc[w] # "idle", Return(w, r),
         UNCHANGED <<calls, request, signerVars>>,
         \A c \in Requests : response'[c] \in {None, response[c]}
  PROVE  IInv'
<1> USE DEF IInv, TypeOK
<1>1. Calling'
  BY DEF Calling, Return, Own
<1>2. Carried'
  BY DEF Carried, signerVars
<1>3. \A c \in Requests : Unsent(c)' => Unsent(c)
  BY DEF Unsent, Return, Requests
<1>4. NothingEarly'
  BY <1>3 DEF NothingEarly, signerVars
<1>5. Serving'
  BY DEF Serving, signerVars
<1>6. QED
  BY <1>1, <1>2, <1>4, <1>5

LEMMA CallerInvariant ==
  ASSUME IInv, NEW w \in Callers, Begin(w) \/ CallStep(w)
  PROVE  IInv'
<1> USE DEF IInv, TypeOK
<1>0. TypeOK'
  BY CallerType
<1>1. /\ pc[w] # "idle" => Own(w) \in Requests
      /\ pc[w] \in {"sending", "receiving"} => sock[w] = Own(w)
  BY DEF Calling, Own, Requests
<1>2. CASE Begin(w)
  <2>1. Calling'
    BY <1>2 DEF Begin, Calling, Own
  <2>2. Carried' /\ Serving'
    BY <1>2 DEF Begin, Carried, Serving, wireVars, signerVars
  <2>3. \A c \in Requests : Unsent(c)' => Unsent(c)
    BY <1>2 DEF Begin, Unsent, Requests
  <2>4. NothingEarly'
    BY <1>2, <2>3 DEF Begin, NothingEarly, wireVars, signerVars
  <2>5. QED
    BY <1>0, <2>1, <2>2, <2>4
<1>3. CASE Connect(w) \/ ConnectFails(w)
  <2>1. /\ UNCHANGED <<calls, outcome, request, response, signerVars>>
        /\ \A v \in Callers \ {w} : pc'[v] = pc[v] /\ sock'[v] = sock[v]
        /\ pc[w] \in {"connecting", "reconnecting"}
        /\ \/ pc'[w] = "sending" /\ sock'[w] = Own(w)
           \/ pc'[w] = "reconnecting" /\ sock'[w] = sock[w]
    BY <1>3 DEF Connect, ConnectFails, wireVars
  <2>2. Calling'
    BY <2>1 DEF Calling, Own
  <2>3. Carried' /\ Serving'
    BY <2>1 DEF Carried, Serving, signerVars
  <2>4. \A c \in Requests : Unsent(c)' => Unsent(c)
    BY <2>1 DEF Unsent, Requests
  <2>5. NothingEarly'
    BY <2>1, <2>4 DEF NothingEarly, signerVars
  <2>6. QED
    BY <1>0, <2>2, <2>3, <2>5
<1>4. CASE Send(w)
  <2>1. Calling'
    BY <1>4 DEF Send, Calling, Own
  <2>2. Unsent(Own(w)) /\ handled[Own(w)] = 0
    BY <1>1, <1>4 DEF Send, Unsent, Own, NothingEarly
  <2>3. Carried'
    BY <1>1, <1>4, <2>2 DEF Send, Carried, signerVars
  <2>4. \A c \in Requests : Unsent(c)' => Unsent(c) /\ c # Own(w)
    BY <1>4 DEF Send, Unsent, Requests, Own
  <2>5. NothingEarly'
    BY <1>1, <1>4, <2>4 DEF Send, NothingEarly, signerVars
  <2>6. Serving'
    BY <1>4 DEF Send, Serving, signerVars
  <2>7. QED
    BY <1>0, <2>1, <2>3, <2>5, <2>6
<1>5. CASE ReconnectFails(w) \/ GiveUp(w) \/ Broken(w)
  <2>1. Return(w, Failure) /\ pc[w] # "idle" /\ UNCHANGED <<calls, request, signerVars>>
    BY <1>5 DEF ReconnectFails, GiveUp, Broken, wireVars
  <2>2. \A c \in Requests : response'[c] \in {None, response[c]}
    BY <1>1, <1>5 DEF ReconnectFails, GiveUp, Broken, wireVars
  <2>3. QED
    BY <1>0, <2>1, <2>2, Distinct, ReturnInvariant
<1>6. CASE Receive(w)
  <2>1. Return(w, response[sock[w]]) /\ pc[w] # "idle" /\ UNCHANGED <<calls, request, signerVars>>
    BY <1>6 DEF Receive
  <2>2. response[sock[w]] # Waiting
    BY <1>1, <1>6, Distinct DEF Receive
  <2>3. \A c \in Requests : response'[c] \in {None, response[c]}
    BY <1>1, <1>6 DEF Receive
  <2>4. QED
    BY <1>0, <2>1, <2>2, <2>3, ReturnInvariant
<1>7. QED
  BY <1>2, <1>3, <1>4, <1>5, <1>6 DEF CallStep

-----------------------------------------------------------------------------
(* Steps of the signer.                                                    *)

LEMMA SignerType ==
  ASSUME IInv, AcceptStep \/ \E s \in Servers : Serve(s)
  PROVE  TypeOK'
<1> USE DEF IInv, TypeOK
<1>1. ASSUME NEW c \in Requests, Accept(c) PROVE TypeOK'
  BY <1>1 DEF Accept, callerVars
<1>2. CASE Push
  BY <1>2 DEF Push, callerVars
<1>3. ASSUME NEW s \in Servers, Pop(s) PROVE TypeOK'
  BY <1>3, QueueHead DEF Pop, callerVars
<1>4. ASSUME NEW s \in Servers, Work(s) PROVE TypeOK'
  BY <1>4 DEF Work, callerVars
<1>5. ASSUME NEW s \in Servers, Silent(s) PROVE TypeOK'
  <2>1. task[s] \in Requests /\ <<"refusal", task[s]>> \in Answers
    BY <1>5, AnswerType DEF Silent
  <2>2. response' \in [Requests -> Answers \cup {None}]
    BY <1>5, <2>1 DEF Silent, Answers
  <2>3. QED
    BY <1>5, <2>2 DEF Silent, LetGo, callerVars, Answers
<1>6. ASSUME NEW s \in Servers, Reply(s) PROVE TypeOK'
  <2>1. work[s] \in Requests /\ task[s] \in Requests
    BY <1>6 DEF Reply, Serving
  <2>2. <<"result", work[s]>> \in Answers /\ <<"refusal", work[s]>> \in Answers
    BY <2>1, AnswerType
  <2>3. \/ response' = response
        \/ response' = [response EXCEPT ![task[s]] = <<"result", work[s]>>]
        \/ response' = [response EXCEPT ![task[s]] = <<"refusal", work[s]>>]
    BY <1>6 DEF Reply
  <2>4. response' \in [Requests -> Answers \cup {None}]
    BY <2>1, <2>2, <2>3 DEF Answers
  <2>5. QED
    BY <1>6, <2>1, <2>4 DEF Reply, LetGo, callerVars, Answers
<1>7. QED
  BY <1>1, <1>2, <1>3, <1>4, <1>5, <1>6 DEF AcceptStep, Serve

LEMMA SignerInvariant ==
  ASSUME IInv, AcceptStep \/ \E s \in Servers : Serve(s)
  PROVE  IInv'
<1> USE DEF IInv, TypeOK
<1>0. TypeOK'
  BY SignerType
<1>1. UNCHANGED callerVars
  BY DEF AcceptStep, Serve, Accept, Push, Pop, Work, Silent, Reply
<1>2. Calling'
  BY <1>1 DEF Calling, Own, callerVars
<1>3. \A c \in Requests : Unsent(c)' <=> Unsent(c)
  BY <1>1 DEF Unsent, callerVars
<1>4. CASE AcceptStep \/ \E s \in Servers : Pop(s)
  <2>1. UNCHANGED <<request, response, handled, work>>
    BY <1>4 DEF AcceptStep, Accept, Push, Pop
  <2>2. \A s \in Servers : work[s] # None => task'[s] = task[s]
    BY <1>4 DEF AcceptStep, Accept, Push, Pop, Serving
  <2>3. Carried' /\ NothingEarly' /\ Serving'
    BY <1>3, <2>1, <2>2 DEF Carried, NothingEarly, Serving
  <2>4. QED
    BY <1>0, <1>2, <2>3
<1>5. ASSUME NEW s \in Servers, Work(s) PROVE IInv'
  <2>1. PICK c \in Requests : c = task[s] /\ request[c] = c /\ handled[c] = 0
    BY <1>5 DEF Work, Carried
  <2>2. /\ work' = [work EXCEPT ![s] = c] /\ handled' = [handled EXCEPT ![c] = 1]
        /\ request' = [request EXCEPT ![c] = None]
        /\ UNCHANGED <<task, response>>
    BY <1>5, <2>1 DEF Work
  <2>3. Carried'
    BY <2>1, <2>2 DEF Carried
  <2>4. NothingEarly'
    BY <1>3, <2>1, <2>2 DEF NothingEarly
  <2>5. Serving'
    BY <2>1, <2>2 DEF Serving
  <2>6. QED
    BY <1>0, <1>2, <2>3, <2>4, <2>5
<1>6. ASSUME NEW s \in Servers, Silent(s) \/ Reply(s) PROVE IInv'
  <2>1. PICK c \in Requests : c = task[s]
    BY <1>6 DEF Silent, Reply, Serving
  <2>2. /\ UNCHANGED <<request, handled>>
        /\ task' = [task EXCEPT ![s] = None] /\ work' = [work EXCEPT ![s] = None]
    BY <1>6 DEF Silent, Reply, LetGo
  <2>3. \/ response' = response
        \/ response' = [response EXCEPT ![c] = <<"refusal", c>>]
        \/ response' = [response EXCEPT ![c] = <<"result", c>>] /\ handled[c] = 1
    BY <1>6, <2>1 DEF Silent, Reply, Serving
  <2>4. Carried'
    <3>1. ASSUME NEW d \in Requests
          PROVE  \/ response'[d] = response[d]
                 \/ response'[d] = <<"refusal", d>>
                 \/ response'[d] = <<"result", d>> /\ handled[d] = 1
      BY <2>3
    <3>2. QED
      BY <2>2, <3>1 DEF Carried
  <2>5. NothingEarly' /\ Serving'
    BY <1>3, <2>2 DEF NothingEarly, Serving
  <2>6. QED
    BY <1>0, <1>2, <2>4, <2>5
<1>7. QED
  BY <1>4, <1>5, <1>6 DEF Serve

-----------------------------------------------------------------------------
(* The deaths.                                                             *)

LEMMA DieInvariant == ASSUME IInv, Die PROVE IInv'
<1> USE DEF IInv, TypeOK
<1>1. TypeOK'
  BY DEF Die, signerVars
<1>2. Calling'
  BY Distinct DEF Die, Calling
<1>3. Carried' /\ Serving'
  BY DEF Die, Carried, Serving, signerVars
<1>4. \A c \in Requests : Unsent(c)' => Unsent(c)
  BY DEF Die, Unsent, Requests
<1>5. NothingEarly'
  BY <1>4 DEF Die, NothingEarly, signerVars
<1>6. QED
  BY <1>1, <1>2, <1>3, <1>5

LEMMA CrashInvariant == ASSUME IInv, Crash \/ Restart PROVE IInv'
<1> USE DEF IInv, TypeOK
<1>1. TypeOK'
  <2>1. CASE Crash
    <3>1. place' \in [Requests -> {"none", "backlog", "held", "queued", "served", "shut"}]
      BY <2>1 DEF Crash
    <3>2. queue' \in Seq(Requests) /\ Len(queue') <= Capacity /\ crashes' \in 0 .. MaxCrashes
      BY <2>1 DEF Crash
    <3>3. QED
      BY <2>1, <3>1, <3>2 DEF Crash, callerVars
  <2>2. CASE Restart
    BY <2>2 DEF Restart, callerVars, wireVars, signerVars
  <2>3. QED
    BY <2>1, <2>2
<1>2. /\ UNCHANGED <<callerVars, request, response, handled>>
      /\ \/ UNCHANGED <<task, work>>
         \/ work' = [s \in Servers |-> None]
  BY DEF Crash, Restart, wireVars, signerVars
<1>3. Calling'
  BY <1>2 DEF Calling, Own, callerVars
<1>4. Carried' /\ Serving'
  BY <1>2 DEF Carried, Serving
<1>5. NothingEarly'
  BY <1>2 DEF NothingEarly, Unsent, callerVars
<1>6. QED
  BY <1>1, <1>3, <1>4, <1>5

LEMMA NextInvariant == IInv /\ [Next]_vars => IInv'
<1> SUFFICES ASSUME IInv, [Next]_vars PROVE IInv'
  OBVIOUS
<1>1. CASE UNCHANGED vars
  <2>1. TypeOK'
    BY <1>1 DEF IInv, TypeOK, vars, callerVars, wireVars, signerVars
  <2>2. Calling' /\ Carried' /\ NothingEarly' /\ Serving'
    BY <1>1 DEF IInv, Calling, Carried, NothingEarly, Serving, Unsent, Own, vars, callerVars,
                wireVars, signerVars
  <2>3. QED
    BY <2>1, <2>2 DEF IInv
<1>2. QED
  BY <1>1, CallerInvariant, SignerInvariant, DieInvariant, CrashInvariant DEF Next

THEOREM Invariance == Spec => []IInv
BY InitInvariant, NextInvariant, PTL DEF Spec

(* The variables of the link keep their types and the signer's queue its   *)
(* bound (WORK_QUEUE_CAPACITY).                                            *)
THEOREM TypeCorrect == Spec => []TypeOK
<1>1. IInv => TypeOK
  BY DEF IInv
<1>2. QED
  BY Invariance, <1>1, PTL

-----------------------------------------------------------------------------
(* What a step of the link is for the caller.                              *)

LEMMA CallerSimulates ==
  ASSUME IInv, NEW w \in Callers, Begin(w) \/ CallStep(w)
  PROVE  Promise!Next \/ UNCHANGED Promise!vars
<1> USE DEF IInv, TypeOK
<1>1. CASE Begin(w)
  <2>1. Promise!Ask(w)
    BY <1>1 DEF Begin, Calling, Promise!Ask, Waiting, Promise!Waiting, signerVars
  <2>2. QED
    BY <2>1 DEF Promise!Next
<1>2. CASE Connect(w) \/ ConnectFails(w) \/ Send(w)
  BY <1>2 DEF Connect, ConnectFails, Send, signerVars, Promise!vars
<1>3. CASE ReconnectFails(w) \/ GiveUp(w) \/ Broken(w)
  <2>1. /\ outcome' = [outcome EXCEPT ![w] = Failure] /\ pc[w] # "idle"
        /\ UNCHANGED <<calls, handled>>
    BY <1>3 DEF ReconnectFails, GiveUp, Broken, Return, signerVars
  <2>2. Promise!Fail({w})
    BY <2>1 DEF Promise!Fail, Calling, Waiting, Failure, Promise!Waiting, Promise!Failure
  <2>3. QED
    BY <2>2 DEF Promise!Next
<1>4. CASE Receive(w)
  <2>1. /\ outcome' = [outcome EXCEPT ![w] = response[Own(w)]]
        /\ pc[w] # "idle" /\ response[Own(w)] # None /\ Own(w) \in Requests
        /\ UNCHANGED <<calls, handled>>
    BY <1>4 DEF Receive, Return, signerVars, Calling, Own, Requests
  <2>2. PICK kind \in {"result", "refusal"} :
          response[Own(w)] = <<kind, Own(w)>> /\ (kind = "result" => handled[Own(w)] = 1)
    BY <2>1 DEF Carried
  <2>3. Promise!Answer(w)
    BY <2>1, <2>2 DEF Promise!Answer, Calling, Waiting, Promise!Waiting, Own, Promise!Own
  <2>4. QED
    BY <2>3 DEF Promise!Next
<1>5. QED
  BY <1>1, <1>2, <1>3, <1>4 DEF CallStep

LEMMA SignerSimulates ==
  ASSUME IInv, AcceptStep \/ \E s \in Servers : Serve(s)
  PROVE  Promise!Next \/ UNCHANGED Promise!vars
<1> USE DEF IInv, TypeOK
<1>1. ASSUME NEW s \in Servers, Work(s) PROVE Promise!Next
  <2>1. PICK c \in Requests : c = task[s] /\ request[c] = c /\ handled[c] = 0
    BY <1>1 DEF Work, Carried
  <2>2. c[2] <= calls[c[1]]
    <3>1. ~ Unsent(c)
      BY <2>1 DEF NothingEarly
    <3>2. c[1] \in Callers /\ c[2] \in Nat /\ calls[c[1]] \in Nat
      BY DEF Requests
    <3>3. QED
      BY <3>1, <3>2 DEF Unsent
  <2>3. handled' = [handled EXCEPT ![c] = 1] /\ UNCHANGED <<calls, outcome>>
    BY <1>1, <2>1 DEF Work, callerVars
  <2>4. Promise!Handle(c)
    BY <2>1, <2>2, <2>3 DEF Promise!Handle
  <2>5. QED
    BY <2>4 DEF Promise!Next, Requests, Promise!Requests
<1>2. CASE AcceptStep \/ \E s \in Servers : Pop(s) \/ Silent(s) \/ Reply(s)
  BY <1>2 DEF AcceptStep, Accept, Push, Pop, Silent, Reply, callerVars, Promise!vars
<1>3. QED
  BY <1>1, <1>2 DEF Serve

(* All who wait when the scanner dies fail together.                       *)
LEMMA DieSimulates == ASSUME IInv, Die PROVE Promise!Next \/ UNCHANGED Promise!vars
<1> USE DEF IInv, TypeOK
<1>1. CASE \E w \in Callers : outcome[w] = Waiting
  <2>1. Promise!Fail(Callers)
    BY <1>1 DEF Die, Promise!Fail, Waiting, Failure, Promise!Waiting, Promise!Failure, signerVars
  <2>2. QED
    BY <2>1 DEF Promise!Next
<1>2. CASE \A w \in Callers : outcome[w] # Waiting
  BY <1>2 DEF Die, signerVars, Promise!vars
<1>3. QED
  BY <1>1, <1>2

LEMMA NextSimulates ==
  ASSUME IInv, [Next]_vars
  PROVE  [Promise!Next]_(Promise!vars)
<1>1. CASE UNCHANGED vars
  BY <1>1 DEF vars, callerVars, signerVars, Promise!vars
<1>2. CASE Crash \/ Restart
  BY <1>2 DEF Crash, Restart, callerVars, signerVars, Promise!vars
<1>3. QED
  BY <1>1, <1>2, CallerSimulates, SignerSimulates, DieSimulates DEF Next

(* signer_call and the signer keep the promise of module SignerCall: a     *)
(* call ends with the answer to its own request, with a refusal or with a  *)
(* failure, and a request is worked on at most once, however late the      *)
(* signer is and whenever one of the two dies.                             *)
THEOREM KeepsPromise == Spec => Promise!Spec
<1>1. Init => Promise!Init
  BY DEF Init, Promise!Init, Failure, Promise!Failure, Requests, Promise!Requests
<1>2. IInv /\ [Next]_vars => [Promise!Next]_(Promise!vars)
  BY NextSimulates
<1>3. QED
  BY Invariance, <1>1, <1>2, PTL DEF Spec, Promise!Spec
=============================================================================
