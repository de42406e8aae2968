# A verification of pigcloud-tee

pigcloud-tee scans and sanitizes encrypted uploads. A **scanner** daemon decrypts an
upload, has it judged by ClamAV and YARA, sanitizes it, encrypts the result and answers
with a signed verdict. A **signer** daemon, a second process of the same program, holds
the long-term keys, unseals data keys and signs digests. This directory holds TLA+
modules of the parts whose correctness depends on interleavings, failures, restarts and
long sequences of calls, the configurations that model-check them with TLC, and theorems
about them whose proofs TLAPS checks.

Paths such as `main.c:726` are relative to the repository's root.

## 1. Inventory

| Component | State | Operations | Interacts with |
|---|---|---|---|
| Admission control (`admission.c`, `admission.h`) | `g_inflight_bytes` (atomic), `g_submitters` (table under a mutex) | `tee_admission_reserve/release`, `tee_submitter_acquire/release` | called by `handle_scan` from every worker thread |
| Work queues and pools (`admission.c:8-67`, `main.c:1163-1187, 1310-1321, 1424-1509, 1674-1701`) | ring of descriptors, `shutdown`, `g_running` | `tee_queue_try_push`, `tee_queue_push`, `tee_queue_pop`, `tee_queue_shutdown`, accept loop, join | accept loop to workers; signals |
| Scan service (`main.c:494-1056`) | locals of one request, `g_inflight`, statistics, output files, verdict files | `handle_scan` with its 28 steps, `write_verdict_file` | admission, signer, clamd, scanner library, audit log, disk, client |
| Signer link (`main.c:300-346`, `signer_call`) | a socket of its own for every request | connect, second connect, send, receive, give up | workers of the scanner, pool of the signer |
| Signer service (`main.c:347-438, 1189-1321`) | its own queue; keys of the key store | unseal, sign, attestation | scanner over a Unix socket |
| Key store (`attestation.c`) | `keypair.bin`, its temporary file, the key in memory | load, migrate, refuse, generate, save | the file system, the environment (`TEE_KEYPAIR_KEK`) |
| Audit log (`audit.c`) | chain in memory (date, seq, prev, inode), a file a day | `audit_record`, reseed from tail, `SIGHUP` | workers, log rotation, midnight |
| Content inspection (`scanner.c`, `yara.c`, `clamav.c`) | YARA rules, one clamd connection a stream | `scanner_inspect`, `clamav_stream_*` | called by `handle_scan` |
| Chunked file encryption (`crypto.c`) | files | `tee_decrypt_file`, `tee_encrypt_file` | called by `handle_scan` |
| Sanitizers and converters (`sanitizers/`) | child processes, memfds | one sanitizer a MIME family, chains of external converters with budgets | called by `scanner_inspect` |
| Archive policy (`sanitizers/archive.c`) | counters over entries, one inflate stream | walk over tar headers and the zip directory, trial inflation | called by `scanner_inspect` |
| Accept loop and control operations (`main.c:237-296, 438-450, 1058-1187, 1560-1701`) | the connection at hand, the statistics, the control queue | accept gate, fast path, routing, health, metrics, attestation, shutdown | clients, both queues, the control worker |
| Hybrid cryptography, seccomp, systemd units, whitelist generator, vendored cJSON | constants or libraries | | |

What is hard here, and what makes each part correct:

* **Admission.** Three shared things change without a common lock: the counter is added
  to *before* it is compared and corrected afterwards, the table is searched for "mine or
  free" in one pass, and ten ways out of `handle_scan` give back what was taken so far.
  Correct: never more than the budget, never more than two scans a submitter, nobody
  refused without reason, nothing leaked.
* **Queues.** Lost wake-ups, a ring that wraps, shutdown while connections wait, an
  accept loop that may itself be asleep when the signal comes. Correct: one owner a
  connection, first in first out, everything queued is served, a signal ends the process,
  the accept loop comes round to its watchdog ping.
* **Scan service.** Synchronous and asynchronous answers share one body and one failure
  path; the antivirus stream may break, be missing or end in a protocol error; a deadline
  may pass while a rejection is on its way; the process may die between the acknowledgement
  and the verdict, or the verdict file may fail to be written. Correct: one outcome a
  request, the audit log told first and told the same, nothing infected or forged called
  clean, no half-written verdict, nothing held afterwards.
* **Key store.** Death or power loss between any two system calls; starts under another
  KEK. Correct: never torn, never rotated while the file can be seen, always loadable again.
* **Audit log.** Midnight between the timestamp and the mutex, rotation under an open
  writer, short writes, death in mid-line, calls that fail. Correct: each file is one
  chain, and a break is visible.
* **Converters.** Worker threads share one descriptor table with each other and, at a fork,
  with a child; attempts fail, hang and are repeated within one budget. Correct: every
  descriptor closed once and by its owner, a converter sees no other upload, the output
  is the successful attempt's, the budget is kept.
* **Accept loop.** One thread looks at what slow clients have sent so far, without taking
  it, answers some requests itself and routes the others; the statistics it reads are
  written by others meanwhile. Correct: every connection is answered once and for what it
  asked, a short control request is answered while every scan hangs, a snapshot adds up.
* **Signer link.** The caller times out, the signer answers too late, dies with requests in
  hand or is not up yet; the listening socket may outlive it. Correct: a call ends with its
  own answer or a failure, nothing is worked on twice, the signer keeps no dead connection.
* **Encrypted files.** Chunks get lost, repeated, exchanged or torn on
  the disk, the request's count may be off by one and its hash is optional; the antivirus
  engine listens while the file is read; the size limit of the plaintext is applied to the
  larger ciphertext too. Correct: the genuine file alone is accepted, refused only for that
  limit, and a verdict of the engine is on all of it.
* **Archives.** Sizes that round, overflow or lie; entries that share their data. Correct:
  clean exactly when the entries the sizes lead to are within the policy, at bounded cost.

`PROJECT.json` lists every component with its status and every hazard at its line.

## 2. Modules

```
  Weights -- AdmissionContract            (what admission promises; Archive sums with it)
     |             ^ implements
     +------- Admission <------------- ScanService  (implements Admission's Spec
                   |                        |        on every path of handle_scan)
            AdmissionProofs          ScanServiceProofs
            MCAdmission              MCScanService

  Handoff    <-- implements -- WorkQueue -- WorkQueueProofs
     ^------ implements, each queue -- Daemon -- DaemonProofs, MCDaemon
  SignerCall <-- implements -- SignerLink --+-- SignerProofs
                               KeyStore   --+
  BlockUnit -- ChunkedFile, Archive -- Upload -- UploadProofs, MCUpload
  AuditLog -- AuditLogProofs, MCAuditLog
  Converter -- ConverterProofs, MCConverter
```

`map` in `PROJECT.json` gives, for each definition, the lines it stands for. Definitions
keep the source's names where they can.

* **Weights**: the total of a function over a finite set, defined as the size of a set of
  unit cells. A recursive sum would do as well for TLC but could not be reasoned about
  without induction; cells can, with the library's facts on cardinality.
* **Admission**: `inflightBytes` is `g_inflight_bytes`, `slots` is `g_submitters.slots`.
  One action is one atomic operation or one critical section: `Reserve` is the
  fetch-and-add with the comparison of its result, `UndoReserve` the later correction.
  `phase`, `user` and `bytes` are what the worker's stack knows. `Restart` is the death of
  the process. A request never carries user id 0 (`parse_scan_request` refuses it), which
  is what makes 0 usable as "free slot" (`UsersAssumption`); `BudgetAssumption` and
  `TableAssumption` are the two static assertions of the code.
* **AdmissionContract**: every decision taken atomically: a scan runs only while the
  bytes of all running scans fit and its submitter runs at most `Cap`.
* **WorkQueue**: the five fields of `work_queue_t`, a program counter for each thread and
  the fate of each connection. One action is what a thread does from taking the mutex to
  letting go of it, by unlocking or by waiting. `is_signer` is the role the process was
  started with and chooses the push that blocks or the one that sheds; `Init` allows
  either. `pthread_cond_signal` wakes an arbitrary sleeper; wake-ups may be
  spurious; a signal may come at any time.
* **Handoff**: a first-in first-out hand-off, with the fairness it promises. What is closed
  without it (`TurnAway`: shed, refused, or answered elsewhere) never enters it.
* **ScanService**: `handle_scan` with one action for each operation on something shared
  and each decision of the pipeline. What an upload *is* (`Kinds`) is separate from what
  the service finds: an infected upload may meet a broken stream, a missing clamd or a
  missing YARA, and the failure of each call is one of its outcomes. A request reserves any
  size up to the largest, or nothing where the kind of upload says so. `Inspected` gives the
  results `scanner_inspect` can have. The jump to `scan_failed` is `Fail`; what follows it
  is one path (`FailBytes`, `FailSlot`, `Audit`, then the answer), as in the code. The
  file names come from the base name of the upload (`Name`); with `SharedNames` two
  uploads have the same one. `Crash` loses the memory and keeps the disk.
  `LoseVerdict` is a verdict file that could not be opened, written or renamed: it is noted
  in `answers` as an ending that failed (`Endings`, `VerdictLost`) and is not among what the
  client was told (`Outcomes`).
* **Daemon**: the scanner's accept loop, both queues, the scan workers and the control
  worker, against clients that send at once, in parts, or hang up (`inbox` is what a socket
  holds unread). `peek` is the fast path: `FastWait` one slice of its waiting, `FastAnswer`
  health and metrics, `FastRoute` and `FastQueue` the choice of a queue. Which messages are
  longer than `FASTPATH_MAX_MSG` (128 bytes) is independent of what they ask (`Long`): a
  control request that is padded beyond that is queued with the scans. The counters are
  loaded one by one (`Load`, in the source's `Order`). A queue is a sequence, which is what
  `WorkQueueProofs` shows the ring to be: both modules implement `Handoff`. A scan is two
  steps, counted and delivered: the handler itself is `ScanService`.
* **SignerLink** and **SignerCall**: `signer_call` in the threads of the scanner, the
  listening socket, and the accept loop, queue and workers of the signer. A request is the
  n-th call of a thread, and also names its connection. `activated` says whether systemd
  owns the listening socket, in which case what waits in its backlog survives a `Crash` of
  the signer. `GiveUp` is the receive timeout, and a `recv` that a signal interrupts.
  `SignerCall` promises each call one end, with its own answer or a failure.
* **ChunkedFile**: `tee_encrypt_file` chunk by chunk, what may happen to the file and the
  request on their way (`Disturb`), and `handle_scan` up to the metadata check with
  `tee_decrypt_file_cb` feeding the antivirus stream. A chunk keeps the nonce it was
  sealed under, its associated data and its text; `Opens` is the cipher's verdict.
  `TooLarge` compares the bytes the file takes (`FileSize`: blocks of `BlockSize` bytes, with
  `Overhead` for the length and the tag of each chunk) with the limit for plaintexts, as
  `crypto.c:391` does; `ReadTrouble` is any of the calls around the reading that fails. Its
  stage `failed` is apart from `refused` only for the property: the code answers both alike.
* **BlockUnit** holds the one constant that both have in common.
* **Archive**: `inspect_archive` as a walk, one action for each header of a tar file, each
  record of a zip directory and each call of `inflate`. Against it stands a definition
  without a walk: `Members` is the set of headers that the sizes lead to, `ZipAllowed` the
  directory as a whole.
* **Upload** composes the two: an archive is inspected in the form in which the decryption
  gives it back, and only when its metadata are right and the engine raised no alarm.
* **KeyStore**: one action a system call of load and save (`step` is the next one; its
  specification is `KeySpec`, so that one module can hold the proofs about both halves of
  the signer). `main` is `keypair.bin` as
  processes see it, `stable` as the last directory flush left it; `PowerLoss` may undo the
  rename and tear a file that was not flushed. `FailSave` is any failure up to the rename
  (the key in memory is served all the same). `Refuse` is a load that fails while
  `access()` finds the file; `Overlook` is a load and an `access()` that both fail, after
  which the code generates a pair and saves it over the old one. `overlooked` remembers the
  pairs that happened to. The ignored failure of the directory flush
  (`attestation.c:219`) is in `SyncDirectory`.
* **AuditLog**: files are sequences of lines plus what follows the last newline; a
  signature is the number of its record. The date is read in `Call`, before the mutex
  (`Lock`). `ShortWrites` gives what a write that falls short leaves; `Joined` is what the
  parser makes of a line that starts with a fragment.
* **Converter**: the conversions of video, audio and PDF in worker threads that share one
  table of descriptors. `table` maps each number to the memfd it names; a new one gets the
  lowest free number, as the kernel gives it. `io` is what the worker's variables `in_fd`,
  `out_fd` and `meta_fd` hold. `Fork` computes what the child can open from the table *as
  it is then*, with the other workers' memfds in it; `ChildWrites` and `ChildExits` are
  the converter, which is not part of the repository. `attempt` counts the arguments
  tried: remux and re-encode for video, copy, re-encode and lenient for audio
  (`audio_copy` is a type without an encoder), one for a PDF. `clock` counts units of time
  since the second in which the chain began; `SecsUntil` drops the fractions as the code
  does, `due` keeps them.

Definitions named `X_Y` and preceded by a comment that begins with "Mutant:" are wrong
versions of `X`, used in no specification. `PROJECT.json` says which property each breaks:
with `X` replaced by `X_Y` TLC finds that property violated under the run's own
configuration.

## 3. What the runs show

| Run | Question | Instance |
|---|---|---|
| `admission` | Do counter and table stay exact through every interleaving, and do they implement the contract? | 3 workers, 4 submitters, table of 3, budget 4, reservations 0..3, cap 2 |
| `work_queue` | In either role: no wake-up lost, drained at shutdown, a fair hand-off, a signal ends the process, the accept loop comes round | 3 workers, 4 connections, ring of 2 |
| `scan_pipeline` | Every path of `handle_scan` twice in a row: one outcome or a verdict file that could not be written, audited first, fail closed, whole verdict files, what a scan signs is what it wrote | 1 worker, 2 requests of 7 kinds, synchronous and not, outputs of 2 chunks, 1 crash |
| `scan_service` | Two scans at once: admission used as specified, everything given back | 2 workers, 2 requests of 3 kinds that reserve nothing or all the memory, outputs of 1 chunk, 1 crash |
| `daemon` | Each connection answered once and in kind, snapshots add up, short control requests served while scans hang, a signal ends the process | 1 scan worker, 4 clients in 4 mixes, the first and the last with long messages, the last slow; queues of 1, 1 slice of waiting |
| `signer_link` | Does the link keep the promise of `SignerCall`, and does the signer let go? | 2 threads, 2 calls each, 1 signer worker, queue of 1, 1 death of either side |
| `upload` | The genuine file alone accepted, and refused only for its size on the disk; the engine hears all, archives clean exactly within the policy, bounded trials | 2287 contents, chunks of 2 blocks, 2 disturbances, 2 entries |
| `keystore` | Never torn, never rotated unless overlooked, loadable again | 5 starts, 2 KEKs or none, 3 failing calls, power loss anywhere |
| `audit_log` | Mutex given back, chains whole, breaks visible | 2 threads, 2 days, 5 records, 2 short writes, 1 failing call, 1 rotation, 1 death, 3 inodes |
| `converter` | Descriptors closed once and by their owner, converters kept apart, results whole, budget kept | 2 workers, 4 descriptor numbers, 2 units a second, sleeps of 3 units, a budget of 3 s, 2 s an attempt |
| `unsigned` | A finding, below | 1 worker |
| `shared_names` | A finding, below | 2 workers, 2 uploads of one name |

The runs check what the modules promise; that each variable keeps its type is proved where
there is a proof module; `UploadProofs` proves it of the variables it uses (`Shapes`).

**Why the bounds are enough.** Admission: with fewer slots than submitters and as many as
workers, one leaked slot fills the table; two workers already overshoot the budget and the
third sees it. Queue: more connections than slots makes the ring wrap and fill; three
workers allow one asleep, one awake and one serving, and a fourth connection is still to
come while the loop waits for room or sheds. Pipeline: a second request on the same worker
sees what the first left behind. Service: the only shared things are the counter, the table
and the files, each contended by two; sizes between nothing and all the memory are in the
run `admission`, and in `AdmissionRefined` for every size. Key store: a start that saves,
one that loads, one that refuses, one under another KEK and one more; three failures cover
every pair of failing calls within a save, or a read and `access()` at one start and a call
of the save that follows. Audit: a rotation needs two inodes and the reuse of a number a
third; two days give one midnight; a short write before and after it. Converter: two
conversions need up to six numbers and have four, so the table runs out at every place that
opens one and a number goes from one worker to the other. A chain starts at any half second
and a sleep is longer than the unit, so the rounding and the last sleep both overrun the
budget: the bound in `WithinBudget` is reached, and with `<` for `<=` TLC finds it violated.
The second attempt has less than its full time. Daemon: a scan that does not end, or a long
control request, holds the pool and another its queue, with a short control request before,
between or after them; three attestations overfill the control worker and its queue; the
fourth client sends its message in parts or not at all, so that every way through the fast
path is taken with the queues empty and full; there are two threads that read the statistics
(loop and worker) while a third counts. Link: the second call of a thread is the one a late
answer to its first could reach; with one signer worker and one slot there is a connection
in service, one queued, one in the accept loop's hand and one in the backlog, and the death
falls on each of these. Upload: contents have up to five blocks and so up to three chunks,
odd and even, and none; two disturbances can undo each other or combine, as a lost last
chunk with a count that is smaller by one. One content is within the limit of a plaintext
and over it once its chunks have their prefixes and tags. Headers hold sizes of nothing, of
a part of a block, of whole blocks and beyond the limit, and sum beyond `MaxInt`; zip
entries hold less, as much and more than they declare, with data of their own or shared,
whose packed length ends before the stream does, with it, after it, or beyond the file.
Counters in the guards (`MaxStarts`, `MaxFaults`, `MaxRecords`, `MaxShort`, `MaxRotations`,
`MaxCrashes`, `MaxCalls`, `Days`) are the only bounds, and each is a CONSTANT.

**Deadlock.** It is checked in `admission` and `converter`, which never stop. The others may
stop: the queue and the daemon once joined, the service when the requests are used up, the
link when the calls are, an upload with its verdict, the key store and the log at their
bounds. That nothing stops too early is said by liveness properties (`FairHandoffSpec`,
`StopsOnSignal`, `LoopComesRound`, `ScansEnd`, `ControlServed`, `CallSpec`, `Released`) and,
for the audit mutex, by `MutexReturned`, which ties the holder to the thread's place.

**Fairness.** In `WorkQueue` each worker's step at the mutex, each request's end and the
accept loop's step are weakly fair; arrivals, signals and spurious wake-ups are not. In
`ScanService` each worker's `Step` is weakly fair, `Begin` and `Crash` are not. In `Daemon`
the loop's and the servers' steps are, but the end of a scan (`Scan`) and everything clients
do is not: health must be answered though no scan ends and nobody sends, and
`StopsOnSignal` there names the scan that keeps the process. In `SignerLink` only the callers
are fair, since the promise to them must not rest on the signer; `Released`, which is about
the signer, assumes `SignerRuns` for its threads and its restart. The code
justifies it: sockets have a receive and send timeout (120 s), clamd's 30 s, a converter
is killed after at most 300 s in a budget of 420 s, a whole scan has a wall cap of 540 s,
`tee_accept_gated` polls with a timeout, the fast path has a budget of slices, and the
mutexes are pthread mutexes held over a bounded number of instructions. The systemd watchdog
(600 s and 120 s) is behind that; it is a crash here. No strong fairness is assumed.

## 4. Findings

* **`unsigned`**: output is signed only when `sanitized_len > 0` (`main.c:856`), but a
  sanitizer may report a modification that leaves nothing (`sanitizers/text.c:20`, a text
  that is only a byte order mark). The verdict is then `sanitized` without a signature,
  which `tests/e2e_test.py:246` counts as a failure.
* **`shared_names`**: the output path is the base name of the upload (`main.c:857`) and
  is opened with `"wb"` (`crypto.c:544`). Two uploads with one base name in flight write
  one file, and the signature of one is over bytes the other overwrote
  (`tests/e2e_test.py:271`). The runs other than this one assume that clients give every
  upload a name of its own; asynchronous clients must, or they could not tell their
  verdict files apart. `SignedBytes` in `scan_pipeline`, where names are not shared, is about
another thing: a write of one scan that fails half way.

Some smaller things are in the models as they are in the code and visible in the properties:
a wrong metadata MAC leaves the antivirus connection open (`main.c:818`; `StreamsClosed`
exempts that line, so it cannot catch it and shows only that no other path does the same); a
verdict file that cannot be written is given up after the client was promised it
(`main.c:697`; `OneOutcome` and `ScansEnd` name it); a control request longer than 128
bytes, padded JSON for instance, waits in the queue of the scans and hangs while they hang
(`main.c:1122`; `ControlServed` is about short ones); a genuine upload whose plaintext is
just below 5 GiB is refused, since its ciphertext is above (`crypto.c:391`; `TooLarge` in
`AcceptedIfGenuine`); when both the load of an existing key file and `access()` fail, the
signer generates and saves a new pair, although the message of `attestation.c:303` says that
it refuses to (`overlooked` in `NeverRotates`); a failed flush of the key directory is
ignored (`attestation.c:219`; `NeverRotates` therefore speaks of the file whose directory
entry was flushed); the declared sizes of a tar file are summed in an `int64_t` that may
overflow (`archive.c:413`; `ArchiveVerdict` names the exception `Beyond`); and an `EINTR` in
a `recv` ends a request to the signer (`main.c:97`; `GiveUp`).

## 5. What is proved

All theorems hold for every value of the constants that meets the named assumptions.

| Module | Theorems | Assumptions |
|---|---|---|
| `AdmissionProofs` | `TypeCorrect`, `CounterExactness`, `BudgetSafety`, `TableExactness`, `CapSafety`, `RefusalJustified`, `IdleAdmission`, `KeepsContract` | `UsersAssumption`, `BudgetAssumption`, `TableAssumption` |
| `WorkQueueProofs` | `TypeCorrect`, `OneOwnership`, `NoWakeupLost`, `Drained`, `ImplementsHandoff` | `QueueAssumption` |
| `SignerProofs` (key store) | `KeyTypesHold`, `Whole`, `Restartable`, `KeyKept` | `NoKekAssumption`, `BoundsAssumption`, `NoFileAssumption` |
| `ConverterProofs` | `TypeCorrect`, `DescriptorsOwned`, `ConvertersApart`, `WinnerReturned`, `BudgetKept` | `NobodyAssumption`, `TimeAssumption` |
| `AuditLogProofs` | `TypeCorrect`, `MutexGivenBack`, `Chains`, `VisibleBreaks` | `NobodyAssumption`, `NoInodeAssumption`, `DaysAssumption` |
| `SignerProofs` (link) | `TypeCorrect`, `KeepsPromise` | `LinkAssumption` |
| `UploadProofs` | `GenuineAccepted`, `WholeHeard`, `WorkBounded`, `VerdictsRight` | `ChunkAssumption`, `ContentsAssumption`, `ArchiveAssumption`, `BlockAssumption`, `SizeAssumption` |
| `ScanServiceProofs` | `OneOutcomeEach`, `AuditTold`, `NothingSlipsThrough`, `ConnectionsClosed`, `SignaturesMatch`, `VerdictFilesTrue`, `RejectionsStand` | `ServiceAssumption` |
| | `AdmissionRefined`, `EverythingDrains`, `WithinLimits`, `TypeCorrect` | `ServiceAssumption`, `AdmissionAssumption` |
| `DaemonProofs` | `OneAnswerEach`, `MetricsAgree`, `QueuesHandOff`, `TypeCorrect` | `DaemonAssumption` |

* **Admission.** The inductive invariant `IInv` adds `PhaseOK` (a worker has a submitter
  exactly while it holds a slot or is being refused) to types, `CounterExact`, `BudgetHeld`
  and `TableExact`. The counter is the `Weight` of what is charged; a worker's step
  changes one term (`WeightUpdate`), so `CounterExact` moves with it, and `BudgetHeld`
  follows at `Reserve` because the admitted weigh no more than the charged
  (`WeightMonotone`). For the table, `AcquireTable` and `ReleaseTable` show that one
  submitter's holders change by one and all others' not at all. `RefusalJustified` needs
  `SlotForIdleWorker`: submitters with a slot each have a holder, the refused worker is
  none, so there are fewer such submitters than workers and a slot is free. `KeepsContract`
  maps `Reserve` (when it fits) to `Admit`, `ReleaseBytes` to `Finish`, `Restart` to
  `Restart`, and everything else to a stutter.
* **Work queue.** `IInv` adds three parts: `RingOK` (the slots `head .. head+count-1`
  modulo the capacity, and `tail` one past them), `ThreadsOK` (what each thread's place
  says of what it holds) and `ShutdownOK`. `SlotAtInjective` is the fact about the
  modulus everything rests on. `RingAppends` and `RingTails` then show that a push
  appends to the sequence read from the ring and a pop removes its head, which is the step
  simulation of `ImplementsHandoff`.
* **Key store.** `IInv` says what the temporary file is at each call of a save (`TmpOK`),
  that every visible or flushed file is whole (`FilesOK`), that the visible file holds the
  same key as the flushed one and is at least as well sealed (`MainOverStable`), and that
  a save replaces no file or a plaintext one of the same key (`SaveOK`); the last two but for
  a key pair in `overlooked`.
* **Converter.** What a worker relies on is gathered in `Local`: what its place says of its
  variables (`Place`), that the output at hand holds this attempt's bytes only (`Fresh`),
  what its child reaches, what it returned, and its clock. `Local` speaks of the worker's
  own variables and of the memfds they name; `NumbersOK` makes those its own, so a step of
  another worker, which is a `Frame`, cannot disturb it (`OthersKeep`). What remains is one
  lemma an action about the acting worker. `DueInTime` is the arithmetic of the budget:
  whole seconds left, times the units of a second, never reach beyond the budget and the
  fraction that was dropped.

* **Audit log.** `IInv` = `Places` (types, the mutex, dates) and `Names` (no two names share
  a file, a free inode is empty, the name of the record's day leads to the open file or to
  none) and two statements of how the chain in memory and the file agree. `Agreement` is
  weak and holds whatever fails: the next record follows the last line or restarts the
  chain. It contains `BreaksAreVisible`. `Unbroken` is strict, supposes `faults = 0` (no
  failed call at all: open, flock, fstat, pread, ftruncate, signature) and gives
  `FilesAreChains`: the next record belongs exactly there. The subtle place is the
  time around a rotation, when the file the chain in memory continues has lost its name:
  `ChainHeld` therefore speaks of the inode in memory, and is given up from `SIGHUP` to the
  next record, when that number may belong to another file.
* **Signer link.** `Calling` says that a caller has exactly the connection of its present
  call, `Carried` that a connection carries its own request or the answer to it,
  `NothingEarly` that what was not sent is not there, `Serving` that a worker answers what
  it read. `KeepsPromise` maps `Work` to `Handle`, `Receive` to `Answer`, every failure and
  `Die` to `Fail`, everything else to a stutter. Late answers are harmless since each
  connection is one call's.
* **Scan service.** `Apart` gives each worker a scan of its own. `Working` says, for each
  place in the handler, what its client and the audit log have been told by then
  (`ToldAs`) and what is known of the upload (`KnownAs`); `Settled` says that a scan no
  worker has is concluded or not begun; `Streams` who holds a connection to clamd. One lemma
  an action shows that the acting worker goes from one such place to another or concludes
  its scan (`Sound`), and another worker's knowledge is of its own scan. `OutputInv` and
  `FileInv` add what the output and verdict files hold at each step of their writing.
  For `RejectionsStand`, `Standing` says that where a worker may fail it has no rejection
  to lose: nothing is decided yet, or an output is being made, which only a sanitized
  upload has; the deadline alone can fail a decided scan, and looks first.
  `SignaturesMatch` supposes that no two uploads share a name, as the run `shared_names`
  shows it must. Nothing is assumed of admission there.
  The accounts are a second induction, `Books`. `Placing` says for each place in the handler
  whether the worker has a slot and a reservation (`userSlot` and `reserved` are what its
  ways out look at). With that every step is one of `Admission`, or moves on with nothing
  taken or given back (`Region`): `AdmissionRefined`. The invariant proved of `Admission`
  is then one of the whole handler, which gives `WithinLimits`. `Balanced` is the same
  argument for `g_inflight` and the statistics: each is the `Weight` of a flag of the
  workers, and a step changes the flag of one. When all are idle every flag is 0, which is
  `EverythingDrains`.
* **Accept loop.** `IInv` follows a connection: the loop holds what it has accepted
  (`Holding`), what waits is in one queue, once (`Waiting`), what is served has one server
  (`Handling`); its message is taken once, by whoever answers (`Reading`), the answer is for
  what was asked and ends it (`Replying`), and a server that has left leaves its queue shut
  down and empty (`Ending`). The last needs a worker in the pool (`DaemonAssumption`;
  `WORKER_POOL_SIZE` is 8): without one nothing would empty the queue, and `OneAnswer`
  would be false. `MetricsAgree` has an invariant of its own, `SInv`: a verdict is counted before
  its scan is (`Balance`), and an answer that is being put together, `completed` first,
  can only grow in what is still to be loaded (`Ahead`). `QueuesHandOff` maps, for either
  queue, `Push` to `Enqueue`, `Pop` to `Dequeue`, the end of a connection to `Finish` where
  its server belongs to the queue, and every other end to `TurnAway`; that the connection is
  not in this queue then is `Waiting` and `Handling`.
* **Upload.** `Written` says what the file holds while it is sealed: the first chunks of the
  plaintext, up to `Reach`. Of the disturbed file `Stored` keeps one thing only: a piece that
  could open is an `Original` chunk of some place (`DisturbedHarmless`, one case for each way
  to disturb). Since `Opens` compares nonce and index with the place in the reading, what
  was read is again a prefix (`Read`), and the MAC then forces it to be all of it
  (`Recovered`). The refusals need the other direction: whatever step refuses, the file is
  not genuine or too large; for the request's own check that is `GenuineRequest`, with the
  count off by one for the empty file and the size within the limit
  (`ContentsAssumption`). `Hearing` ties what the engine heard to what was read while the
  stream is open. `WorkBounded` rests on `Trials`: what is out so far is covered by what
  the entries before declared, and the trial at hand by what this one declares.
  `BlockAssumption` says that the fields of a zip record are unsigned and that a tar size
  fits an `int64_t`, which is what `parse_tar_size` returns.
  `VerdictsRight` compares a walk with a definition that has none, without induction over
  the file: `Walked` says of the headers the walk has been at that they lead from one to
  the next and, whatever set of headers the definition may choose, are among them. So at
  the end they *are* that set (there is only one), and at a rejection every such set has
  the bad entry, too many entries or too large a sum. `FollowsNext` is the rounding: the
  next header by the quotient is the one block the definition allows. A sum that runs over
  `MaxInt` comes with an offset beyond the file, because the size alone is larger than the
  file (`SizeAssumption`: an upload is at most `TEE_MAX_PLAINTEXT_SIZE`, far from
  `INT64_MAX`), so the walk has ended and nothing more can go wrong. For zip files `Listed`
  says the same of the entries before the present one, and, at a trial, that all but its
  outcome is as it should be; the sum is over an interval that grows by one.

**Only model-checked:** liveness and the fair refinements (`FairHandoffSpec`,
`StopsOnSignal`, `LoopComesRound`, `ScansEnd`, `ControlServed`, the fair part of `CallSpec`,
`Released`), which are out of the prover's reach, and the second half of `ControlServed`,
that only a full control queue makes the answer a busy one. Every invariant and every other
safety action property of the passing runs is also a theorem. The invariants of the
inductions were checked by TLC on the runs' instances before they were proved.

## 6. Abstractions and what is not modelled

* Data: uploads are kinds, keys and signatures are values, files are chunks or lines with
  their owner. `scan_duration_total_ms` and the hash of the sealed content are left out;
  no property tells their values apart.
* Results of libraries (libsodium, liboqs, libmagic, YARA, clamd, ImageMagick
  and the like) are the set of outcomes the calling code distinguishes.
* In `ScanService` a request to the signer succeeds or fails. `SignerLink` justifies that: a
  timeout, a death or a late answer ends in failure, and a result is the request's own.
* `Daemon` leaves out counters that no answer's correctness rests on (of
  busy replies, of scans in flight, of the engines), what health reports (its loads are
  part of the reply), the watchdog ping, and polls that time out and only go round again.
* In `ChunkedFile` hash, MAC and cipher are ideal: only the same text has the same hash, and
  a chunk opens only under its own nonce and index. A chunk that is sent to clamd in part is
  not heard, because the stream then ends without a verdict. A torn chunk counts with its
  whole length in `FileSize`. What clients seal follows the
  format of `tee_encrypt_file`, which the decryption shares.
* `Archive` starts where the type has made a file an archive. A gzip file is clean by the
  code. The bytes after the last whole block are ignored, a first block that is no ustar
  header makes a file no tar. Of the mark of a nested archive the first bytes of a block
  tell (`IsArchive`): an entry of one to three bytes, which the code does not look at,
  counts as showing it, and the tar mark, 257 bytes into a block, is past the middle of it.
  Entries of a zip file that are encrypted, of another method or of a 64 bit size are
  counted and not inflated, as in the code.
* In `SignerLink` a message is sent whole or not: a signer that dies in the middle of an
  answer is `Broken` for the caller.
* The descriptor that `write_verdict_file` may close twice (`main.c:688-691`) is not
  modelled: only memfds have numbers (`Converter`).
* The sizes of requests in `ScanService` are what is reserved, of genuine uploads more than
  nothing; what a lying request reserves is arbitrary.
* `Converter` takes it that a converter that exits with 0 has written all its output or
  none. Only the sleeps between two looks at the child take time, and a failing `waitpid`,
  which has no cause here (no other thread reaps), is left out. `CloseAll` is one step: the
  order of the closes cannot be told apart, since each is of a different number.
* `AuditLog` assumes whole reads (`pread` is whole or fails), a rotated file that
  is removed no sooner than the running `audit_record` has ended (guard of `Remove`;
  the rotation's configuration is not in the repository; without it a thread past its test of
  the reseed flag could go on with the old chain in the new file, which `FilesAreChains`
  therefore does not show to be impossible), and no power loss:
  `audit_record` does not flush.
* Not modelled, and why: hybrid cryptography (X25519, ML-KEM, ML-DSA: the libraries'
  arithmetic, of which the service sees success or failure); the seccomp filter (a constant
  list, handed to the kernel once); MIME detection and the generated whitelist (functions of
  bytes over tables made at build time); the sanitizers that work within the process (image,
  SVG, text: transformations of bytes without state, represented by their results); the
  Makefile and the tests; vendored cJSON, except for its acceptance of text after a value
  (`Joined`).

## 7. Plan

Done: every module with its run, and the proofs of all safety properties but the half of
`ControlServed` named in section 5.

What would add most from here:

1. Files and sockets as further roles in `Converter`'s descriptor table, for the hazard
   about descriptors that no property covers.
2. Type detection and reclassification in `scanner_inspect` as a decision table over the
   whitelist's classes.
