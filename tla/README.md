# Verification of the Decretum Matrix court runtime

This directory holds TLA+ models of Decretum Matrix (`src/`), the TLC runs that
check them on small instances, and proofs checked by TLAPS. `PROJECT.json` lists
the components, the runs, the source lines each definition stands for, the
hazards of the code and the results.

## 1. Inventory

Decretum Matrix is a set of Python programs (`src/scripts`) that run the work of
several coding agents like an imperial court: a task (a *case*) is chartered,
planned and reviewed by the Three Departments, worked on by the ministries,
accepted by the Menxia, archived by Shiguan and closed by Taizi. There is no
server: every command is a short process that reads and writes shared files, so
concurrency is between processes, and failure is a process that dies between
two file operations.

| Component | State | Operations | Hard behaviour | Correct when |
|---|---|---|---|---|
| Ledger pair (`court_operation_journal.py`, `court_file_lock.py`, top of `court_runtime.py`) | `tasks.json`, `court_events.jsonl`, `ledger-pair.rollback.json`, `runtime.lock` | `runtime_lock`, `ledger_pair_write`, `recover_ledger_pair`, `load_tasks`, `read_events` | death or I/O error between any two file operations, recovery of a recovery, readers without the lock | both ledgers change together or not at all; the caller is told the truth; a foreign edit survives; every command ends |
| Transactions beside the pair (`complete_task_atomically`, result recovery, paired operations, synthetic close-out in `court_runtime.py`) | a marker per transaction, a journal per operation | begin, phases, explicit or implicit recovery, replay | recovery comes late, after others have committed; retries | recovered ledgers agree; a rollback takes back only its own work; journals tell the truth; committed work stays |
| Court task (`court_runtime.py`, `court_plan_artifacts.py`) | one task record: state, plan, reviews, assessment, checkpoint, completion, charter revision, semantic gate | transition, pause, resume, cancel, plan submit and review, bind assessment, record Shiguan, complete, revise charter, five semantic commands | arguments prepared long before the command runs; any order of commands | work follows a reviewed plan; one chain of proof under one charter; closed is closed |
| Agents (`agent_*` in `court_runtime.py`, `court_agent_admission.py`, dispatch modules, native bridge) | agents, admissions, leases, write claims in the task record | admit, spawn, preload, report, reconcile, release | late, duplicate and lost reports; capacity; overlapping write sets | capacity and write claims are respected; a late report cannot revive an agent |
| Heartbeat watcher (`services/court_heartbeat_watch.py`) | none of its own | mark agents stale | decides on a snapshot read without the lock, writes without the paired write | never overwrites a newer report |
| Opening of a case (`commands/court_session_numbering.py`, `create_task`, decree-open in `court_runtime.py`) | one allocation file per session, the task, the decree operation in the task and in the journal, the event log | issue, create, replay a creation, open the decree, recover or replay it | four transactions under two locks for one case; a repeated create while the first is at it | numbers of a day are distinct, a case carries its own, its decree is told once and in the end |
| Usage ledger, session close-out | usage rows, a rendered report | append, close | none of its own | (not modelled) |
| Archive producer (`archive_checkpoint.py`, `services/archive_runtime_task.py`) and the index of the Shiguan memory (`shiguan_entry_utils.py`, `commands/rebuild_shiguan_index.py`, notes) | archive blocks, index rows, result cache, checkpoint of the task | archive and record, retry, note, rebuild | archiver and producer are two processes and each can die alone between block, row, cache and record; the charter changes meanwhile | no row without a block, a checkpoint is of the charter in force, an acceptance is archived once as long as its receipts arrive, a case in review is recorded |
| Domain ledger (`domain_ledger_api.py`) | JSONL ledgers and receipt files in a Git repository, its index, its HEAD | write with a path-scoped commit, rollback, verify, read | Git fails, hangs or succeeds too late, a rollback fails half way; others stage and commit in the same repository | one row per request, rows and receipts together, the reported outcome is true |
| Federation of tool memories (`services/shiguan_git_federation.py`) | a link in every tool's memory, commits in the stores' own repositories, registry and receipts in the shared one | apply, verify, recall | preflight without the lock, no rollback, the tools write into their memories, over the link too, at the same time | what a receipt or recall claims can be proved from Git |
| Autosync (`services/shiguan_autosync_daemon.py`) | pending queue, cycle lock, a mirror in an Obsidian vault | mirror, drain | a second daemon | (not modelled) |
| Peers, pending governance, migration gate (`shiguan_peer_*`, `shiguan_pending_*`, `services/shiguan_migration_gate.py`) | peer state, quarantine plans, migration documents | download, propose, apply, validate | a plan applied to a queue that has changed | nothing quarantined is published |
| superCC (`commands/ensure_supercc_court.py`, `supercc_*`) | office state, delivery receipts | deliver, acknowledge, watch, retry | lost and repeated deliveries, rate limits, silence | a dispatch is delivered once, silence is noticed |
| Install, sync, repair | staged trees, backups | stage, switch, roll back | dies while switching | the target is old or new |
| Front ends, routing tables, packaging, web view | none or derived | parse, score, render, build | - | (not modelled) |

Interaction: every task command runs inside `runtime_lock` and ends in
`_commit_task_event`, i.e. one paired write; completion, result recovery and
paired operations write the two ledgers one after the other under the same lock;
the archive producer, the watcher and superCC are processes of their own that
read the ledgers without the lock and come back with a command whose arguments
may be stale by then. A creation holds the runtime lock while it takes the lock
of the session numbers; the `issue` command takes the latter alone. The archive
producer, the notes and the index rebuild share the lock of the index. Domain
ledger and federation have locks of their own and share Git repositories with
whoever else uses Git there.

## 2. Modules

| Module | Models | Checked or proved by |
|---|---|---|
| `AtomicLedger` | what the ledgers promise: one indivisible change of both | abstract specification |
| `LedgerPair` | lock, marker, paired write, recovery, readers, crashes | `LedgerPairWrites`, `LedgerPairProofs` |
| `LedgerTransactions` | the three transactions beside the pair, their recoveries | `Transactions`, `CompletionLosesCommit`, `LedgerTransactionsProofs` |
| `CaseClosure` | what the court promises about closing a case | abstract specification |
| `CourtTask` | the life of one task | `CourtTaskSafety`, `AcceptanceAfterRework`, `CourtTaskProofs` |
| `AgentLifecycle` | admission, start, life and end of the agents of one task, invalidation, the heartbeat watcher | `AgentRivals`, `AgentOverlap`, `AgentLifecycleProofs` |
| `CaseRegister` | what the court promises about opening a case | abstract specification |
| `CaseOpening` | court codes, creation of a case, its decree | `CaseOpening`, `CaseOpeningProofs` |
| `CaseArchive` | archive, index, cache and checkpoint of accepted cases | `CaseArchive`, `ArchiveRetry`, `CaseArchiveProofs` |
| `DomainLedger` | writes to the domain ledgers and others' use of their repository | `DomainLedger`, `DomainLedgerProofs` |
| `MemoryFederation` | apply, verify and recall of the memory federation | `MemoryFederation`, `MemoryFederationProofs` |
| `*Proofs` | theorems about the module they extend | TLAPS |
| `MC*` | instances for TLC | - |

`LedgerPair` implements `AtomicLedger`, `CourtTask` implements `CaseClosure`
and `CaseOpening` implements `CaseRegister`: each is a property of a run and a
theorem.

The modules of ledgers, task and agents form three levels. `LedgerPair` shows that a
command which commits with the paired write is one step. `LedgerTransactions`
therefore takes every such command as the single action `PlainCommit` and looks at
the three commands that write differently. `CourtTask` and `AgentLifecycle` take
every command as one step, the first on the fields of the task, the second on its
agents; the watcher, which is no command, reads in one step and writes in others.
`CaseOpening` and `CaseArchive` are the two ends of a case, where several commands
and files are needed for one thing: they take a paired write as one step and split
everything around it, and `CaseArchive` keeps of the task what `CourtTask` has in
full. `DomainLedger` and `MemoryFederation` stand beside the runtime and share
nothing with it but the lock's implementation.

### LedgerPair

A task document is the sequence of mutations that produced it, so "the ledgers
agree" is equality of two sequences. `pc[p]` is the program counter of a
command: `waiting` on the lock; `entered` before the recovery of
`runtime_lock`; `open` in the handler; `prepared`, `marked`, `tasked`,
`tearing`, `evented`, `verified` through `ledger_pair_write`; `restoring`,
`truncating`, `unlinking` through `recover_ledger_pair`; `leaving` before the
lock is released. Each file operation is an action of its own, each can be the
last (`Crash`) or raise (`WriteRaises`, `UnlinkRaises`, `RecoveryRaises`), and
an event line can be half written (`TearEvent`). `recover_ledger_pair` compares
`tasks.json` with both images and the event tail with a prefix of the line
(`Recoverable`) and otherwise refuses. Readers check for the marker and open the
file in two steps. `EditTasks` and `UndoEdit` are somebody editing
`tasks.json` by hand while a marker waits (the tests do so).

### LedgerTransactions

One owner of the lock at a time runs a transaction step by step (`pc`, `cur`).
The three protocols share their forward steps and differ in when they may go
back (`MayRestore`), in whether they keep a journal (`Journal`) and in who
recovers them (`Begin` for a completion, `Recover` for the others). `torn`
counts the pieces of an unfinished line; a line appended behind it is `Garbled`,
which is what `read_events` skips. `Abandon` is the death of the process or an
error that leaves the command. `acked` and `overlapped` are history variables.
`overlapped` is the set of transactions whose markers waited next to another
one. Not in this module: decree-open, which has the journal without a marker and
is part of `CaseOpening`; the synthetic close-out, a paired operation with more
phases; and the heartbeat watcher, which writes both files under the lock with
no marker at all.

### CourtTask

The variables are the fields of the task record that guards read. A plan is its
revision number; an assessment or archive is the charter revision and the round
of work it speaks of. A command's arguments are quantified over every revision,
plan or archive that ever existed, which is how late and repeated commands
enter; the guards `expected = revision` and the like are the code's. `round`
and the reviews' `read` are history: the code keeps no count of the rounds of
work, which is what finding 2 is about. Abstracted: who the reviewers are
(`_producer` insists on distinct agents), the text of charter, plan and
evidence, the event ids of receipts, the digests.

### AgentLifecycle

An office is one admitted instance of one wave and the agent started for it has
its name. `admission[w]` is the entry of `agent_admissions`; `refused` is
`failed_instances`; `agent[o]` holds the three fields that can end a life
(`status`, `final` for `final_status`, `release` for `release_status`), the
preload status, `quarantined` (`result_state`) and `invalidated`. The code asks
about the end of a life in two ways, and both are kept apart: `Active` looks at
`status` only (capacity, write claims, watcher, reconciliation), `Terminal` at
all three (lifecycle events). `semantic` and `checkpoint` are the part of the
gate agents depend on; quarantine and reconciliation of the gate are one outcome
of `SemanticVerify`, since both only close it. `Startable` is what the two
anchor validations come to: the admission was not rewritten by an invalidation
and names the current checkpoint. `Watch` reads without the lock and
`MarkAgentStale` writes each agent it found, any number of commands later.

Leases, hierarchy edges, deadlines, model routes, receipts of the host and the
case binding can refuse a command and change nothing: they are the actions not
taken. `agent_report` is `Heartbeat` with two more guards. A result that repeats
a payload already quarantined answers with the old event and changes nothing.
Paths are equal or unrelated. Which instance of a role a command means is
resolved by the caller. The names of agents are unique in the code as well.

### CaseOpening

A court code is its number of the day. `Issue` is the command, `Create` the creation
that takes the number on the way (`TakeNumbers`, `Reuse` or `Compute` and `Store`,
`Numbered`), `Commit` its paired write. What follows,
`_ensure_standard_case_decree`, reads the task without the lock (`Read`) and opens,
recovers or replays the decree in a transaction of its own, each file an action: the
task with status ALLOCATED (`Open`), the journal (`JournalAllocated`), the event
unless it is there (`EnsureEvent`), the task again (`MarkCommitted`), the journal
again (`JournalCommitted`). Left out is the check that the case is still bound to
the meaning the decree was opened for (`court_runtime.py:5470`, `:5547`), which no
ordinary command trips; the liveness property depends on that. `outdated` holds the
processes that read a task which has changed since; it stands for the comparison of
task revisions. `Crash` with `tears` leaves half an event line, and whoever appends
next continues it, so that the event is lost to readers (`garbled`). `AddRow`,
`CloseSession`, `WriteNote` and `Rebuild` are the other writers of the index the
numbers are computed from. A lock that is not granted in time is an error that ends
the process, i.e. `Crash`.

### CaseArchive

Archiver and producer are two processes with a state each (`pc` and `job`, `step`
and `work`). An archiver runs `archive_and_record_task`: it enters the lock of
the case's cache (`EnterCache`), looks up its receipt (`LookUp`) or starts a
producer (`StartProducer`) and waits for it. The producer checks the case again
(`CheckCase`), takes the index lock (`TakeIndex`), appends block and row, leaves
the receipt in the cache and prints it (`Deliver`). The archiver compares what was
printed with what is in the cache (`Compare`, the code's
`archive_runtime_receipt_cache_mismatch`), validates it against the index
(`Validate`) and records it on the task (`Record`). `Begin` on a recorded case is
the replay. `Note` runs a producer alone, with a session's court code and no
charter.

Each of the two can die alone. When the archiver dies (`Die`), the operating
system frees the cache lock, and its producer goes on: it appends block and row
and delivers to a cache that a second archiver may have found empty meanwhile.
`ProducerFails` is a producer that dies, cannot write or tears its row, and takes
the archiver's answer with it. `forsaken` counts, per acceptance, the blocks
whose receipt no archiver got because one of the two had died by then. An archiver's
name is used again only for the next producer once its orphan has ended: with two
names, an orphan and a retry run side by side. `Recharter`, `ReturnToReview` and
`Complete` are what the rest of the court does to the task meanwhile; `Recharter` includes the new work and its acceptance.

### DomainLedger

The repository is worktree, index and HEAD of every ledger, and the sets of
transaction ids with a receipt in each. A write appends its row
(`WriteLedger`), its receipt (`WriteReceipt`), adds both paths, commits them
with `--only` (`Commit`; `CommitNothing` when others have committed the same
already and Git has nothing to do) and verifies. `Fail` is an operation that fails
without effect, `TimeOut` a `git commit` that was killed after it had landed. The
rollback compares HEAD with what it was (`FindHeadSame`, `FindHeadMoved`), restores
ledger and receipt, then the index, and any of that can fail: with an unreadable
HEAD nothing is restored (`HeadUnreadable`), a file that cannot be restored does
not stop the rest (`stuck` in `RestoreFiles`), nor does it the index
(`FailIndex`); each is reported as `rollback_failed`, and `unrestored` remembers
for which kind. `unclear` is every answer that promises nothing else: a HEAD that
has moved, a verification that failed. `StageOther` and `CommitOther` are others
in the same repository; they hold no lock of ours. `raced` remembers in which
phase of whose call they committed.

### MemoryFederation

`Apply` is the call up to its preflight, which runs before the lock. Under the
lock come the shared anchor (`Prepare`, `Stage`, `CommitAnchor`), then for
every store its link (`WriteLink` or `FindLink`, `AddLink`, `CommitLink`), the
registry (`WriteRegistry`, `Stage`, `CommitRegistry`), its receipt and the
verification. `Fail` and `VerifyRefused` release the lock; the failure receipt is
written after that (`WriteFailure`). Nothing is rolled back, so the next call
finds what a failed or dead one left. A store is its entry file, the index and the
commits of its repository; their content is the managed link and a version of
the text around it. A call's `git commit` takes the index: what a tool wrote since
`git add` stays uncommitted. `EditMemory` is a tool that writes its own memory at
any moment and keeps the link, drops it, or saves an older copy over it;
`CommitMemory` is its own commit. `contested` are the ids two calls were at work
for at the same time, and those whose link a tool replaced in a store that a call
had in hand.

### Mutants

A definition whose comment starts with "Mutant:" is a plausible bug of the
definition below it. No action uses it; `PROJECT.json` says which property
notices it.

## 3. Runs

| Run | Bounds | Result |
|---|---|---|
| `LedgerPairWrites` | 2 commands, 1 reader, 2 mutations, 2 committed lines, 1 hand edit, `FairSpec` | passes, 251 184 states |
| `Transactions` | 1 completion, 1 result recovery, 1 paired operation, 2 plain commits, 2 deaths | passes, 1 833 232 states |
| `CompletionLosesCommit` | 1 completion, 1 plain commit, 2 deaths | `CommittedStays` violated |
| `CourtTaskSafety` | 2 charters, 3 plans, 2 rounds of work, both kinds of task | passes, 340 171 states |
| `AcceptanceAfterRework` | 1 charter, 1 plan, 2 rounds of work | `AcceptanceIsOfThisRound` violated |
| `AgentRivals` | 3 offices in 2 waves: one, its sibling, its rival for the same path (one of the two in a behaviour), 2 checkpoints, the watcher | passes, 1 281 833 states |
| `AgentOverlap` | 2 offices in 2 waves | `WritersAreDisjoint` violated |
| `CaseOpening` | 2 sessions, one with a case, 2 processes, 2 index rows, 1 other command, 1 death, `FairSpec` | passes, 120 652 states |
| `CaseArchive` | 1 case, 2 archivers with their producers, 2 charters, 1 note, 1 loss, 1 rebuild, `FairSpec` | passes, 639 809 states |
| `ArchiveRetry` | 1 case, 2 archivers, 1 loss | `CrashLeavesOrphanOnly` violated |
| `DomainLedger` | 2 ledgers, 3 requests, 2 writers, 3 writes, 2 failures, 1 death, 3 foreign stagings or commits | passes, 3 304 000 states (writers are symmetric) |
| `MemoryFederation` | 2 stores, one unborn, 2 processes, 2 ids, 3 calls, 2 disturbances | passes, 1 769 762 states |

What the properties ask:

- `LedgerPairWrites`: is the paired write one indivisible write
  (`RefinesAtomicLedger`, `LedgersAgree`), is the caller told the truth, does a
  hand edit survive, what can a reader without the lock see at worst
  (`ReadersAreOneAhead`: at most the one write that is going on), does every
  command end.
- `Transactions`: do recovered ledgers agree, does a paired rollback take back
  its own work alone, do journals tell the truth.
- `CourtTaskSafety`: does work follow the plan that was read and approved, is the
  chain of acceptance, archive and completion one chain under one charter, does
  the task implement `CaseClosure`.
- `AgentRivals`: how can two writers meet on a path, does a quarantine hold, who can
  come back to life. The watcher acts in this run: an agent that completed, was
  overwritten as `stale` by a watcher with an old snapshot, then invalidated and
  reopened by its sibling's reconciliation is a behaviour of it, and
  `OnlyInvalidatedReturn` says that a finished agent comes back in no other way.
- `CaseOpening`: distinct numbers, one decree event and three records that agree
  on it; does the opening implement `CaseRegister`, one irrevocable course of
  number, case under that number, decree, event, confirmation and journal; and
  (liveness) a decree for each case.
- `CaseArchive`: no row, receipt or checkpoint without its block; no checkpoint of
  an old charter; one block per acceptance and one more for each whose receipt was
  forsaken; and (liveness) a case whose index is
  in order is recorded.
- `DomainLedger`: one row per request, row and receipt together, an honest outcome,
  nothing left behind unless the call said so, nothing committed lost.
- `MemoryFederation`: what a receipt names is there, what recall reports can be
  proved, calls that overlap undisturbed leave a verifiable federation.

Why the bounds are enough. `LedgerPair`: the lock serialises writers, so two
commands show one dying and another recovering, conflicting, timing out or starting
over; two lines show a write on a non-empty document; the hand edit needs one
document the pair did not write. `MaxCommits` bounds only the length of the log: the
theorems hold for any length. `LedgerTransactions`: one of each protocol gives every
pair of overlapping markers; two deaths are one in the transaction and one in its
recovery; three deaths with one plain commit were tried as well (5.1 million states,
no violation), and two transactions of one protocol with five deaths. `CourtTask`: a
second charter makes the first one stale, a third plan makes a review stale twice, a
second round makes an acceptance outdated. `AgentLifecycle`: write claims are a
matter of two offices, and so is reconciliation, of one wave: in each behaviour of
`AgentRivals` one office meets its sibling or its rival (`OneCompanion`). All three
together with every feature were explored to seven million states without a
violation, which is too large to repeat; the theorems cover any number of offices.
The only result is `completed`: no guard tells it from the other two, and agents
still fail by their preload and by reconciliation. `CaseOpening`: two processes are
two creators of one case, or a creator and an issue; the second session competes for
the number; two rows let the index be ahead of and behind the allocations; one
change is a charter revision or a revision of the task under a reader; one death can
be anywhere, and the repeated creation is there in any case. `CaseArchive`: cases
meet only in the index, where another case's row is told apart by its code, so one
case and a note with its code are the interesting neighbours; one loss is an
archiver that dies and leaves its producer at work beside the retry, or a producer
that leaves its archiver; two losses with one charter were run as well.
`DomainLedger`: two requests on one ledger and one on another; three writes are a
write, its retry and an unrelated one; two failures are one in the write and one in
its rollback; three foreign operations are a staging, a commit and one more of
either. `MemoryFederation`: three calls are one that fails, one that waits with the
same id and one with another id; two disturbances are two of a failure, a death and
a tool's edit, e.g. a dropped link and a call that dies on it.

Deadlock is checked for `LedgerPairWrites` and `CourtTaskSafety`. The other runs
set `CHECK_DEADLOCK FALSE` because the system really may stop: when every mutation
is committed and no marker is left (`Transactions`), when the last checkpoint is
spent and every agent has ended (agents), when the case is opened, done or
blocked for good (`CaseOpening`, `CaseArchive`), when all calls the bounds allow
were made (`DomainLedger`, `MemoryFederation`).

Fairness. `LedgerPair!FairSpec` is weak fairness of `Proceed(p)`: a process that
asked for the lock keeps being scheduled by the operating system, and `file_lock`
looks at its deadline in every round of its polling loop. `EveryCommandEnds` needs
no fairness of the lock itself: whoever never gets it times out. `CaseOpening` and
`CaseArchive` assume weak fairness of the steps of a process at work, strong
fairness of getting a lock that is free again and again (`file_lock` polls; a
process that is starved runs into its deadline and is repeated, which is the
same step later), and strong fairness of repeating the whole request:
`ReplayCreate` and `Begin` are what the caller of an idempotent command does when
it failed. Nothing is assumed about deaths, errors, readers, notes, rebuilds,
edits, other commands or the start of the first command. Both liveness
properties are conditional on what the code cannot repair: a torn line that
swallowed an event or a charter revised before the decree
(`EachCaseGetsItsDecree`), an index that shows anything but the one row of a
delivered archive (`UnspoiledIsRecorded`).

## 4. What the runs found

1. `CompletionLosesCommit`: a completion dies after its marker. Other commands
   do not look at completion markers and commit. The next completion of that task
   restores both ledgers to the old images: their commits are gone, from the
   authoritative event log as well.
2. `AcceptanceAfterRework`: a result is accepted in review, its task goes back to
   Shangshu and another round of work is done. The transition leaves assessment and
   checkpoint on the task, and both `record_shiguan_task` and the completion compare
   the assessment with the charter only: the acceptance of the first round records
   and closes the second. `Architecture.md:276` and `:305` say that rework voids the
   old acceptance. `AcceptanceChain` says what the code does secure: one chain under
   one charter.
3. `AgentOverlap`: the host refuses an office for a reason other than capacity.
   Its paths are free again, another office is admitted for them and started, and
   then the refused one is started as well: `agent_start` looks for its role in
   `failed_roles`, the refusal was written to `failed_instances`.
4. `ArchiveRetry`: the archiver dies after the index row and before the cache file.
   The retry finds no cached receipt and appends a second block and row with the
   same court code, and recording insists on exactly one row: the case cannot be
   recorded any more. The same comes of an archiver that dies alone, while its
   producer is still at work and a retry starts another.
   `archive_checkpoint.py:577` says that a crash leaves only an orphan block.

`OverlapHasACause` says that 3 and the return of an invalidated agent are the
only ways two writers can meet, `OnlyInvalidatedReturn` that the latter is the
only way back to life, and that a finished agent takes it only when the watcher had
written over it; `ArchivedOnce` that an acceptance is archived again only for a
block whose receipt no archiver got, because it or its producer had died;
`LivingLoseNothing` that 1 needs a command that ended half way: they hold and are
proved.

Behaviours the models have as the code has them, and that readers of the code
may want to know. No property forbids them, because no document says plainly
that they must not happen, or because they are the deliberate choice:

- A reader without the lock can see a document that is rolled back later: it
  looks for the marker and then opens the file (`ReadersAreOneAhead` bounds what
  it sees).
- An event line that tears outside the paired write is continued by the next
  append, and the event of that append is skipped by every reader.
- A paired operation that dies between `tasks.json` and its marker's
  TASK_WRITTEN, or in its rollback, answers RECOVERY_CONFLICT for ever. Two
  markers that overlap can be recovered in an order in which the older images
  come last (`overlapped`).
- A task whose assessment was not completable is assessed again only after a
  charter revision or a semantic resume. `resume` compares from-paused-state outside the
  lock. A plan resubmitted after `semantic_verify` leaves the gate open on the
  receipt of the old one.
- The watcher writes `stale` over an agent that finished after it had read the file;
  its `final_status` survives, so it does not come back to work, but it counts as
  active again; a revision or a resume then invalidates it, and the reconciliation
  of a sibling opens it again. The circuit breaker of a task stops admissions, not
  the start of an office admitted before. An agent closed as `invalidated` keeps its
  write claims and its slot until somebody reconciles it, and reconciling one such
  agent reopens its siblings, because `invalidated` is not in
  `TERMINAL_AGENT_STATUSES`.
- A charter revised before the decree of its case is open makes every later
  creation conflict, and the decree is never opened.
- The numbers a note takes (`next_daily_sequence`) ignore the allocations of the
  sessions.
- A charter revised after archiving leads to a second row with the case's court
  code, as do a note with the code of its session and a rebuild that finds an
  orphan block; a rebuild also drops the residual gaps; one unreadable line of
  the index blocks the recording of all cases. `commands/memory_decision.py:130`
  appends without looking for an unfinished line.
- Returning a recorded case to review and recording it again writes two events
  with one receipt id.
- A failed federation leaves its links, commits and registry where they are, and its
  receipt says `resumable_with_same_transaction_id`; after an uncommitted link the
  preflight refuses, after the registry the same id only verifies. A call that
  waited for the lock takes the link its failed predecessor with the same id left
  uncommitted for a commit; its receipt says VERIFIED until the verification fails.
  The same happens when a tool drops the link between its writing and `git add`: the
  call commits an index without it, and recall believes the receipt before the
  verification refuses it (`contested`). The failure receipt is written after the
  lock is released.
- The rollback of a domain ledger restores the index as it was and takes with it
  what others staged meanwhile; a commit of others in the middle of a rollback
  can lose the row again (`raced`). A rollback that fails half way, or finds HEAD
  unreadable, says `rollback_failed` and leaves its ledger dirty with the lock free
  (`unrestored`). A writer that dies leaves its ledger dirty, and every later write of that kind is refused until somebody cleans up. A
  reader of the file shows a row before it is committed, and the commit a
  write reports is read from HEAD afterwards.

## 5. Proofs

Every safety property that a passing run checks is a theorem; what stays with TLC
are the liveness properties.

`LedgerPairProofs` proves, for any sets of processes, readers and mutations and any
bounds: `TypeCorrect`, `Agreement` (`LedgersAgree`), `Honesty` (`OutcomeIsHonest`),
`ForeignEditSafe` (`ForeignEditKept`), `ReadersAreNear` (`ReadersAreOneAhead`) and
`Refinement` (`LedgerPair` implements `AtomicLedger` when an interrupted write is
read as undone). The only assumption is `ConstantsAssumption`: `NoProc` is no
process, there is a mutation, a foreign document is not one the pair can write, the
bounds are naturals.

The inductive invariant says: whoever is inside owns the lock
(`LockOwned`); a waiting marker describes a write that can be undone, whatever
was already written (`MarkerDescribes`); without one `tasks.json` is ours and
agrees with the log; and, for each program counter, what the process holds and
how far its files are. It is needed because `LedgersAgree` speaks of states
without a marker while every step that could break it happens with one, and
because a command's document equals the file only by virtue of the lock. The
refinement maps `WriteMarker` up to `UnlinkCommitted` as stutters and the
removal of the marker as the commit; a recovery is a stutter throughout.
`ReadersAreNear` has two halves. Each file, as it is at any moment, is at most one
mutation ahead of what is committed (`FilesAreOneAhead`, from the invariant). What
a reader was given earlier stays near because what is committed only grows
(`CommittedGrows`), and that is read off the refinement: a step of the abstract
ledger appends or stutters.

`CourtTaskProofs` proves, for any bounds on charters, plans and rounds of work:
`TypeCorrect`, `ReviewedWork` (`WorkFollowsReviewedPlan`), `OneChain`
(`AcceptanceChain`), `GateForCharter` (`GateIsForThisCharter`) and `Refinement`
(`CourtTask` implements `CaseClosure`). The only assumption is
`BoundsAssumption`. The three safety properties are inductive together with
`TypeOK` once one conjunct is added, `ReviewsWereRead`: a recorded review names
the plan its reviewer read. `WorkFollowsReviewedPlan` speaks of what was read
while the guard of a transition looks at the plan the review was recorded for,
so nothing follows without it. In the refinement `BindAssessment` is the
acceptance, `RecordShiguan` the archiving (or a stutter when it is replayed),
`Complete` the closing, `ReviseCharter` the revision, `SemanticResume` the
reopening, a transition to `Cancelled` the abandonment, and every other command
a stutter.

`AgentLifecycleProofs` proves, for any offices, waves, paths and bounds:
`TypeCorrect`, `WritersMeetForACause` (`OverlapHasACause`), `QuarantineIsFinal`
(`QuarantineHolds`) and `EndedStayEnded` (`OnlyInvalidatedReturn`), from
`OfficesAssumption` (every office has a wave and a write set), `ResultAssumption`
and `BoundsAssumption`. `OverlapHasACause` speaks of agents at work only and is not
inductive: the conflict is excluded when the second office is admitted, long
before it starts. The invariant therefore says that offices that *hold* paths
(at work, or reserved and still startable) and have neither a refusal nor an
invalidation in their past have disjoint write sets (`HoldersAreDisjoint`); that
no admission is ahead of the checkpoint, so that no stale reservation becomes
startable again (`AdmissionsArePast`); and how the three fields that end a life
go together (`Coherent`). Every command but the start takes an agent record
`Onward`, which is proved record by record, and one lemma (`OnwardStep`) draws
the conclusions for the state.

`LedgerTransactionsProofs` proves, for any transactions, mutations and number of
deaths, from `DisjointKinds`: `TypeCorrect`, `RecoveredLedgersAgree`
(`SettledLedgersAgree`), `JournalsTellTheTruth` (`JournalTellsTheTruth`) and
`PairedRollbackIsItsOwn` (`PairedRollbackTakesOnlyItsOwn`), and two theorems that
say how far finding 1 reaches. What is wanted of the
settled ledgers says nothing of a transaction under way, so `Working` says for
each program counter how far ledgers, pieces and marker are: forward, what
`MarkersSpeak` says the images of the marker are; backward, that what a
recovery's checks allowed still holds when it writes. `TornBound` bounds the
pieces of an unfinished line by the deaths, and one more while the command that
tore it or its recovery runs. Overlapping markers break `SettledLedgersAgree`, and
the code admits them: `Overlaps` says that the model remembers them, `Agreed` that
without one the two images in a marker are the same history. `Journaled` is what
`JournalTellsTheTruth` needs of a restore by another protocol: it writes back a
tasks.json that shows the same paired operations. The rollback property needs no such
restriction. `NothingIsLostAlive`: until a command ends half way, what was
reported committed stays (`LivingLoseNothing`), because only the lock's owner
has a marker that could put back old images and it saw every commit (`Alone`).
`OnlyLateRecoveriesWithdraw`: whoever does withdraw a commit of others is the
recovery of a completion or a result recovery, with a marker written before it
(`WithdrawnByEarlierMarkers`). Both are stated in the proof module; no run lists
them.

`CaseOpeningProofs` proves, for any sessions, processes and bounds: `TypeCorrect`,
`NumbersStayDistinct` (`SessionNumbersDistinct`), `DecreesAreToldOnce`
(`DecreeToldOnce`) and `Refinement` (`CaseOpening` implements `CaseRegister`), from
`NobodyAssumption`, `SomebodyAssumption` and `BoundsAssumption`. `LocksHeld` says
at which program counters a process has which lock, so that at most one computes
a number and at most one is telling a decree. `Numbers` says that a number
computed and not yet stored is above every allocation, which an invariant about
allocations alone cannot see coming, that a creator carries its session's, and
that a case has the number its session was allocated (`CaseCarriesAllocation`).
`Decrees` adds to `DecreeToldOnce` which events the log has (`EventsTold`) and how
far a decree is at each program counter of the one who works on it
(`WorkersKnow`), in particular that `told` and `marked` have the event unless one
was swallowed, and that nobody enters a journal twice. In the refinement `Store`
is `Number`, `Commit` is `Open`, `Open` is `Decree`, `JournalAllocated` is
`Enter`, `EnsureEvent` is `Tell` (or `Lose`, when its line was swallowed, or a
stutter, when the event is there), `MarkCommitted` is `Confirm`,
`JournalCommitted` is `Close`; another command whose event is swallowed is
`Lose`, and everything else, deaths, replays and recoveries included, is a
stutter. That no guard of `CaseRegister` is left to chance is what the
invariant is for: each repeats a check that the code made in an earlier
transaction or under the other lock.

`CaseArchiveProofs` proves, for any cases, archivers and bounds: `TypeCorrect`,
`RowsStayArchived` (`RowsAreArchived`), `CheckpointsFollowTheCharter`
(`CheckpointIsOfThisCharter`) and `AcceptancesAreArchivedOnce` (`ArchivedOnce`),
from `SomebodyAssumption`, `ReceiptAssumption` and `BoundsAssumption`. `Archived`
follows the block on its way (`JobsFit`, one `SlotFits` for an archiver and its
producer): a producer past `AppendBlock` has its block in the archive, an archiver
with a receipt has one of such a block, `Record` compares its revision with the
task's, and the producer an archiver waits for works for the archiver's acceptance,
which is false once the archiver is dead. `Counted` is the account: the blocks of
an acceptance are at most the forsaken ones, plus one if its receipt is in the cache
or on its way to an archiver that is there (`Owed`), and none but the forsaken are
there while an archiver still waits for its block (`Pending`). It needs the lock of
the cache (`Exclusive`), and that the archiver holding it started its producer when
it found the cache empty; the blocks of orphans are forsaken the moment they are
written, or when their archiver dies, so that it does not matter which of the two
processes goes first.

`DomainLedgerProofs` proves, for any ledgers, requests, writers and bounds:
`TypeCorrect`, `RowsAndReceiptsGoTogether` (`RowsHaveReceipts`),
`RequestsGetOneRow` (`OneRowPerRequest`), `QuietLedgersAreClean` (`QuietIsClean`),
`OutcomesAreHonest` (`OutcomeIsHonest`) and `CommittedRowsStay`
(`CommittedRowsKept`), from `NobodyAssumption`,
`RequestsAssumption` and `BoundsAssumption`. HEAD changes by a commit of ours or
by somebody's commit of the index, so `StagedInPairs` says of the index, and of
each preimage a rollback may put back, what the property says of HEAD: the rows
of the ledgers and the receipts are those of the same transactions. `OneAhead`
says that the ledger of the writer at work is ahead of index and HEAD by its own
row at most, so that its commit adds that row and that receipt.
`UniqueEverywhere` extends one row per request to worktree, index, HEAD and
preimages.

The other three need what a rollback may put back related to what HEAD has become
meanwhile; all of it hangs on one comparison, `Unmoved`: the log is as long as it
was when the preimage was taken. `CalmTargets`, for `QuietIsClean`: whatever is not
clean is the target of the lock's owner or was reported as not restored
(`Accounted`); as long as HEAD has not moved the preimage is HEAD, so restoring it
cleans, unless a step of the rollback fails and is reported, and once HEAD has moved
without anybody else it is the owner's own commit, which leaves worktree, index and
HEAD equal. `NothingLost`, for `CommittedRowsKept`: HEAD is a prefix of the index
and of every preimage that may still be restored (`HeadIsBehind`), the index of the
file being written (`WriteIsAhead`); a commit of others inside a rollback breaks
just this, hence `Unraced`. For `OutcomeIsHonest`, `FreshIds` says that a
transaction id leaves no trace in files, images or log before its call has the lock,
and none in the preimage of its own rollback, so that a rollback removes it
completely; `SaidTruly` says that what was reported stays true afterwards, because
no other writer has the id in an image it might restore. It covers `failed` alone: a
call that answers `rollback_failed` promises nothing.

`MemoryFederationProofs` proves, for any stores, processes, ids and bounds:
`TypeCorrect`, `ReceiptsNameTheirRegistry` (`ReceiptHoldsRegistry`),
`RecalledCommitsHoldTheLinks` (`RecallProvesLinks`) and
`QuietFederationIsVerified` (`QuietIsVerified`), from `StoresAssumption`,
`NoneAssumption` and `BoundsAssumption`. For the receipt, `RegistryOnItsWay`
follows the registry of the lock's holder from the worktree to the index to the
commit it remembers; it is needed because `_commit_shared` commits nothing when
nothing is staged. For recall, `Links` says, on top of the first invariant, that
processes that share an id are known (`RivalsAreKnown`), which store a process
has in hand and that its link, in the file and after `git add` in the index, is the
process's unless contested (`StoreInHand`), that a process whose id is not contested
finds its own link in a store only if the last commit has it and has bound only
commits that hold it (`OwnLinks`), and that the commits of the registry do
(`RegistryProves`). `OwnLinks` is what `FindLink` relies on when it takes HEAD for
the commit of a link that is there; it is false for rivals, and for a link a tool
put back. That a commit is of the index, whatever was written after `git add`, is
`CommittedIndex`.

`QuietIsVerified` is about a preflight that is out of date when the lock is
taken. Its invariant `Quiet` says that, as long as nothing was disturbed, the
federation is settled (clean, and verifiable if there is a registry) or in the
hands of the one call that has the lock: the stores that call has bound are as
`verify_federation` wants them, those it has not reached are still clean, the one
in hand differs by its link alone (`WorkAt`), and from the registry on, worktree,
index, commit and receipt follow each other as it looks for them (`ListedAt`).
So whoever takes the lock finds settled what it found clean without the lock,
its own verification cannot be refused, and what it leaves is settled again.

Only model-checked are the liveness properties `EveryCommandEnds`,
`EachCaseGetsItsDecree` and `UnspoiledIsRecorded`: liveness under fairness is out
of the prover's reach. The four findings are counterexamples of TLC.

## 6. Not modelled, and the plan

Not modelled by choice: document validation (outcome gate, intake gate, case
binding, migration gate: they decide, without state, whether a command is
accepted), scoring tables, front ends, rendering, the usage ledger, packaging,
the web view. The greater part of the repository's lines are such validations
and the check programs for them.

Left out of modelled parts: the synthetic close-out (a paired operation with more
phases); leases, hierarchy and deadlines of agents, which can only refuse; the
native bridge; the Obsidian mirror and the tree refresh the archive producer
asks for; updates of a domain ledger without a key, which append a row whatever
is there; creation of missing repositories
and roots of the federation.

Planned, in this order:

1. `OfficeDelivery` (superCC): delivery to an office, acknowledgement, retry on a
   rate limit, patrol of silent offices.
2. `PendingQueue`: plan and application of a quarantine over a queue that others
   append to; peer downloads.
3. `InstallSwitch`: staged switch of an installed tree with rollback.
4. A composition of `CourtTask` and `AgentLifecycle` in which dispatch follows the
   plan that was verified.

Theorems planned next: an abstract archive (an acceptance is archived, recorded
and stays so) that `CaseArchive` implements, and an abstract set of requests that
`DomainLedger` implements as long as nobody commits in the middle of a rollback.
