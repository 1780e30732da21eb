# Tomato desktop: a TLA+ development of the agent session runtime

Tomato desktop is a Tauri application. Its React frontend talks to LLM
providers; its Rust backend (`src/src-tauri/`) owns the *agent sessions*: their
status, the queue of prompts, the workflow loop that alternates LLM turns and
tool batches, the compaction of their context, delegation to sub-sessions,
scheduled tasks, and the database. Everything runs as tokio futures that share a
map of live sessions, so the difficult behaviour is in the interleaving of
futures between `.await` points. This project models that runtime, model-checks
it with TLC and proves its most important invariants with TLAPS. Paths below are
relative to `src/src-tauri/src/` unless they start with `docs/`.

## 1. Inventory

| Part | State | Operations | Talks to |
| --- | --- | --- | --- |
| Status machine (`agent/lifecycle/management.rs`, `agent/state.rs`) | `metadata.status`, `status_transition`, `transition_lock`, the `sessions` row | `update_session_status`, `resume_session` | every workflow operation; repository; event bus |
| Concurrency gate (`agent/concurrency.rs`) | two semaphores (active, suspended agents); permits owned by sessions or local variables | `acquire_active_agent`, `suspend_agent`, `SuspendedAgentGuard::resume` | status machine, `checkSession` |
| Workflow entry (`agent/workflow/start.rs`, `pause_resume.rs`, `session_manager/message_injection.rs`) | cancellation token, `cancel_pending`, background task | `start_workflow`, `inject_messages`, `resume_workflow`, `pause_workflow` | gate, status machine, prompt queue, LLM request |
| Stop (`agent/workflow/cancel.rs`, `reset_session`) | the same flags, `expected_response_id` | `cancel_workflow`, `terminate_session`, `/clear` | status machine, queue, approvals, compaction |
| LLM turn (`agent/llm/completion/`, `agent/llm/response.rs`, `response_admission.rs`, `agent-response-guards/`) | `expected_response_id` | `request_llm_completion`, `handle_llm_response`, `handle_llm_error` | frontend (events out, commands in) |
| Settlement (`agent/workflow/finish.rs`) | none of its own | two pending scans, Idle, Error | queue, status machine |
| Prompt queue (`agent/pending_queue.rs`, `repositories/pending_queue_repository.rs`) | `pending_events`, the `pending_queue` and `messages` tables, the message stack | enqueue, claim (batch, merge), cancel, discard, hydrate | LLM turn, settlement, terminate, open |
| Message cache, recovery and opening (`agent/lifecycle/cache.rs`, `recovery.rs`, `commands/agent_commands/session_commands.rs`) | `session.messages`, `cache_initialized` | `ensure_cache_initialized`, `recover_sessions`, `agent_open_session` | database, queue |
| Tool batch (`agent/llm/tool_execution.rs`, `agent/tools.rs`, `agent/workflow/tool.rs`) | `pending_execution`, a clone of the token | `execute_tool_calls`, `handle_tool_result`, `continue_workflow_after_tool` | MCP proxy, approvals, LLM turn |
| Approvals (`agent/session_manager/approvals.rs`, `execution_mode.rs`) | `pending_approvals` (one-shot channels), `yolo_mode`, `unsafe_mode`, the row's mode | register, answer, approve all, abort, `set_execution_mode` | tool batch, cancel |
| Sub-session waits and session bus (`mcp/builtin/agent/`, `agent/session_bus.rs`) | a `Notify` per session, the parent's permits | `checkSession(wait=true)`, `wait_until_session_terminal` | gate, status machine, cancel |
| Compaction (`agent/llm/completion/compaction/`, `agent/session_manager/compact/`, `agent/compact_recovery.rs`) | phase, current request, recovery ladder, summary and its record | preflight, `compact_session_context`, summary, error, `/clear` | LLM turn, frontend, stop |
| Scheduler (`scheduled/`, `lifecycle/frontend_ready.rs`) | the tasks table, copies of due rows, the readiness flag | worker, run of a task, edit, delete | session creation and deletion, injection |
| Stream recovery, Docker provisioning, MCP proxies, built-in tools, sidecar, search, repositories, workspaces, HTTP, frontend | section 7 | | |

What makes it hard:

* **Interleaving.** A command (start, cancel, terminate, `/clear`, an LLM answer,
  a tool result, a summary, an edit of a task) may arrive at any moment, for the
  same session, while another one is between two awaits. Many operations read
  under a read lock, release it and act later.
* **Split state.** The status lives in memory and in a table; a waiting prompt
  lives in a memory queue, in an index table and in the messages table; a permit
  lives in a semaphore, a session or a stack frame; a compaction lives in four
  separately locked fields. Each change takes several steps and each step may
  fail, or be the last one before the application stops.
* **Blocking and waking.** Waiting for a permit must not block the operations
  that would free one; a notification is lost on whoever is not waiting yet; a
  parked workflow is woken up by exactly one answer.
* **Late answers.** An LLM answer, a tool result or a summary may arrive after
  its workflow was stopped, repeated or superseded.

What has to hold: permits are neither duplicated nor lost; memory and table
agree; a stop command always returns; a wait cannot block the gate unless waits
own all of it; prompts are answered in order, none disappears, a cancelled one is
never sent, none is sent again after a restart; every tool call gets one result
and none starts after a stop; what must be approved by a user is; a parked
workflow is woken up once; a summary never covers less than before; an edit of a
task survives a run of it; and what the repository's own documents promise about
each of these, which is checked too and sometimes does not hold (section 6).

## 2. Modules

| Module | What it is |
| --- | --- |
| `SessionGate` | the status machine, the gate and every operation that moves a session between statuses |
| `PermitPool` | what the gate promises, as an abstract specification; `SessionGate` implements it |
| `PromptQueue` | the waiting prompts of one session and the workflow loop that claims them, with failures, cancels and a terminate |
| `SessionReopen` | what of these prompts a restart leaves, and the opening of a session in the interface |
| `ToolBatch` | tool calls, their results, approvals and execution modes of one session |
| `SessionWait` | waits for delegated sessions and the session bus |
| `Compaction` | the compaction of one session's context |
| `Scheduler` | scheduled tasks, their worker, edits and restarts |
| `Queues` | what is left of a sequence when some of its elements are taken out (`Kept`), for the modules proved about |
| `MC*` | instances for TLC: symmetry and the constraints named in section 3 |
| `*Proofs` | theorems about `SessionGate` (with the refinement of `PermitPool`), `PromptQueue`, `SessionReopen`, `ToolBatch`, `SessionWait`, `Compaction`, `Scheduler` |
| `QueueLemmas` | what sequences without repetition keep under append, head, tail, halves and `Kept`; finite induction |

One action is the code between two await points, whatever it calls included. A
mutant stands next to the action it mutates, is named for the bug it introduces
and marked `Mutant` in its comment; every checked property has one.

### SessionGate, PermitPool

A task `<<s, i>>` is one future working on session `s`. `pc[t]` is the await
point it is at, `op[t]` the operation it executes, `target[t]` the status
argument of the `update_session_status` call it is in. `Call` lets a client start
any operation in `Operations` at any time.

* `UpdateEnter` … `UpdateCommit` are
  `update_session_status_with_dispatcher`: whether a permit is needed is decided
  under a read lock; the gate is waited for *outside* `transition_lock`; under it
  the permit is stored or taken out, `status_transition` announced, the row
  written, and memory changed only after the write; a failed write rolls back.
  `AfterOk`, `AfterErr` and `NextOp` say where each operation goes on.
* `StartDecide` … `BackgroundDrop`, `ProxyFails` are `start_workflow`,
  `inject_messages` and `resume_workflow` with the spawned background task and its
  error branches.
* `Request` … `Outcome` are one LLM turn: validation, the response id, admission,
  consumption, the second cancellation check. `RespondUiTool` and `MarkBusy` are
  tool calls that reach a session at rest. `llmError` is `handle_llm_error`.
* `InitializeTools` … `BoundaryContinue` are a tool batch, with
  `checkSession(wait=true)` as `AwaitTake`, `AwaitSuspend`, `AwaitWake`,
  `AwaitResume`, `AwaitRestore`.
* `CancelRead` … `OpenWrite` are soft cancel, terminate, `/clear` and
  `resume_session` of a live session.

Permits have identities, so that a permit owned twice is told apart from two
permits. A cancellation token is the boolean `cancelled[s]`; a clone of it
(`token[t]`) is the live one or one that was replaced. Repository writes fail
nondeterministically when `DbMayFail`.

`PermitPool` knows only free and owned permits: a permit is taken, given back,
exchanged for one of the other kind, or traded in a suspension. `SessionGate`
instantiates it with `free` and `owned` computed from semaphores, sessions and
local variables (`ImplementsPool`).

### PromptQueue

`run[p]` is the await point of the `start_workflow` call of prompt `p`: it either
queues the prompt or becomes the workflow loop. The text of a message is the
sequence of the prompts merged into it. `waiting` is `pending_events`, `row` the
messages table, `seq` the `pending_queue` table, `stack` the transcript,
`hand`/`fetched`/`text`/`saved` the local variables of a claim.

* `Decide` … `Place`: routing; enqueue (memory, row, `queue_seq`, index row, in
  that order) and its undo; the direct start.
* `Validate` … `Emit`: an LLM turn with `claim_all_pending_messages`: drain, split
  at the batch limit, load, merge in one transaction, push; every database failure
  gives the prompts back.
* `Answer` … `GoError`: admission, tool turns, the three scans on the way to Idle,
  Error.
* `CancelTake` …: `cancel_pending_message`. `Terminate` …: `terminate_session` and
  `discard_all_pending_messages`.

Abstractions: a status change is one step and succeeds (SessionGate has its
detail); the gate is not modelled; the row deletions of a discard are one step, as
are its drain and the read of the protected ids, which hold the same lock; a prompt
can be cancelled once its row exists, which is when the interface can list it; each
prompt is sent once, the session is terminated at most once.

### SessionReopen

The database (`log`, `index`, `saved`) survives `Crash`, memory does not. A future
is the `start_workflow` call of a prompt or a `resume_workflow` call; it loads the
cache if it must.

* `Begin`, `ReadSlice`, `Install`, `PurgeIndex`, `Rebuild`: the load. The check of
  `cache_initialized` and the read of the table come before the lock of
  `session.messages` (`latch`), the comparison with the index and the rebuilding of
  `pending_events` under it. `Stale` is `classify_pending_queue_ids`.
* `Route` … `Place`: a prompt waits, or starts the workflow. `Claim` … `Settle`:
  the loop, with `TakeIndex` for a single claim and `Merge` for several.
* `OpenStart` … `OpenPurge`: `agent_open_session` copies the metadata, reads the
  last messages, collects what is protected, classifies the index rows and deletes
  the stale ones, each after an await. It takes no part in the workflow and may
  overlap all of the above.
* `Crash`, `Recover`: what looked busy is paused, what was queued is idle, and both
  are live again.

Abstractions: nothing fails but the application (failures, cancels, the batch
limit, terminate and the last scan are in PromptQueue); load and merge of a claim
are one step, as are the deletions of a purge; the window of the cache covers the
transcript while the window of an opening (`OpenWindow`) need not; tombstones and
other recovery messages, which the classification skips, are left out; a message
says only whose text it holds.

### ToolBatch

Turn `n` is the n-th answer with tool calls, loop `n` its `execute_tool_calls`,
`<<n, i>>` its i-th call. `at[t]` is the await point of a loop or of a client that
hands in a result.

* `Respond`, `CheckDropped`, `MarkBusy`, `InitializePending`, `Spawn`: an admitted
  answer; `WakeUp` is one that reaches an Idle session.
* `CheckCancel` … `Return`: one call, with the two mode flags read under two locks
  and the registration of an approval; `NextCall` goes on or answers the rest of a
  cancelled batch.
* `Deliver`, `Inject`, `DeliverFails`, `SpillFails`: a result is counted against
  `pending_execution` under a lock and put into the transcript after it.
* `Boundary` … `EmitRequest`: what follows a complete batch.
* `UserAnswers`, `SetMode` … `ApproveNext`; `CancelRead` … `RestartRequest`:
  approvals, mode changes, cancel, terminate, `/clear` and restart.

Tools are opaque; the policy of a call is chosen freely. Status updates are single
steps, a restart needs no permit, and no prompt waits.

### SessionWait

`tokio::sync::Notify` has no memory for `notify_waiters`: `asleep` holds who would
be woken now. `CheckFlag`, `Fetch`, `Sleep`, `Heartbeat`, `TimeOut` are the loop of
`wait_until_session_terminal`; `Persist` and `Announce` the two moments of a status
update that matter to it; `BeginWait` the checks of lineage in `checkSession`.

### Compaction

`pc[f]` is the await point of a future that works on the session. Messages are
numbers; what is over budget, which boundary fits and whether a summary is valid
are free choices.

* `Validate` … `Publish`: a request, its preflight, the parking of the workflow and
  the promotion of a compaction that was under way; `Fail` undoes it.
* `LlmTooLong` and `ErrorTooLong` climb the recovery ladder; `RetrySummary` asks
  again for an invalid summary.
* `Accept` … `Settle`: a summary is checked against the current request, stored,
  and the workflow woken up. `ErrorFallback`, `ErrorState`, `ErrorReturn`: an error
  report and the summary of last resort.
* `Stop`, `Reset`, `Wipe`, `ResetAgain`, `FailWorkflow`, each with `ClearPhase` and
  `ClearRest`, the two halves of `clear_in_flight_state`.

Abstractions: a status change and the three writes of `Publish` are one step; the
started and finished events, `last_compacted_tail_id` and
`wait_for_compaction_to_settle` are left out, as they change none of this state;
`resume_workflow` is a prompt without its message; tool calls re-admitted to an
Idle session are ToolBatch's; terminate's fresh token shows as cancelled until the
next start; a late report of a superseded request is lost once a newer request
goes out; overlapping starts are left to SessionGate.

### Scheduler

`worker` holds the worker's position and its copies of the due rows. `List` …
`DisableOneShot` are one round: find or create the session, look whether it is
busy, send, record. `EditRead`/`EditWrite`, `CreateTask`, `DeleteTask`,
`DeleteSession` … `DeleteRow` are commands, `Prompt`/`Begin`/`Finish` the session's
own workflows. `Crash` stops everything; `RecoverList`/`Recover` run in the
background of the next start. A cron expression is a period.

### How they relate

Every module leaves to another one what it does in a single step. `PromptQueue`
and `ToolBatch` say how the turns end that `SessionGate.Outcome` ends
nondeterministically; `SessionGate` says how the statuses change that all others
change in one step, and what a wait does with its permits; `SessionWait` when it
ends; `Compaction` what happens between a request and its LLM answer;
`SessionReopen` what the queue of `PromptQueue` looks like after a restart;
`Scheduler` sends the prompts and deletes the sessions. They share no variables,
so they are not composed into one state machine; `ImplementsPool` is the one
refinement between modules.

## 3. Runs

Deadlock is checked in `wait_bus`. Elsewhere everything may have returned, which is
a proper end; `WedgeNeedsCrowd`, `NeverStranded` and the liveness properties say
which ends are not.

| Run | Instance | What it shows |
| --- | --- | --- |
| `gate_permits` | 1 session, 2 futures, 2 active and 1 suspended permits, all operations, failing writes | `NoDoubleOwner`, `NoLostPermit`, `TransitionAnnounced` for every overlap of two operations of any kind; `ImplementsPool` |
| `gate_stop` | 1 permit of each kind, no `open`, failing writes, fair | `MemoryMatchesDb`; `WedgeNeedsCrowd`, `WedgeIsForever`; `StopReturns`: pause, cancel, terminate and `/clear` return although the gate may stay full for ever |
| `queue_faults` | 4 prompts, batches of 2 | `FifoClaims`, `CancelWins`, `KeptUntilAnswered`, `StoredSurvives` under two failures, cancels or a terminate |
| `reopen_crash` | 3 prompts, 1 resume, a crash, a pause, an opening, a tool batch | `NoneForgotten`, `OnePlace`, `SentNeverWaits`: where accepted prompts are after a restart |
| `tool_results` | 2 batches, the first of up to 2 calls, 2 commands, results handed in | `OneResultPerCall`, `NoForgottenCall`, `CancelStopsTools` |
| `tool_approvals` | 1 batch of up to 2 calls, every mode, failures, fair | `HardNeedsUser`, `NoForgottenCall`, `BatchProgress` |
| `wait_bus` | a session and its delegate, fair | `NoWaitCycle`, `WaitEnds`, `CancelEndsWait`: no status change is missed for good |
| `scheduler_runs` | 1 task, clock up to 3, 2 commands, 1 fault, fair | `EditsSurviveRuns`, `OncePerOccurrence`, `StoppedSoon`, `OneSessionPerTask`, `OneShotSent` |
| `compact_turns` | 2 futures, 2 messages, 1 retry of each kind, 1 trouble, fair | `NeverStranded`, `OneLoop`, `SummaryGrows`, `ParkedEnds` |

Each of them but `gate_stop` and `tool_approvals` also checks its module's
`TypeOK`. The runs that expect a violation are in section 6.

Bounds, and why they suffice:

* Two futures per session are every pairwise race, which is what the lock protocol
  is about; the theorems of section 5 remove the bound. One session with one permit
  of each kind is the smallest gate that can block.
* In `queue_faults` three waiters behind one loop make the batch limit bite. The
  constraint `FewTroubles` allows two loops, two failures, cancels and terminates
  together, none once the last prompt is sent, and a cancel with a terminate while
  two prompts are still to be sent. `MaxFaults` bounds how many operations fail,
  not which.
* In `reopen_crash` three prompts are a loop and the smallest merge. `FewTroubles`
  allows two of crash, pause, opening and batch, one once the third prompt is sent;
  a resume follows a pause or a crash, as the interface offers it; a second load of
  the cache, which the properties excuse, ends the exploration.
* In `tool_results` a loop of a stopped batch meets the next batch; `ShortSecond`
  gives that one a single call. `MaxCommands` bounds the user's commands.
* One task suffices in `scheduler_runs` because tasks share only the worker, whose
  delay is the clock; `MaxClock` 3 is a missed, a due and a future occurrence. At
  most one edit is under way at a time.
* One trouble suffices in `compact_turns` because the properties excuse what two
  together do; one retry of each kind is a ladder with a first and a last rung.

Excuses. A property that some race of the code breaks is stated without the
prompts, or the sessions, that race has touched, and the race is described in
section 6: `missed` (a prompt and what was merged into its row) and `raced` in
`SessionReopen`, `crossed` and the failed
fallback in `Compaction`, `Withdrawn`, `Skipped` and `overtaken` in `PromptQueue`,
`late` (an edit that sets a time already past) and `busied` (a new session found
busy before its first message, and not recorded) in `Scheduler`.

## 4. Fairness

* `SessionGate`: a future that is ready is polled by tokio, hence weak fairness of
  each task's local steps. `transition_lock` is a tokio mutex, which queues its
  waiters in order, hence strong fairness of taking it. Nothing is assumed of the
  gate: a full semaphore may stay full, since whoever owns the permits may be
  waiting for an LLM.
* `ToolBatch`: weak fairness of each loop's step. A tool returns in the end and an
  approval is answered; nothing is assumed of user commands.
* `SessionWait`: weak fairness of each wait's step, its heartbeat included, and of
  each announcement that has begun.
* `Scheduler`: weak fairness of the worker's step and of the frontend's becoming
  ready.
* `Compaction`: weak fairness of each future's local step, of the LLM's answer and
  of the frontend's answer or error report.

## 5. Proofs

The theorems hold for every value of the constants that satisfies the named
assumption of the module (`GateAssumption`, `ToolAssumption`, …), which TLC
evaluates in the runs.

`SessionGateProofs`, for any sessions, futures, permits and operations:

* `Typed`: `Spec => []TypeOK`. Not inductive alone: `LocalsMatchPc` ties the local
  variables to the await point (only a task that owns an active permit is about to
  place, suspend or restore one, only a task under the lock has a released permit,
  exactly the suspended ones have a seat, a task in an update has a target), and
  `TypeOK /\ LocalsMatchPc` is inductive.
* `Conserved`, `SingleOwner`: no permit is owned twice or lost. Each action moves a
  permit between exactly two owners; those that move none are handled by the lemma
  `NeutralKeepsPermits`.
* `Announced`: `status_transition` is set exactly while a task is under the lock,
  and to that task's target.
* `WedgeCrowd`, `WedgeForever`: a blocked gate is owned entirely by waits, and stays
  blocked.
* `Table`: memory and table agree, if `"open" \notin Operations`
  (`resume_session` of a live session writes back a row it read earlier). The
  invariant adds that a task about to commit has written the status it commits.
* `Implements`: `Spec => ImplementsPool`. Assumes that the two semaphores have
  different permits. Every step of a task gives up permits, takes one, exchanges
  one, or stutters (`Sheds` and its relatives); that the permit it takes is free in
  the abstract state rests on `NoDoubleOwner` and `LocalsMatchPc`.

`SessionWaitProofs`: `Typed`, and `NoCycle`: sessions never wait for each other in
a circle, however many and however delegated. Assumes that the tree of parents has
a youngest session in every set (no session descends from itself). The invariant:
whoever waits, or is on its way to it, does so for a descendant.

`ToolBatchProofs`, for any numbers of turns, calls, modes and stops:

* `WellTyped`, on `RestTypes`, which ties local variables to await points.
* `OneResult`: no call has two results in the transcript. A call is at one place
  of its loop (`Places`), an index that was passed never comes back (`NeverBack`),
  and a batch that has counted a call refuses it (`Single`).
* `StopsTools`: a loop whose token is cancelled starts at most the call it had
  already decided on (`LateOnce`).
* `UserDecides`: a call of the hard policy runs only after a user's answer
  (`Consented` follows the answer from the channel to the loop).
* `NothingForgotten`: a call of an unfinished batch is still on its way or was
  answered (`Kept`), and the count agrees (`CallsCounted`).

`PromptQueueProofs`, for any prompts, batch limit and number of failures. Sequences
are where induction would be needed; it is avoided in two ways. `Queues.Kept` is a
recursive *function* on lengths, whose properties (which elements stay, that
their order stays) are proved in `QueueLemmas` from the well-foundedness of the
naturals, applied to the *set* of lengths where they fail; and the invariant
states order as "for i < j the elements are related by R" for a few fixed R, which
append, head, tail, halves and `Kept` preserve.

* `TypeCorrect`: `Spec => []TypeOK`.
* `RowsKept`, `KeptAlways`: what is accepted stays in the messages table or is
  answered (`StoredSurvives`, `KeptUntilAnswered`).
* `CancelsWin`: a prompt whose cancel succeeded is never sent.
* `FirstInFirstOut`: prompts are sent in the order of acceptance (`FifoClaims`).
* The inductive invariant `IInv` is a conjunction of `Typed`, `Owned` and `Loaded`
  (what the loops have in hand is disjoint, and loaded rows belong to it),
  `RowsOwn` and `StackOwned` (no text occurs in two rows, or in a row and a
  waiting prompt that is not its own), `CancelOwned` (who has cancelled a prompt is
  the only one to hold it), `AcceptedKept` and `FifoKept` (the order of acceptance
  runs from hand to queue).

`SessionReopenProofs`, for any prompts, resumes, crashes, openings, pauses, batches
and any window of an opening:

* `TypeCorrect`: `Spec => []TypeOK`.
* `NothingForgotten`: an accepted prompt is in the messages table, and once the cache
  is loaded on the stack, waiting or claimed (`NoneForgotten`).
* `AtOnePlace`: the stack says nothing twice, and nothing that waits or was claimed
  (`OnePlace`).
* `NeverSentAgain`: what was sent neither waits nor has an index row
  (`SentNeverWaits`).
* The inductive invariant `IInv` has three kinds of conjuncts. About the disk alone:
  no two rows say the same prompt (`Chains`), an accepted prompt has a row
  (`TableKept`), an index row has its message and its call is over (`IndexKept`).
  About a load: while the cache is not loaded nothing works, who has read the table
  has read all of it, and the index has shrunk, if at all, to what the load found
  (`LoadKept`). About memory: what a loop holds still has its row unless a merge took
  it (`HandKept`), the stack holds rows and prompts about to be stored (`StackKept`),
  stack, queue and claims share no prompt (`Apart`), a prompt on its way to the queue
  waits there already (`ComesIn`), an accepted one is somewhere (`Placed`), and what
  is on the stack has lost its index row (`SentOnce`). A crash breaks no part of it
  because the conjuncts about memory hold of an empty memory.
  `WaitersKept`, that a waiter has a row and was not sent, rests on these and is
  proved after them.
* Steps that move no prompt (18 of the 32 actions, two of them in part) are handled
  together (`Quiet`), both purges of the index by `ShrinkIndexKeeps`.

`SchedulerProofs`: `WellTyped`; `EditsKept`, a run overwrites only the fields a run
owns (`EditsSurviveRuns` is inductive with the types); `StopsSoon`, a task that is
disabled or deleted sends nothing but what is on its way (`Stopped` for the rows,
`Held` for the worker's copies). `SendsOnce`: what makes a second message
possible is counted, not excluded: `Repeats` are the tasks whose row, or whose
copy in the worker's hand, still says an occurrence that was sent, and `Once` says
that these and the second messages that were sent are no more than the failures
and late edits (`Listed`, `Sent`: nothing is sent ahead of its time;
`EnableReads`: an edit that is about to enable a task does not bring an old time
back). `OneSession` counts the sessions of a task in the same way (`Making`, `Few`).

`CompactionProofs`:

* `Typed`. The boundary of the messages stays in range because whoever adds a
  message does so alone (`LaunchAlone`); the ladder and the retry counter stay in
  range because each is read and raised in one step.
* `WokenOnce`, `WokenUp`, `SummaryKept`: a session has one workflow loop
  (`OneLoop`), a parked one has somebody who will wake it up (`NeverStranded`), and
  a summary never covers less than before (`SummaryGrows`). The invariant `Ends`
  distinguishes the runs by their troubles (manual compactions, stops, faults,
  overlapping prompts). Until the first one whatever is under way is one thing, a future, an LLM
  request or a question for the frontend (`Single`), and boundaries only grow
  (`Newer`); after it the work still has one owner or is excused (`Turn`). At any
  time whoever fails or compacts by hand has been paid for (`Paid`), a compaction in
  flight has somebody who will end it (`Carried`) and a Busy session somebody who
  takes its next turn (`Live`). The phase stays Idle between the two halves of a
  clear, unless a compaction began in between (`Apart`, `ReturnsIdle`), and
  `OwnPlans` ties the local variables to the await points.

Only model-checked:

* all liveness (`StopReturns`, `BatchProgress`, `WaitEnds`, `CancelEndsWait`,
  `OneShotSent`, `ParkedEnds`), which is outside this prover.

Every invariant and every other action property of a passing run is the subject of
a theorem.

## 6. Where the code and its documents disagree

Each is a run that TLC refutes; `PROJECT.json` quotes the line.

| Run | Property | What happens |
| --- | --- | --- |
| `gate_cancel` | `CancelConsumed` | a cancel during a tool batch leaves the session Busy with `cancel_pending` set |
| `scheduler_start` | `WorkerStarts` | the frontend becomes ready between the load of the flag and the call of `notified()`, and the worker never starts |
| `reopen_drop` | `WaitersAreClaimed` | a prompt waits while the LLM answers; the answer's row comes after the prompt's; opening the session takes the prompt for answered and deletes its index row, and the next claim passes over it |

Other behaviour the models reach, which is not kept as a run.

Gate and workflow (`SessionGate`):

* waits hold an active permit while queueing for a suspended one and the other way
  round (`agent/concurrency.rs:14-16`): with both used up the gate blocks
  (`WedgeNeedsCrowd`, `WedgeIsForever`);
* a session terminated during `checkSession` gets its permit back while Idle and
  keeps it (`docs/architecture/push-notify-concurrency-impl.md:173` says that a
  session gives up its permit when it leaves Busy);
* two `start_workflow` calls that decide on the same Idle status both drive the
  session, and a background task whose status write fails drops the permit the
  other one stored;
* `resume_session` of a live session writes back an older status
  (`agent/lifecycle/management.rs:97`);
* storing the user message fails: the session stays Queued
  (`agent/workflow/start.rs:140`).

Prompts (`PromptQueue`, `SessionReopen`):

* a prompt routed to the queue while the session is Busy and enqueued after the
  last scan waits in an Idle session (`agent/workflow/finish.rs:310`, against
  `agent/pending_queue.rs:9-10`);
* a waiter cancelled between the two questions of `handle_llm_response` leaves the
  session Busy with no workflow (`agent/llm/response.rs:447`);
* a prompt claimed between its memory and its database insertion is skipped, then
  indexed;
* the undo of a failed enqueue deletes a row into which another, accepted prompt
  was merged; two enqueues that compute one `queue_seq` suffice
  (`agent/pending_queue.rs:116`, `repositories/pending_queue_repository.rs:78`); a
  discard may delete such a row as well, or that of a prompt a new workflow has
  claimed since the protected ids were read;
* the `queue_seq` freed by a claim is given to a newer prompt, and the index row
  cannot be restored;
* the drain of a batch and the return of what exceeds its limit hold the lock of
  `pending_events` one after the other (`agent/pending_queue.rs:299-315`): a loop
  that claims in between overtakes the remainder. Two loops and five prompts are
  needed (`overtaken`);
* with three or more prompts in a batch, one that was drained before its row
  existed and accepted since is dropped from the merge
  (`agent/pending_queue.rs:346-368`) while its row stays (`Skipped`);
* two first commands load the cache twice (`agent/lifecycle/cache.rs:76`; line 10
  says "called once per session"): the second load replaces the stack and
  `pending_events`, so that a prompt added in between is missing from its own
  request;
* after a restart the last waiter of a Paused or Idle session is taken for the
  prompt of the interrupted turn, so that it overtakes the earlier ones, and a
  waiter stored before an answer is taken for answered; both stay on the stack and
  are sent with the next request, but as parts of the history;
* opening a session reads its status several awaits before the transcript: a waiter
  that arrives in between is protected as the tip of a session that was Idle, and
  its index row deleted.

Tools, approvals and waits (`ToolBatch`, `SessionWait`):

* an approval registered after a cancel has closed the others waits for a user
  (`agent/llm/tool_execution.rs:123`, `agent/workflow/cancel.rs:38`);
* overlapping `set_execution_mode` calls leave memory and table different
  (`agent/session_manager/execution_mode.rs:20-22`, `:50`);
* terminate touches neither `pending_execution` nor the approvals, and lowers the
  cancel flag before a wait has seen it (`agent/session_bus.rs:141-143`): that wait
  goes on until its target rests.

Compaction:

* the fallback summary fails to be stored, or an event to be emitted, after an
  error report: the session stays Busy with nobody to wake it up
  (`docs/specs/message-compaction.md:316-320` promises the contrary); so does a
  compaction that was promoted and then fails;
* `clear_in_flight_state` and `complete_success` are not atomic: they may settle a
  compaction that began in between, whose summary is then ignored;
* a stale error report cancels a newer compaction, and one that read the record
  early may bring an older summary back;
* a prompt sent after a stop, while an older compaction is under way, may give the
  session two loops; a stopped session whose compaction ends later goes to Error;
* a preflight that finds a compaction which ends before it is armed fails the
  workflow.

Scheduler:

* a callback edited into a recurring task while it runs is disabled, and an edit of
  the cron expression during a run loses the next fire time it computed;
* a session found busy at the first check is not recorded in its task;
* Queued and Provisioning do not count as busy, so messages pile up;
* a session opened between the two halves of its deletion is live without a row;
  recovery overwrites a session that was revived meanwhile.

## 7. Not modelled

* **Stream recovery, circuit breaker, loop prevention**: text and token heuristics.
  The models take what they decide as a nondeterministic retry, refusal or error.
* **MCP proxies and servers, built-in tools, browser sidecar, Docker
  provisioning**: process and network I/O behind calls that return or fail at any
  time, which is how `ToolBatch` and `SessionGate` treat them. They are most of the
  lines of the backend, and keep next to no state that the runtime shares; file
  operations, search and rendering are sequential code.
* **Search, knowledge, repositories, migrations, workspaces and isolation**: SQL
  and file layout. The statements the runtime issues are modelled where it issues
  them, with their unique indices and foreign keys.
* **HTTP server, commands, React frontend**: thin wrappers and presentation, except
  `agent_open_session` (`SessionReopen`) and the answers of the compaction listener
  (`Compaction`).
* Process permits of the gate have the same shape as agent permits and no caller in
  the workflow code.
* Creation and deletion of sessions appear in `Scheduler` only; descendants and
  workspaces of a deleted session do not.

## 8. Plan

1. `PromptQueue`: soft cancel and resume of a waiting queue; an ordered set of
   prompts as its abstract specification while nothing fails.
2. Deletion of a session with its descendants against waits and running batches.
3. `SessionReopen`: what a second load of the cache can lose at most, in place of the
   excuse `raced`.
