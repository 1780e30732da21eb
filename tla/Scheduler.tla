------------------------------ MODULE Scheduler ------------------------------
(***************************************************************************)
(* Scheduled tasks.  One worker (scheduled/worker.rs) waits for the         *)
(* frontend, then once a minute lists the tasks that are due and runs them  *)
(* one after the other (scheduled/runner.rs): find or create the task's     *)
(* session, skip if it is busy, send the task's message, record the run.    *)
(* The list holds copies of the rows, so users and agents may edit or       *)
(* delete a task, or delete its session, while its copy waits or runs.  The *)
(* application may stop anywhere; the next start lists what was missed, and *)
(* recovers sessions that look busy (agent/lifecycle/recovery.rs) in the    *)
(* background.                                                              *)
(*                                                                         *)
(* A cron expression is a period, its fire times the multiples; None is the *)
(* one-shot callback.  Each task has the session it runs in to itself.      *)
(* Execution modes, workspaces and planning notes, which a run also sets,   *)
(* appear only as steps that may fail.                                      *)
(***************************************************************************)
EXTENDS Naturals, FiniteSets

CONSTANTS
    Tasks,
    NoTask,
    Crons,         \* periods
    MaxClock,      \* bound: the last minute that passes
    MaxCommands,   \* bound: edits, deletions and prompts
    MaxFaults      \* bound: failing calls and crashes

None == 0
Categories == {"GLOBAL", "SESSION"}
EditOps == {"on", "off", "enable", "disable", "cron"}

ASSUME SchedulerAssumption ==
    /\ NoTask \notin Tasks
    /\ Crons \subseteq Nat \ {0}
    /\ MaxClock \in Nat \ {0} /\ MaxCommands \in Nat /\ MaxFaults \in Nat

VARIABLES
    clock,      \* minutes since the start of the model
    row,        \* [task -> its row of scheduled_tasks]
    session,    \* [task -> the session it runs in]
    ready,      \* IS_READY of lifecycle::frontend_ready
    worker,     \* local state of worker_loop and what it calls
    edit,       \* an edit of a task under way
    deletion,   \* [task -> await point of the deletion of its session]
    recovery,   \* local state of recover_sessions
    commands,   \* commands so far
    faults,     \* failing calls and crashes so far
    wanted,     \* history: [task -> the row as its users left it]
    fired,      \* history: [task -> occurrences whose message was sent]
    again,      \* history: messages sent again for the same occurrence
    after,      \* history: [task -> messages sent since the user stopped it]
    sessions,   \* history: [task -> sessions made for it and not deleted]
    late,       \* history: edits that set a time already past
    busied      \* history: new sessions found busy before their first message

history == <<wanted, fired, again, after, sessions, late, busied>>
vars == <<clock, row, session, ready, worker, edit, deletion, recovery, commands, faults, history>>

Row(life, category, enabled, cron, next) ==
    [life |-> life, category |-> category, enabled |-> enabled, cron |-> cron, next |-> next,
     pinned |-> category = "SESSION"]
Unborn == Row("unborn", "GLOBAL", FALSE, None, None)
Session(exists, active, status, running) ==
    [exists |-> exists, active |-> active, status |-> status, running |-> running]
Worker(pc) == [pc |-> pc, now |-> 0, due |-> {}, copy |-> [t \in Tasks |-> Unborn],
               task |-> NoTask, fresh |-> FALSE]
NoEdit == [op |-> "none", task |-> NoTask, cron |-> None, at |-> 0, read |-> Unborn]

Init ==
    /\ clock = 1
    /\ row = [t \in Tasks |-> Unborn]
    /\ session \in [Tasks -> {Session(exists, exists, "rest", FALSE) : exists \in BOOLEAN}]
    /\ ready = FALSE
    /\ worker = Worker("load")
    /\ edit = NoEdit
    /\ deletion = [t \in Tasks |-> "none"]
    /\ recovery = [pc |-> "list", todo |-> {}]
    /\ commands = 0 /\ faults = 0
    /\ wanted = [t \in Tasks |-> Unborn]
    /\ fired = [t \in Tasks |-> {}] /\ again = 0
    /\ after = [t \in Tasks |-> 0] /\ sessions = [t \in Tasks |-> 0] /\ late = 0 /\ busied = 0
-----------------------------------------------------------------------------
Fault == faults < MaxFaults /\ faults' = faults + 1
Command == commands < MaxCommands /\ commands' = commands + 1

\* Mutant: the reference itself is a next run.
NextRunInclusive(cron, reference) == ((reference + cron - 1) \div cron) * cron

\* compute_next_run_for_timezone: strictly later than the reference.
NextRun(cron, reference) == ((reference \div cron) + 1) * cron

IsSessionTask(r) == r.category = "SESSION"
IsOneShot(r) == r.cron = None
-----------------------------------------------------------------------------
(* worker_loop.                                                              *)

Step(pc) == worker' = [worker EXCEPT !.pc = pc]
At(pc) == worker.pc = pc

\* wait_until_ready reads the flag, and only then asks for a notification.
LoadReady ==
    /\ At("load")
    /\ Step(IF ready THEN "list" ELSE "notified")
    /\ UNCHANGED <<clock, row, session, ready, edit, deletion, recovery, commands, faults, history>>

AwaitReady ==
    /\ At("notified")
    /\ Step("await")
    /\ UNCHANGED <<clock, row, session, ready, edit, deletion, recovery, commands, faults, history>>

\* mark_as_ready wakes who waits at this moment.
MarkReady ==
    /\ ~ready /\ ready' = TRUE
    /\ Step(IF At("await") THEN "list" ELSE worker.pc)
    /\ UNCHANGED <<clock, row, session, edit, deletion, recovery, commands, faults, history>>

\* Mutant: disabled tasks are listed as well.
DueEver(t) == row[t].life = "live" /\ row[t].next # None /\ row[t].next <= clock

\* list_due_tasks.
Due(t) == row[t].life = "live" /\ row[t].enabled /\ row[t].next # None /\ row[t].next <= clock

\* execute_due_tasks works on copies of the rows, after a sleep of a minute or
\* at once after the start.
List ==
    LET due == {t \in Tasks : Due(t)} IN
    /\ At("list")
    /\ worker' = [Worker("next") EXCEPT !.now = clock, !.due = due,
                     !.copy = [t \in Tasks |-> IF t \in due THEN row[t] ELSE Unborn]]
    /\ UNCHANGED <<clock, row, session, ready, edit, deletion, recovery, commands, faults, history>>

\* In any order: it does not matter to the properties.
NextTask ==
    /\ At("next")
    /\ IF worker.due = {} THEN worker' = Worker("list")
       ELSE \E t \in worker.due :
                worker' = [worker EXCEPT !.pc = "find", !.task = t, !.due = @ \ {t}, !.fresh = FALSE]
    /\ UNCHANGED <<clock, row, session, ready, edit, deletion, recovery, commands, faults, history>>

\* An error is logged and ends the task, not the list.
Fails ==
    /\ worker.pc \notin {"load", "notified", "await", "list", "next"}
    /\ Step("next") /\ Fault
    /\ UNCHANGED <<clock, row, session, ready, edit, deletion, recovery, commands, history>>
-----------------------------------------------------------------------------
(* execute_task, for the current copy.                                       *)

Current == worker.task
Copy == worker.copy[Current]

\* resolve_task_session_resolution and its counterpart in
\* execute_session_callback.
FindSession ==
    LET s == session[Current] IN
    /\ At("find")
    /\ Step(IF Copy.pinned /\ s.active THEN "busy"
            ELSE IF Copy.pinned /\ s.exists THEN "resume"
            ELSE IF IsSessionTask(Copy) THEN "orphan" ELSE "create")
    /\ UNCHANGED <<clock, row, session, ready, edit, deletion, recovery, commands, faults, history>>

\* The target session is gone: the task is disabled.
DisableOrphan ==
    /\ At("orphan") /\ Step("next")
    /\ row' = [row EXCEPT ![Current] =
           IF @.life = "live" THEN [@ EXCEPT !.enabled = FALSE, !.next = None] ELSE @]
    /\ UNCHANGED <<clock, session, ready, edit, deletion, recovery, commands, faults, history>>

\* resume_session reads the row ...
ResumeRead ==
    /\ At("resume")
    /\ Step(IF session[Current].exists THEN "activate" ELSE "next")
    /\ UNCHANGED <<clock, row, session, ready, edit, deletion, recovery, commands, faults, history>>

\* Mutant: a session that is not in memory is not put there.
ActivatedIfActive(s) == s

\* The session in memory, new or as it was.
Activated(s) == [s EXCEPT !.active = TRUE, !.running = s.active /\ s.running]

\* ... and puts the session into memory.
ResumeActivate ==
    /\ At("activate") /\ Step("busy")
    /\ session' = [session EXCEPT ![Current] = Activated(@)]
    /\ UNCHANGED <<clock, row, ready, edit, deletion, recovery, commands, faults, history>>

\* create_session, with a new id unless one is pinned: the row, and then the
\* session in memory.  Whoever is busy with an older session of the task is
\* busy with another id.
Create ==
    /\ At("create")
    /\ \/ /\ worker' = [worker EXCEPT !.pc = "busy", !.fresh = TRUE]
          /\ session' = [session EXCEPT ![Current] = Session(TRUE, TRUE, "rest", FALSE)]
          /\ UNCHANGED faults
       \/ /\ Step("next") /\ Fault
          /\ session' = [session EXCEPT ![Current] = Session(TRUE, FALSE, "rest", FALSE)]
    /\ sessions' = [sessions EXCEPT ![Current] = @ + 1]
    /\ deletion' = [deletion EXCEPT ![Current] = IF Copy.pinned THEN @ ELSE "none"]
    /\ recovery' = [recovery EXCEPT !.todo = IF Copy.pinned THEN @ ELSE @ \ {Current}]
    /\ UNCHANGED <<clock, row, ready, edit, commands, wanted, fired, again, after, late, busied>>

\* Mutant: a busy session skips a one-shot as well.
CheckBusySkips ==
    /\ At("busy")
    /\ Step(IF ~session[Current].running THEN "inject" ELSE "skip")
    /\ UNCHANGED <<clock, row, session, ready, edit, deletion, recovery, commands, faults, history>>

\* is_session_busy: a one-shot is tried again at the next tick, other tasks skip
\* the occurrence.
CheckBusy ==
    /\ At("busy")
    /\ Step(IF ~session[Current].running THEN "inject"
            ELSE IF IsOneShot(Copy) THEN "next" ELSE "skip")
    /\ UNCHANGED <<clock, row, session, ready, edit, deletion, recovery, commands, faults, history>>

\* Mutant: the whole copy is written back.
RecordCopy(next, pin) ==
    row' = [row EXCEPT ![Current] = [Copy EXCEPT !.next = next, !.pinned = @ \/ pin]]

\* Mutant: the session is not stored.
RecordNoPin(next, pin) ==
    row' = [row EXCEPT ![Current] = IF @.life = "live" THEN [@ EXCEPT !.next = next] ELSE @]

\* record_run: a task that was deleted meanwhile stays deleted.
Record(next, pin) ==
    row' = [row EXCEPT ![Current] =
        IF @.life = "live" THEN [@ EXCEPT !.next = next, !.pinned = row[Current].pinned \/ pin] ELSE @]

RecordSkipped ==
    /\ At("skip") /\ Step("next")
    /\ Record(NextRun(Copy.cron, worker.now), FALSE)
    /\ busied' = IF worker.fresh THEN busied + 1 ELSE busied
    /\ UNCHANGED <<clock, session, ready, edit, deletion, recovery, commands, faults, wanted, fired, again, after, sessions, late>>

\* inject_messages: the message starts a workflow, or waits for the one that
\* runs; without the session in memory it fails.
Inject ==
    /\ At("inject")
    /\ IF session[Current].active
       THEN /\ Step("record")
            /\ session' = [session EXCEPT ![Current].status =
                   IF @ = "rest" THEN "queued" ELSE @]
            /\ fired' = [fired EXCEPT ![Current] = @ \cup {Copy.next}]
            /\ again' = IF Copy.next \in fired[Current] THEN again + 1 ELSE again
            /\ after' = [after EXCEPT ![Current] =
                   IF wanted[Current].life = "live" /\ wanted[Current].enabled THEN @ ELSE @ + 1]
       ELSE Step("next") /\ UNCHANGED <<session, fired, again, after>>
    /\ UNCHANGED <<clock, row, ready, edit, deletion, recovery, commands, faults, wanted, sessions, late, busied>>

\* A one-shot has no next run, and is disabled afterwards.
RecordRun ==
    /\ At("record")
    /\ Record(IF IsOneShot(Copy) THEN None ELSE NextRun(Copy.cron, worker.now), worker.fresh)
    /\ Step(IF IsOneShot(Copy) THEN "disable" ELSE "next")
    /\ UNCHANGED <<clock, session, ready, edit, deletion, recovery, commands, faults, history>>

DisableOneShot ==
    /\ At("disable") /\ Step("next")
    /\ row' = [row EXCEPT ![Current] =
           IF @.life = "live" THEN [@ EXCEPT !.enabled = FALSE, !.next = None] ELSE @]
    /\ UNCHANGED <<clock, session, ready, edit, deletion, recovery, commands, faults, history>>
-----------------------------------------------------------------------------
(* Users and agents: ScheduledTaskService.                                   *)

\* create_scheduled_task; a callback is scheduled from its session, a one-shot
\* for any later minute.
CreateTask(t, category, cron) ==
    LET new(next) == Row("live", category, TRUE, cron, next) IN
    /\ row[t].life = "unborn"
    /\ category = "SESSION" <=> session[t].exists
    /\ category = "GLOBAL" => cron # None
    /\ \E next \in IF cron = None THEN {clock, clock + 1} ELSE {NextRun(cron, clock)} :
           /\ row' = [row EXCEPT ![t] = new(next)]
           /\ wanted' = [wanted EXCEPT ![t] = new(next)]
    /\ UNCHANGED <<clock, session, ready, worker, edit, deletion, recovery, commands, faults, fired, again, after, sessions, late, busied>>

\* toggle_scheduled_task ("on", "off") and update_scheduled_task ("enable",
\* "disable", "cron") read the row and the time ...
EditRead(t, op, cron) ==
    /\ op # "cron" => cron = None
    /\ op = "cron" => cron # None
    /\ edit.op = "none" /\ row[t].life = "live" /\ Command
    /\ op = "on" => row[t].cron # None
    /\ op = "enable" => row[t].enabled \/ row[t].cron # None
    /\ edit' = [op |-> op, task |-> t, cron |-> cron, at |-> clock, read |-> row[t]]
    /\ UNCHANGED <<clock, row, session, ready, worker, deletion, recovery, faults, history>>

\* The edit computes a next run, from the time it read.
Computes == edit.op \in {"on", "cron"} \/ (edit.op = "enable" /\ ~edit.read.enabled)

\* What an edit makes of the row r.
Edited(r) ==
    LET fromCopy == NextRun(edit.read.cron, edit.at) IN
    CASE edit.op = "on"      -> [r EXCEPT !.enabled = TRUE, !.next = fromCopy]
      [] edit.op = "off"     -> [r EXCEPT !.enabled = FALSE, !.next = edit.read.next]
      [] edit.op = "enable"  -> [r EXCEPT !.enabled = TRUE,
                                     !.next = IF edit.read.enabled THEN @ ELSE fromCopy]
      [] edit.op = "disable" -> [r EXCEPT !.enabled = FALSE]
      [] edit.op = "cron"    -> [r EXCEPT !.cron = edit.cron, !.next = NextRun(edit.cron, edit.at)]

\* ... and write what the edit changes.  (`late`: the next run it computed is
\* already past.)
EditWrite ==
    LET t == edit.task  new == Edited(row[t]) IN
    /\ edit.op # "none" /\ edit' = NoEdit
    /\ IF row[t].life # "live" THEN UNCHANGED <<row, wanted, after, late>>
       ELSE /\ row' = [row EXCEPT ![t] = new]
            /\ wanted' = [wanted EXCEPT ![t].enabled = IF edit.op = "cron" THEN @ ELSE new.enabled,
                                        ![t].cron = new.cron]
            /\ after' = [after EXCEPT ![t] = IF edit.op \in {"on", "enable"} THEN 0 ELSE @]
            /\ late' = IF Computes /\ new.next <= clock THEN late + 1 ELSE late
    /\ UNCHANGED <<clock, session, ready, worker, deletion, recovery, commands, faults, fired, again, sessions, busied>>

DeleteTask(t) ==
    /\ row[t].life = "live" /\ Command
    /\ row' = [row EXCEPT ![t].life = "deleted"]
    /\ wanted' = [wanted EXCEPT ![t].life = "deleted"]
    /\ UNCHANGED <<clock, session, ready, worker, edit, deletion, recovery, faults, fired, again, after, sessions, late, busied>>
-----------------------------------------------------------------------------
(* The sessions: users, workflows, recovery.                                 *)

\* A prompt of the user.
Prompt(t) ==
    /\ session[t].active /\ session[t].status = "rest"
    /\ session' = [session EXCEPT ![t].status = "queued"]
    /\ Command
    /\ UNCHANGED <<clock, row, ready, worker, edit, deletion, recovery, faults, history>>

\* The gate lets the workflow run ...
Begin(t) ==
    /\ session[t].active /\ session[t].status = "queued"
    /\ session' = [session EXCEPT ![t].status = "busy", ![t].running = TRUE]
    /\ UNCHANGED <<clock, row, ready, worker, edit, deletion, recovery, commands, faults, history>>

\* ... and it ends.
Finish(t) ==
    /\ session[t].running
    /\ session' = [session EXCEPT ![t].status = "rest", ![t].running = FALSE]
    /\ UNCHANGED <<clock, row, ready, worker, edit, deletion, recovery, commands, faults, history>>

\* delete_session: the session leaves memory ...
DeleteSession(t) ==
    /\ session[t].exists /\ deletion[t] = "none" /\ Command
    /\ session' = [session EXCEPT ![t] = [@ EXCEPT !.active = FALSE, !.status = "rest", !.running = FALSE]]
    /\ deletion' = [deletion EXCEPT ![t] = "tasks"]
    /\ sessions' = [sessions EXCEPT ![t] = IF @ = 0 THEN 0 ELSE @ - 1]
    /\ UNCHANGED <<clock, row, ready, worker, edit, recovery, faults, wanted, fired, again, after, late, busied>>

\* ... then its callbacks go, or not ...
DeleteCallbacks(t) ==
    /\ deletion[t] = "tasks"
    /\ deletion' = [deletion EXCEPT ![t] = "row"]
    /\ \/ /\ row' = [row EXCEPT ![t].life = IF IsSessionTask(row[t]) /\ @ = "live" THEN "deleted" ELSE @]
          /\ wanted' = [wanted EXCEPT ![t].life = row'[t].life]
          /\ UNCHANGED faults
       \/ Fault /\ UNCHANGED <<row, wanted>>
    /\ UNCHANGED <<clock, session, ready, worker, edit, recovery, commands, fired, again, after, sessions, late, busied>>

\* ... and its row.
DeleteRow(t) ==
    /\ deletion[t] = "row"
    /\ deletion' = [deletion EXCEPT ![t] = "none"]
    /\ session' = [session EXCEPT ![t].exists = FALSE]
    /\ UNCHANGED <<clock, row, ready, worker, edit, recovery, commands, faults, history>>

\* The application stops, and starts again: nobody works any more on sessions
\* whose row says Queued or Busy.
Crash ==
    /\ Fault
    /\ session' = [t \in Tasks |-> [session[t] EXCEPT !.active = FALSE, !.running = FALSE,
                                      !.status = IF @ = "rest" THEN "rest" ELSE "stale"]]
    /\ ready' = FALSE /\ worker' = Worker("load") /\ edit' = NoEdit
    /\ deletion' = [t \in Tasks |-> "none"]
    /\ recovery' = [pc |-> "list", todo |-> {}]
    /\ UNCHANGED <<clock, row, commands, history>>

\* recover_sessions reads all rows ...
RecoverList ==
    /\ recovery.pc = "list"
    /\ recovery' = [pc |-> "fix",
           todo |-> {t \in Tasks : session[t].exists /\ session[t].status # "rest"}]
    /\ UNCHANGED <<clock, row, session, ready, worker, edit, deletion, commands, faults, history>>

\* ... and puts the sessions that were under way to rest, one by one, whatever
\* has become of them since.
Recover(t) ==
    /\ recovery.pc = "fix" /\ t \in recovery.todo
    /\ recovery' = [recovery EXCEPT !.todo = @ \ {t}]
    /\ session' = [session EXCEPT ![t] = [@ EXCEPT !.active = TRUE, !.status = "rest", !.running = FALSE]]
    /\ UNCHANGED <<clock, row, ready, worker, edit, deletion, commands, faults, history>>

\* Minutes pass.
Pass ==
    /\ clock < MaxClock /\ clock' = clock + 1
    /\ UNCHANGED <<row, session, ready, worker, edit, deletion, recovery, commands, faults, history>>
-----------------------------------------------------------------------------
WorkerStep ==
    \/ LoadReady \/ AwaitReady \/ List \/ NextTask
    \/ FindSession \/ DisableOrphan \/ ResumeRead \/ ResumeActivate \/ Create
    \/ CheckBusy \/ RecordSkipped \/ Inject \/ RecordRun \/ DisableOneShot

Next ==
    \/ WorkerStep \/ Fails \/ MarkReady
    \/ \E t \in Tasks :
        \/ \E category \in Categories, cron \in Crons \cup {None} : CreateTask(t, category, cron)
        \/ \E op \in EditOps, cron \in Crons \cup {None} : EditRead(t, op, cron)
        \/ DeleteTask(t) \/ Prompt(t) \/ Begin(t) \/ Finish(t)
        \/ DeleteSession(t) \/ DeleteCallbacks(t) \/ DeleteRow(t) \/ Recover(t)
    \/ EditWrite \/ Crash \/ RecoverList \/ Pass

Spec == Init /\ [][Next]_vars

\* The worker is polled whenever it is ready and its timer fires; the frontend
\* comes up.  Nothing is assumed of users, workflows and the gate.
FairSpec == Spec /\ WF_vars(WorkerStep) /\ WF_vars(MarkReady)
-----------------------------------------------------------------------------
(* Properties.                                                              *)

Rows == [life : {"unborn", "live", "deleted"}, category : Categories, enabled : BOOLEAN, cron : Crons \cup {None},
         next : Nat, pinned : BOOLEAN]

TypeOK ==
    /\ clock \in 1..MaxClock /\ commands \in 0..MaxCommands /\ faults \in 0..MaxFaults
    /\ row \in [Tasks -> Rows] /\ wanted \in [Tasks -> Rows]
    /\ session \in [Tasks -> [exists : BOOLEAN, active : BOOLEAN,
                              status : {"rest", "queued", "busy", "stale"}, running : BOOLEAN]]
    /\ \A t \in Tasks : session[t].running => session[t].active
    /\ ready \in BOOLEAN
    /\ worker.pc \in {"load", "notified", "await", "list", "next", "find", "orphan", "resume",
                      "activate", "create", "busy", "skip", "inject", "record", "disable"}
    /\ worker.pc \in {"find", "orphan", "resume", "activate", "create", "busy", "skip",
                      "inject", "record", "disable"} => Current \in Tasks /\ Copy.life = "live"
    /\ worker.pc \in {"skip"} => Copy.cron # None
    /\ deletion \in [Tasks -> {"none", "tasks", "row"}]
    /\ recovery.todo \subseteq Tasks

\* A run works on an old copy of the task and never undoes what users did to
\* the task meanwhile: a deleted task stays deleted, a disabled one disabled,
\* and the schedule is the one last chosen (scheduled_task_repository.rs:182-244).
EditsSurviveRuns ==
    \A t \in Tasks : row[t].life = "live" =>
        /\ wanted[t].life = "live" /\ row[t].cron = wanted[t].cron
        /\ row[t].enabled => wanted[t].enabled

\* An occurrence of a task sends its message once, through missed minutes, busy
\* sessions, edits and deletions, unless the application stopped or a call
\* failed, or an edit came so late that it set a time already past
\* (runner.rs:314-319, 551-567).
OncePerOccurrence == again <= faults + late

\* Once its user has disabled or deleted a task it sends at most the message
\* that was already on its way (runner.rs:121-143).
StoppedSoon == \A t \in Tasks : after[t] <= 1

\* A GLOBAL task makes one session and keeps it; another one is made only when a
\* step after the creation failed, or the new session was busy before the first
\* message came (runner.rs:237-287, 316-319).
OneSessionPerTask == \A t \in Tasks : sessions[t] <= 1 + faults + busied

\* A one-shot callback that is due is sent, unless its session is running again
\* and again, or the worker never learns that the frontend is up.
OneShotSent ==
    \A t \in Tasks :
        <>[](Due(t) /\ IsOneShot(row[t]))
            => []<>session[t].running \/ <>[](worker.pc = "await")

\* Claimed by worker.rs:33 and frontend_ready.rs:14, "Wait until the frontend is
\* ready": the worker starts when the frontend is.
WorkerStarts == ready ~> (~ready \/ worker.pc \notin {"load", "notified", "await"})
=============================================================================
