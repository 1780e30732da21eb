---------------------------- MODULE SchedulerProofs ----------------------------
(***************************************************************************)
(* What Scheduler promises for any number of tasks and sessions, any        *)
(* periods, edits, failures and restarts:                                   *)
(*   TypeOK             every state is well formed,                         *)
(*   EditsSurviveRuns   a run never undoes what users did meanwhile,        *)
(*   StoppedSoon        one message at most after a task was stopped,       *)
(*   OncePerOccurrence  an occurrence is sent again only for a failure, a   *)
(*                      crash or a late edit,                               *)
(*   OneSessionPerTask  a task makes another session only for one.          *)
(***************************************************************************)
EXTENDS Scheduler, FiniteSetTheorems, TLAPS

RunPcs == {"find", "orphan", "resume", "activate", "create", "busy", "skip", "inject", "record", "disable"}
WorkerPcs == RunPcs \cup {"load", "notified", "await", "list", "next"}
Sessions == [exists : BOOLEAN, active : BOOLEAN, status : {"rest", "queued", "busy", "stale"}, running : BOOLEAN]
Workers == [pc : WorkerPcs, now : Nat, due : SUBSET Tasks, copy : [Tasks -> Rows],
            task : Tasks \cup {NoTask}, fresh : BOOLEAN]
Edits == [op : EditOps \cup {"none"}, task : Tasks \cup {NoTask}, cron : Crons \cup {None}, at : Nat, read : Rows]

\* A run is for a task that was listed; a skipped one is periodic.
WorkerTyped ==
    /\ worker \in Workers
    /\ \A t \in worker.due : worker.copy[t].life = "live"
    /\ worker.pc \in RunPcs => Current \in Tasks /\ Copy.life = "live"
    /\ worker.pc = "skip" => Copy.cron # None

\* An edit that computes a next run has a period to compute it from.
EditTyped ==
    /\ edit \in Edits
    /\ edit.op # "none" => edit.task \in Tasks
    /\ edit.op = "on" \/ (edit.op = "enable" /\ ~edit.read.enabled) => edit.read.cron # None
    /\ edit.op = "cron" => edit.cron # None

RowsTyped ==
    /\ row \in [Tasks -> Rows] /\ wanted \in [Tasks -> Rows]
    /\ after \in [Tasks -> Nat]

RestTyped ==
    /\ clock \in 1..MaxClock /\ commands \in 0..MaxCommands /\ faults \in 0..MaxFaults
    /\ session \in [Tasks -> Sessions]
    /\ \A t \in Tasks : session[t].running => session[t].active
    /\ ready \in BOOLEAN
    /\ deletion \in [Tasks -> {"none", "tasks", "row"}]
    /\ recovery \in [pc : {"list", "fix"}, todo : SUBSET Tasks]

Typed == WorkerTyped /\ EditTyped /\ RowsTyped /\ RestTyped

\* A next run is a time (service.rs, compute_next_run_for_timezone).
LEMMA NextRunTime ==
    ASSUME NEW cron \in Crons, NEW reference \in Nat
    PROVE  NextRun(cron, reference) \in Nat
<1>1. cron \in Nat /\ cron > 0
    BY SchedulerAssumption
<1>2. reference \div cron \in Nat
    BY <1>1
<1>. QED BY <1>1, <1>2 DEF NextRun

\* An edit and a recorded run keep rows rows.
LEMMA EditedRow ==
    ASSUME EditTyped, NEW r \in Rows, edit.op # "none"
    PROVE  Edited(r) \in Rows
<1>1. (edit.op = "on" \/ (edit.op = "enable" /\ ~edit.read.enabled)) => NextRun(edit.read.cron, edit.at) \in Nat
    BY NextRunTime DEF EditTyped, Edits, Rows, None
<1>2. edit.op = "cron" => NextRun(edit.cron, edit.at) \in Nat /\ edit.cron \in Crons
    BY NextRunTime DEF EditTyped, Edits, None
<1>3. edit.op \in EditOps /\ edit.read.next \in Nat /\ r.next \in Nat
    BY DEF EditTyped, Edits, Rows
<1>4. CASE edit.op = "on"
    BY <1>1, <1>4 DEF Edited, Rows
<1>5. CASE edit.op = "off"
    BY <1>3, <1>5 DEF Edited, Rows
<1>6. CASE edit.op = "enable"
    <2>1. (IF edit.read.enabled THEN r.next ELSE NextRun(edit.read.cron, edit.at)) \in Nat
        BY <1>1, <1>3, <1>6
    <2>. QED BY <1>6, <2>1 DEF Edited, Rows
<1>7. CASE edit.op = "disable"
    BY <1>7 DEF Edited, Rows
<1>8. CASE edit.op = "cron"
    BY <1>2, <1>8 DEF Edited, Rows
<1>. QED BY <1>3, <1>4, <1>5, <1>6, <1>7, <1>8 DEF EditOps

\* What the steps of the worker do to the worker.
LEMMA StepTyped ==
    ASSUME WorkerTyped, NEW pc \in WorkerPcs, worker' = [worker EXCEPT !.pc = pc],
           pc \in RunPcs => worker.pc \in RunPcs,
           pc = "skip" => Copy.cron # None
    PROVE  WorkerTyped'
<1>1. /\ worker'.pc = pc /\ worker'.due = worker.due /\ worker'.copy = worker.copy
      /\ worker'.task = worker.task /\ worker' \in Workers
    BY DEF WorkerTyped, Workers
<1>. QED BY <1>1 DEF WorkerTyped, Current, Copy

\* The fresh states of the worker.
LEMMA FreshWorker ==
    ASSUME NEW pc \in {"load", "list"}, worker' = Worker(pc)
    PROVE  WorkerTyped'
<1>1. Unborn \in Rows
    BY DEF Unborn, Row, Rows, Categories, None
<1>2. /\ worker' \in Workers /\ worker'.pc = pc /\ worker'.due = {}
    BY <1>1 DEF Worker, Workers, WorkerPcs, RunPcs
<1>. QED BY <1>2 DEF WorkerTyped, RunPcs

LEMMA WorkerTypedStep ==
    ASSUME Typed, [Next]_vars
    PROVE  WorkerTyped'
<1>. USE DEF Typed, Step, At
<1>1. CASE UNCHANGED worker
    BY <1>1 DEF WorkerTyped, Current, Copy
<1>2. CASE MarkReady
    <2>1. CASE worker.pc = "await"
        BY <1>2, <2>1, StepTyped DEF MarkReady, WorkerPcs, RunPcs
    <2>2. CASE worker.pc # "await"
        <3>1. worker' = worker
            BY <1>2, <2>2 DEF MarkReady, WorkerTyped, Workers
        <3>. QED BY <1>1, <3>1
    <2>. QED BY <2>1, <2>2
<1>3. CASE LoadReady \/ AwaitReady \/ Fails
    BY <1>3, StepTyped DEF LoadReady, AwaitReady, Fails, WorkerPcs, RunPcs
<1>4. CASE List
    <2>. DEFINE due == {t \in Tasks : Due(t)}
                copy == [t \in Tasks |-> IF t \in due THEN row[t] ELSE Unborn]
    <2>1. worker' = [Worker("next") EXCEPT !.now = clock, !.due = due, !.copy = copy]
        BY <1>4 DEF List
    <2>2. Unborn \in Rows /\ copy \in [Tasks -> Rows]
        BY DEF Unborn, Row, Rows, Categories, None, RowsTyped
    <2>3. clock \in Nat /\ due \subseteq Tasks /\ \A t \in due : copy[t].life = "live"
        BY SchedulerAssumption DEF RestTyped, Due
    <2>. HIDE DEF due, copy
    <2>4. /\ worker'.pc = "next" /\ worker'.now = clock /\ worker'.due = due /\ worker'.copy = copy
          /\ worker'.task = NoTask /\ worker'.fresh = FALSE
          /\ worker' \in Workers
        BY <2>1, <2>2, <2>3 DEF Worker, Workers, WorkerPcs
    <2>. QED BY <2>3, <2>4 DEF WorkerTyped, RunPcs
<1>5. CASE NextTask
    <2>1. CASE worker' = Worker("list")
        BY <2>1, FreshWorker
    <2>2. ASSUME NEW t \in worker.due,
                 worker' = [worker EXCEPT !.pc = "find", !.task = t, !.due = @ \ {t}, !.fresh = FALSE]
          PROVE  WorkerTyped'
        <3>1. t \in Tasks /\ worker.copy[t].life = "live"
            BY DEF WorkerTyped, Workers
        <3>2. /\ worker'.pc = "find" /\ worker'.task = t /\ worker'.due = worker.due \ {t}
              /\ worker'.copy = worker.copy /\ worker' \in Workers
            BY <2>2, <3>1 DEF WorkerTyped, Workers, WorkerPcs, RunPcs
        <3>. QED BY <3>1, <3>2 DEF WorkerTyped, Current, Copy
    <2>. QED BY <1>5, <2>1, <2>2 DEF NextTask
<1>6. CASE FindSession
    <2>1. PICK pc \in {"busy", "resume", "orphan", "create"} : worker' = [worker EXCEPT !.pc = pc]
        BY <1>6 DEF FindSession
    <2>. QED BY <1>6, <2>1, StepTyped DEF FindSession, WorkerPcs, RunPcs
<1>7. CASE DisableOrphan \/ ResumeRead \/ ResumeActivate
    <2>1. PICK pc \in {"next", "activate", "busy"} : worker' = [worker EXCEPT !.pc = pc]
        BY <1>7 DEF DisableOrphan, ResumeRead, ResumeActivate
    <2>. QED BY <1>7, <2>1, StepTyped DEF DisableOrphan, ResumeRead, ResumeActivate, WorkerPcs, RunPcs
<1>8. CASE Create
    <2>1. CASE worker' = [worker EXCEPT !.pc = "next"]
        BY <2>1, StepTyped DEF WorkerPcs, RunPcs
    <2>2. CASE worker' = [worker EXCEPT !.pc = "busy", !.fresh = TRUE]
        <3>1. /\ worker'.pc = "busy" /\ worker'.task = worker.task /\ worker'.due = worker.due
              /\ worker'.copy = worker.copy /\ worker' \in Workers
            BY <2>2 DEF WorkerTyped, Workers, WorkerPcs, RunPcs
        <3>. QED BY <1>8, <3>1 DEF Create, WorkerTyped, Current, Copy, RunPcs
    <2>. QED BY <1>8, <2>1, <2>2 DEF Create
<1>9. CASE CheckBusy
    <2>1. PICK pc \in {"inject", "next", "skip"} :
              worker' = [worker EXCEPT !.pc = pc] /\ (pc = "skip" => Copy.cron # None)
        BY <1>9 DEF CheckBusy, IsOneShot
    <2>. QED BY <1>9, <2>1, StepTyped DEF CheckBusy, WorkerPcs, RunPcs
<1>10. CASE RecordSkipped \/ Inject \/ RecordRun \/ DisableOneShot
    <2>1. PICK pc \in {"record", "next", "disable"} : worker' = [worker EXCEPT !.pc = pc]
        BY <1>10 DEF RecordSkipped, Inject, RecordRun, DisableOneShot
    <2>. QED BY <1>10, <2>1, StepTyped DEF RecordSkipped, Inject, RecordRun, DisableOneShot, WorkerPcs, RunPcs
<1>11. CASE Crash
    BY <1>11, FreshWorker DEF Crash
<1>12. ASSUME NEW t \in Tasks,
              \/ \E category \in Categories, cron \in Crons \cup {None} : CreateTask(t, category, cron)
              \/ \E op \in EditOps, cron \in Crons \cup {None} : EditRead(t, op, cron)
              \/ DeleteTask(t) \/ Prompt(t) \/ Begin(t) \/ Finish(t)
              \/ DeleteSession(t) \/ DeleteCallbacks(t) \/ DeleteRow(t) \/ Recover(t)
       PROVE  UNCHANGED worker
    BY <1>12 DEF CreateTask, EditRead, DeleteTask, Prompt, Begin, Finish, DeleteSession, DeleteCallbacks,
       DeleteRow, Recover
<1>13. CASE EditWrite \/ RecoverList \/ Pass \/ UNCHANGED vars
    BY <1>1, <1>13 DEF EditWrite, RecoverList, Pass, vars
<1>. QED BY <1>1, <1>2, <1>3, <1>4, <1>5, <1>6, <1>7, <1>8, <1>9, <1>10, <1>11, <1>12, <1>13 DEF Next, WorkerStep

\* Only users edit.
LEMMA EditTypedStep ==
    ASSUME Typed, [Next]_vars
    PROVE  EditTyped'
<1>. USE DEF Typed
<1>0. Unborn \in Rows
    BY DEF Unborn, Row, Rows, Categories, None
<1>1. CASE UNCHANGED edit
    BY <1>1 DEF EditTyped
<1>2. CASE edit' = NoEdit
    BY <1>0, <1>2 DEF EditTyped, NoEdit, Edits
<1>3. ASSUME NEW t \in Tasks, NEW op \in EditOps, NEW cron \in Crons \cup {None}, EditRead(t, op, cron)
      PROVE  EditTyped'
    <2>1. /\ edit' = [op |-> op, task |-> t, cron |-> cron, at |-> clock, read |-> row[t]]
          /\ op = "cron" => cron # None
          /\ op = "on" => row[t].cron # None
          /\ op = "enable" => row[t].enabled \/ row[t].cron # None
        BY <1>3 DEF EditRead
    <2>2. clock \in Nat /\ row[t] \in Rows
        BY SchedulerAssumption DEF RestTyped, RowsTyped
    <2>3. edit' \in Edits
        BY <2>1, <2>2 DEF Edits
    <2>4. edit'.op = op /\ edit'.task = t /\ edit'.cron = cron /\ edit'.read = row[t]
        BY <2>1
    <2>. QED BY <2>1, <2>3, <2>4 DEF EditTyped
<1>4. CASE WorkerStep \/ Fails \/ MarkReady
    BY <1>1, <1>4 DEF WorkerStep, LoadReady, AwaitReady, List, NextTask, FindSession, DisableOrphan, ResumeRead,
       ResumeActivate, Create, CheckBusy, RecordSkipped, Inject, RecordRun, DisableOneShot, Fails, MarkReady
<1>5. ASSUME NEW t \in Tasks,
             \/ \E category \in Categories, cron \in Crons \cup {None} : CreateTask(t, category, cron)
             \/ DeleteTask(t) \/ Prompt(t) \/ Begin(t) \/ Finish(t)
             \/ DeleteSession(t) \/ DeleteCallbacks(t) \/ DeleteRow(t) \/ Recover(t)
      PROVE  UNCHANGED edit
    BY <1>5 DEF CreateTask, DeleteTask, Prompt, Begin, Finish, DeleteSession, DeleteCallbacks, DeleteRow, Recover
<1>6. CASE EditWrite \/ Crash
    BY <1>2, <1>6 DEF EditWrite, Crash
<1>7. CASE RecoverList \/ Pass \/ UNCHANGED vars
    BY <1>1, <1>7 DEF RecoverList, Pass, vars
<1>. QED BY <1>1, <1>3, <1>4, <1>5, <1>6, <1>7 DEF Next

\* What the worker does to the row of a task that is there: it never enables it,
\* and leaves its schedule alone (scheduled_task_repository.rs:182-244).
Recorded(t, r) ==
    /\ r \in Rows /\ row' = [row EXCEPT ![t] = r]
    /\ r.life = row[t].life /\ r.cron = row[t].cron /\ (r.enabled => row[t].enabled)

LEMMA RecordRecords ==
    ASSUME Typed, NEW next \in Nat, NEW pin \in BOOLEAN, Current \in Tasks, Record(next, pin)
    PROVE  \E r : Recorded(Current, r)
<1>. DEFINE old == row[Current]
            r == IF old.life = "live" THEN [old EXCEPT !.next = next, !.pinned = old.pinned \/ pin] ELSE old
<1>1. old \in Rows
    BY DEF Typed, RowsTyped
<1>2. r \in Rows /\ r.life = old.life /\ r.cron = old.cron /\ r.enabled = old.enabled
    BY <1>1 DEF Rows
<1>3. row' = [row EXCEPT ![Current] = r]
    BY DEF Record
<1>. HIDE DEF r
<1>. QED BY <1>2, <1>3 DEF Recorded

LEMMA DisableRecords ==
    ASSUME Typed, Current \in Tasks,
           row' = [row EXCEPT ![Current] =
               IF @.life = "live" THEN [@ EXCEPT !.enabled = FALSE, !.next = None] ELSE @]
    PROVE  \E r : Recorded(Current, r)
<1>. DEFINE old == row[Current]
            r == IF old.life = "live" THEN [old EXCEPT !.enabled = FALSE, !.next = None] ELSE old
<1>1. old \in Rows
    BY DEF Typed, RowsTyped
<1>2. r \in Rows /\ r.life = old.life /\ r.cron = old.cron /\ (r.enabled => old.enabled)
    BY <1>1 DEF Rows, None
<1>3. row' = [row EXCEPT ![Current] = r]
    OBVIOUS
<1>. HIDE DEF r
<1>. QED BY <1>2, <1>3 DEF Recorded

\* How rows, and what their users want of them, change.
LEMMA RowMoves ==
    ASSUME Typed, [Next]_vars
    PROVE  \/ UNCHANGED <<row, wanted, after>>
           \/ Current \in Tasks /\ (\E r : Recorded(Current, r)) /\ UNCHANGED <<wanted, after>>
           \/ Inject /\ UNCHANGED <<row, wanted>>
           \/ EditWrite
           \/ \E t \in Tasks :
                 \/ \E category \in Categories, cron \in Crons \cup {None} : CreateTask(t, category, cron)
                 \/ DeleteTask(t) \/ DeleteCallbacks(t)
<1>. USE DEF history, Step, At
<1>1. CASE LoadReady \/ AwaitReady \/ List \/ NextTask \/ FindSession \/ ResumeRead \/ ResumeActivate
    BY <1>1 DEF LoadReady, AwaitReady, List, NextTask, FindSession, ResumeRead, ResumeActivate
<1>2. CASE Create \/ CheckBusy \/ Fails \/ MarkReady
    BY <1>2 DEF Create, CheckBusy, Fails, MarkReady
<1>3. CASE DisableOrphan \/ DisableOneShot
    BY <1>3, DisableRecords DEF DisableOrphan, DisableOneShot, Typed, WorkerTyped, RunPcs
<1>4. ASSUME RecordSkipped \/ RecordRun
      PROVE  Current \in Tasks /\ (\E r : Recorded(Current, r)) /\ UNCHANGED <<wanted, after>>
    <2>1. worker.pc \in {"skip", "record"} /\ UNCHANGED <<wanted, after>>
        BY <1>4 DEF RecordSkipped, RecordRun
    <2>2. Current \in Tasks /\ Copy \in Rows /\ worker.now \in Nat /\ worker.fresh \in BOOLEAN
        BY <2>1 DEF Typed, WorkerTyped, RunPcs, Workers, Current, Copy
    <2>3. Copy.cron # None => NextRun(Copy.cron, worker.now) \in Nat
        BY <2>2, NextRunTime DEF Rows
    <2>4. CASE RecordSkipped
        BY <2>1, <2>2, <2>3, <2>4, RecordRecords DEF RecordSkipped, Typed, WorkerTyped
    <2>5. CASE RecordRun
        <3>1. (IF IsOneShot(Copy) THEN None ELSE NextRun(Copy.cron, worker.now)) \in Nat
            BY <2>3 DEF IsOneShot, None
        <3>. QED BY <2>1, <2>2, <2>5, <3>1, RecordRecords DEF RecordRun
    <2>. QED BY <1>4, <2>4, <2>5
<1>5. CASE Inject
    BY <1>5 DEF Inject
<1>6. ASSUME NEW t \in Tasks,
             \/ \E op \in EditOps, cron \in Crons \cup {None} : EditRead(t, op, cron)
             \/ Prompt(t) \/ Begin(t) \/ Finish(t)
             \/ DeleteSession(t) \/ DeleteRow(t) \/ Recover(t)
      PROVE  UNCHANGED <<row, wanted, after>>
    BY <1>6 DEF EditRead, Prompt, Begin, Finish, DeleteSession, DeleteRow, Recover
<1>7. CASE Crash \/ RecoverList \/ Pass \/ UNCHANGED vars
    BY <1>7 DEF Crash, RecoverList, Pass, vars
<1>. QED BY <1>1, <1>2, <1>3, <1>4, <1>5, <1>6, <1>7 DEF Next, WorkerStep

\* What a created task looks like.
LEMMA CreatedRow ==
    ASSUME Typed, NEW t \in Tasks, NEW category \in Categories, NEW cron \in Crons \cup {None},
           CreateTask(t, category, cron)
    PROVE  /\ row[t].life = "unborn" /\ UNCHANGED after
           /\ \E r \in Rows : r.life = "live" /\ row' = [row EXCEPT ![t] = r] /\ wanted' = [wanted EXCEPT ![t] = r]
<1>1. PICK next \in IF cron = None THEN {clock, clock + 1} ELSE {NextRun(cron, clock)} :
          /\ row' = [row EXCEPT ![t] = Row("live", category, TRUE, cron, next)]
          /\ wanted' = [wanted EXCEPT ![t] = Row("live", category, TRUE, cron, next)]
    BY DEF CreateTask
<1>2. clock \in Nat
    BY SchedulerAssumption DEF Typed, RestTyped
<1>3. next \in Nat
    BY <1>2, NextRunTime
<1>4. Row("live", category, TRUE, cron, next) \in Rows /\ Row("live", category, TRUE, cron, next).life = "live"
    BY <1>3 DEF Row, Rows
<1>. QED BY <1>1, <1>4 DEF CreateTask

\* What is written by an edit of a task that is there.
LEMMA WrittenRow ==
    ASSUME Typed, EditWrite, row[edit.task].life = "live"
    PROVE  LET t == edit.task  new == Edited(row[t]) IN
           /\ t \in Tasks /\ new \in Rows /\ new.life = "live"
           /\ row' = [row EXCEPT ![t] = new]
           /\ wanted' = [wanted EXCEPT ![t].enabled = IF edit.op = "cron" THEN @ ELSE new.enabled,
                                       ![t].cron = new.cron]
           /\ edit.op = "cron" => new.enabled = row[t].enabled
           /\ edit.op \in {"on", "enable"} \/ edit.op = "cron" \/ ~new.enabled
           /\ after' = [after EXCEPT ![t] = IF edit.op \in {"on", "enable"} THEN 0 ELSE @]
<1>. DEFINE t == edit.task  new == Edited(row[t])
<1>1. t \in Tasks /\ edit.op # "none" /\ edit.op \in EditOps
    BY DEF EditWrite, Typed, EditTyped, Edits
<1>2. row[t] \in Rows
    BY <1>1 DEF Typed, RowsTyped
<1>3. new \in Rows
    BY <1>1, <1>2, EditedRow DEF Typed
<1>4. new.life = row[t].life
    BY <1>1, <1>2 DEF Edited, EditOps, Rows
<1>5. edit.op = "cron" => new.enabled = row[t].enabled
    BY <1>2 DEF Edited, Rows
<1>6. edit.op \in {"off", "disable"} => ~new.enabled
    BY <1>2 DEF Edited, Rows
<1>. QED BY <1>1, <1>3, <1>4, <1>5, <1>6 DEF EditWrite, EditOps

LEMMA RowsStep ==
    ASSUME Typed, EditsSurviveRuns, [Next]_vars
    PROVE  RowsTyped' /\ EditsSurviveRuns'
<1>. USE DEF Typed, RowsTyped
<1>1. CASE UNCHANGED <<row, wanted, after>>
    BY <1>1 DEF EditsSurviveRuns
<1>2. CASE Current \in Tasks /\ (\E r : Recorded(Current, r)) /\ UNCHANGED <<wanted, after>>
    BY <1>2 DEF Recorded, EditsSurviveRuns
<1>3. CASE Inject /\ UNCHANGED <<row, wanted>>
    <2>1. after' \in [Tasks -> Nat]
        <3>1. CASE UNCHANGED after
            BY <3>1
        <3>2. CASE after' = [after EXCEPT ![Current] =
                       IF wanted[Current].life = "live" /\ wanted[Current].enabled THEN @ ELSE @ + 1]
            <4>. DEFINE n == IF wanted[Current].life = "live" /\ wanted[Current].enabled
                             THEN after[Current] ELSE after[Current] + 1
            <4>1. Current \in Tasks
                BY <1>3 DEF Inject, At, WorkerTyped, RunPcs
            <4>2. n \in Nat
                BY <4>1
            <4>3. after' = [after EXCEPT ![Current] = n]
                BY <3>2
            <4>. HIDE DEF n
            <4>. QED BY <4>2, <4>3
        <3>. QED BY <1>3, <3>1, <3>2 DEF Inject
    <2>. QED BY <1>3, <2>1 DEF EditsSurviveRuns
<1>4. CASE EditWrite
    <2>. DEFINE t == edit.task  new == Edited(row[t])
    <2>1. CASE row[t].life # "live"
        BY <1>1, <1>4, <2>1 DEF EditWrite
    <2>2. CASE row[t].life = "live"
        <3>1. /\ t \in Tasks /\ new \in Rows /\ new.life = "live"
              /\ row' = [row EXCEPT ![t] = new]
              /\ wanted' = [wanted EXCEPT ![t].enabled = IF edit.op = "cron" THEN @ ELSE new.enabled,
                                          ![t].cron = new.cron]
              /\ edit.op = "cron" => new.enabled = row[t].enabled
              /\ after' = [after EXCEPT ![t] = IF edit.op \in {"on", "enable"} THEN 0 ELSE @]
            BY <1>4, <2>2, WrittenRow
        <3>. HIDE DEF new
        <3>2. /\ wanted'[t] = [wanted[t] EXCEPT !.enabled = IF edit.op = "cron" THEN @ ELSE new.enabled,
                                                !.cron = new.cron]
              /\ \A x \in Tasks : x # t => wanted'[x] = wanted[x]
              /\ DOMAIN wanted' = Tasks
            <4>. DEFINE on == IF edit.op = "cron" THEN wanted[t].enabled ELSE new.enabled
            <4>1. wanted' = [wanted EXCEPT ![t].enabled = on, ![t].cron = new.cron]
                BY <3>1
            <4>. HIDE DEF on
            <4>2. wanted'[t] = [wanted[t] EXCEPT !.enabled = on, !.cron = new.cron]
                BY <3>1, <4>1
            <4>3. DOMAIN wanted' = Tasks /\ \A x \in Tasks : x # t => wanted'[x] = wanted[x]
                BY <3>1, <4>1
            <4>. QED BY <4>2, <4>3 DEF on
        <3>3. /\ wanted'[t] \in Rows /\ wanted'[t].life = wanted[t].life /\ wanted'[t].cron = new.cron
              /\ wanted'[t].enabled = IF edit.op = "cron" THEN wanted[t].enabled ELSE new.enabled
            <4>. DEFINE on == IF edit.op = "cron" THEN wanted[t].enabled ELSE new.enabled
            <4>1. wanted[t] \in Rows /\ on \in BOOLEAN /\ new.cron \in Crons \cup {None}
                BY <3>1 DEF Rows
            <4>2. wanted'[t] = [wanted[t] EXCEPT !.enabled = on, !.cron = new.cron]
                BY <3>2
            <4>3. /\ wanted'[t] \in Rows /\ wanted'[t].life = wanted[t].life
                  /\ wanted'[t].cron = new.cron /\ wanted'[t].enabled = on
                <5>. HIDE DEF on
                <5>. QED BY <4>1, <4>2 DEF Rows
            <4>. QED BY <4>3
        <3>4. wanted' \in [Tasks -> Rows]
            <4>1. wanted' = [x \in Tasks |-> wanted'[x]]
                <5>. DEFINE at == [wanted[t] EXCEPT !.enabled = IF edit.op = "cron" THEN @ ELSE new.enabled,
                                                    !.cron = new.cron]
                <5>1. wanted' = [wanted EXCEPT ![t] = at]
                    BY <3>1
                <5>. HIDE DEF at
                <5>. QED BY <5>1 DEF Typed, RowsTyped
            <4>2. \A x \in Tasks : wanted'[x] \in Rows
                <5>1. \A x \in Tasks : wanted[x] \in Rows
                    BY DEF Typed, RowsTyped
                <5>2. \A x \in Tasks : x # t => wanted'[x] = wanted[x]
                    BY <3>2
                <5>. QED BY <3>3, <5>1, <5>2
            <4>. QED BY <4>1, <4>2
        <3>5. row' \in [Tasks -> Rows] /\ after' \in [Tasks -> Nat]
            BY <3>1
        <3>6. EditsSurviveRuns'
            BY <2>2, <3>1, <3>2, <3>3 DEF EditsSurviveRuns
        <3>. QED BY <3>4, <3>5, <3>6
    <2>. QED BY <2>1, <2>2
<1>5. ASSUME NEW t \in Tasks, NEW category \in Categories, NEW cron \in Crons \cup {None},
             CreateTask(t, category, cron)
      PROVE  RowsTyped' /\ EditsSurviveRuns'
    BY <1>5, CreatedRow DEF EditsSurviveRuns
<1>6. ASSUME NEW t \in Tasks, NEW life \in {"unborn", "live", "deleted"},
             row' = [row EXCEPT ![t].life = life], wanted' = [wanted EXCEPT ![t].life = life], UNCHANGED after,
             life = "live" => row[t].life = "live"
      PROVE  RowsTyped' /\ EditsSurviveRuns'
    <2>1. /\ row' \in [Tasks -> Rows] /\ row'[t] = [row[t] EXCEPT !.life = life]
          /\ \A x \in Tasks : x # t => row'[x] = row[x]
        BY <1>6 DEF Rows
    <2>2. /\ wanted' \in [Tasks -> Rows] /\ wanted'[t] = [wanted[t] EXCEPT !.life = life]
          /\ \A x \in Tasks : x # t => wanted'[x] = wanted[x]
        BY <1>6 DEF Rows
    <2>3. /\ row'[t].life = life /\ row'[t].cron = row[t].cron /\ row'[t].enabled = row[t].enabled
          /\ wanted'[t].life = life /\ wanted'[t].cron = wanted[t].cron /\ wanted'[t].enabled = wanted[t].enabled
        BY <2>1, <2>2 DEF Rows
    <2>. QED BY <1>6, <2>1, <2>2, <2>3 DEF EditsSurviveRuns
<1>7. ASSUME NEW t \in Tasks, DeleteTask(t) PROVE RowsTyped' /\ EditsSurviveRuns'
    BY <1>6, <1>7 DEF DeleteTask
<1>8. ASSUME NEW t \in Tasks, DeleteCallbacks(t) PROVE RowsTyped' /\ EditsSurviveRuns'
    <2>1. CASE UNCHANGED <<row, wanted>>
        BY <1>1, <1>8, <2>1 DEF DeleteCallbacks
    <2>2. CASE /\ row' = [row EXCEPT ![t].life = IF IsSessionTask(row[t]) /\ @ = "live" THEN "deleted" ELSE @]
               /\ wanted' = [wanted EXCEPT ![t].life = row'[t].life]
        <3>. DEFINE life == IF IsSessionTask(row[t]) /\ row[t].life = "live" THEN "deleted" ELSE row[t].life
        <3>1. row' = [row EXCEPT ![t].life = life]
            BY <2>2
        <3>2. row[t] \in Rows /\ life \in {"unborn", "live", "deleted"} /\ (life = "live" => row[t].life = "live")
            BY DEF Rows
        <3>. HIDE DEF life
        <3>3. row'[t].life = life
            <4>1. row'[t] = [row[t] EXCEPT !.life = life]
                BY <3>1
            <4>. QED BY <3>2, <4>1 DEF Rows
        <3>. QED BY <1>6, <1>8, <2>2, <3>1, <3>2, <3>3 DEF DeleteCallbacks
    <2>. QED BY <1>8, <2>1, <2>2 DEF DeleteCallbacks
<1>. QED BY <1>1, <1>2, <1>3, <1>4, <1>5, <1>7, <1>8, RowMoves

\* A session that runs is in memory.
SessionTyped ==
    /\ session \in [Tasks -> Sessions]
    /\ \A t \in Tasks : session[t].running => session[t].active

LEMMA SessionSet ==
    ASSUME SessionTyped, NEW t \in Tasks, NEW s \in Sessions, s.running => s.active,
           session' = [session EXCEPT ![t] = s]
    PROVE  SessionTyped'
BY DEF SessionTyped

LEMMA SessionStep ==
    ASSUME Typed, [Next]_vars
    PROVE  SessionTyped'
<1>. USE DEF At, Step
<1>0. SessionTyped
    BY DEF Typed, RestTyped, SessionTyped
<1>1. CASE UNCHANGED session
    BY <1>0, <1>1 DEF SessionTyped
<1>2. worker.pc \in RunPcs => Current \in Tasks
    BY DEF Typed, WorkerTyped
<1>3. CASE ResumeActivate
    <2>. DEFINE s == Activated(session[Current])
    <2>1. Current \in Tasks /\ session' = [session EXCEPT ![Current] = s]
        BY <1>2, <1>3 DEF ResumeActivate, RunPcs
    <2>2. s \in Sessions /\ (s.running => s.active)
        BY <1>0, <2>1 DEF SessionTyped, Sessions, Activated
    <2>. HIDE DEF s
    <2>. QED BY <1>0, <2>1, <2>2, SessionSet
<1>4. CASE Create
    <2>1. PICK active \in BOOLEAN : session' = [session EXCEPT ![Current] = Session(TRUE, active, "rest", FALSE)]
        BY <1>4 DEF Create
    <2>2. /\ Session(TRUE, active, "rest", FALSE) \in Sessions
          /\ Session(TRUE, active, "rest", FALSE).running = FALSE
        BY DEF Session, Sessions
    <2>3. Current \in Tasks
        BY <1>2, <1>4 DEF Create, RunPcs
    <2>. QED BY <1>0, <2>1, <2>2, <2>3, SessionSet
<1>5. ASSUME NEW t \in Tasks, NEW status \in {"rest", "queued", "busy", "stale"}, NEW running \in BOOLEAN,
             running => session[t].active,
             session' = [session EXCEPT ![t] = [@ EXCEPT !.status = status, !.running = running]]
      PROVE  SessionTyped'
    <2>. DEFINE s == [session[t] EXCEPT !.status = status, !.running = running]
    <2>1. s \in Sessions /\ s.running = running /\ s.active = session[t].active
        BY <1>0 DEF SessionTyped, Sessions
    <2>2. session' = [session EXCEPT ![t] = s]
        BY <1>5
    <2>. HIDE DEF s
    <2>. QED BY <1>0, <1>5, <2>1, <2>2, SessionSet
<1>6. ASSUME NEW t \in Tasks, NEW status \in {"rest", "queued", "busy", "stale"},
             session' = [session EXCEPT ![t].status = status]
      PROVE  SessionTyped'
    <2>. DEFINE s == [session[t] EXCEPT !.status = status]
    <2>1. s \in Sessions /\ s.running = session[t].running /\ s.active = session[t].active
        BY <1>0 DEF SessionTyped, Sessions
    <2>2. session' = [session EXCEPT ![t] = s]
        BY <1>6
    <2>. HIDE DEF s
    <2>. QED BY <1>0, <2>1, <2>2, SessionSet DEF SessionTyped
<1>7. CASE Inject
    <2>1. CASE session' = [session EXCEPT ![Current].status = IF @ = "rest" THEN "queued" ELSE @]
        <3>. DEFINE status == IF session[Current].status = "rest" THEN "queued" ELSE session[Current].status
        <3>1. Current \in Tasks
            BY <1>2, <1>7 DEF Inject, RunPcs
        <3>2. status \in {"rest", "queued", "busy", "stale"}
            BY <1>0, <3>1 DEF SessionTyped, Sessions
        <3>3. session' = [session EXCEPT ![Current].status = status]
            BY <2>1
        <3>. HIDE DEF status
        <3>. QED BY <1>6, <3>1, <3>2, <3>3
    <2>. QED BY <1>1, <1>7, <2>1 DEF Inject
<1>8. ASSUME NEW t \in Tasks, Prompt(t) PROVE SessionTyped'
    BY <1>6, <1>8 DEF Prompt
<1>9. ASSUME NEW t \in Tasks, Begin(t) \/ Finish(t) PROVE SessionTyped'
    <2>1. PICK status \in {"rest", "busy"}, running \in BOOLEAN :
              /\ running => session[t].active
              /\ session' = [session EXCEPT ![t].status = status, ![t].running = running]
        BY <1>9 DEF Begin, Finish
    <2>2. session' = [session EXCEPT ![t] = [@ EXCEPT !.status = status, !.running = running]]
        BY <1>0, <2>1 DEF SessionTyped
    <2>. QED BY <1>5, <2>1, <2>2
<1>10. ASSUME NEW t \in Tasks, NEW active \in BOOLEAN,
              session' = [session EXCEPT ![t] = [@ EXCEPT !.active = active, !.status = "rest", !.running = FALSE]]
       PROVE  SessionTyped'
    <2>. DEFINE s == [session[t] EXCEPT !.active = active, !.status = "rest", !.running = FALSE]
    <2>1. s \in Sessions /\ s.running = FALSE
        BY <1>0 DEF SessionTyped, Sessions
    <2>2. session' = [session EXCEPT ![t] = s]
        BY <1>10
    <2>. HIDE DEF s
    <2>. QED BY <1>0, <2>1, <2>2, SessionSet
<1>11. ASSUME NEW t \in Tasks, DeleteSession(t) \/ Recover(t) PROVE SessionTyped'
    BY <1>10, <1>11 DEF DeleteSession, Recover
<1>12. ASSUME NEW t \in Tasks, DeleteRow(t) PROVE SessionTyped'
    <2>. DEFINE s == [session[t] EXCEPT !.exists = FALSE]
    <2>1. s \in Sessions /\ s.running = session[t].running /\ s.active = session[t].active
        BY <1>0 DEF SessionTyped, Sessions
    <2>2. session' = [session EXCEPT ![t] = s]
        BY <1>12 DEF DeleteRow
    <2>. HIDE DEF s
    <2>. QED BY <1>0, <2>1, <2>2, SessionSet DEF SessionTyped
<1>13. CASE Crash
    <2>. DEFINE s(t) == [session[t] EXCEPT !.active = FALSE, !.running = FALSE,
                            !.status = IF @ = "rest" THEN "rest" ELSE "stale"]
    <2>1. \A t \in Tasks : s(t) \in Sessions /\ s(t).running = FALSE
        BY <1>0 DEF SessionTyped, Sessions
    <2>2. session' = [t \in Tasks |-> s(t)]
        BY <1>13 DEF Crash
    <2>. HIDE DEF s
    <2>. QED BY <2>1, <2>2 DEF SessionTyped
<1>14. CASE LoadReady \/ AwaitReady \/ List \/ NextTask \/ FindSession \/ DisableOrphan \/ ResumeRead
              \/ CheckBusy \/ RecordSkipped \/ RecordRun \/ DisableOneShot \/ Fails \/ MarkReady
    BY <1>1, <1>14 DEF LoadReady, AwaitReady, List, NextTask, FindSession, DisableOrphan, ResumeRead,
       CheckBusy, RecordSkipped, RecordRun, DisableOneShot, Fails, MarkReady
<1>15. ASSUME NEW t \in Tasks,
              \/ \E category \in Categories, cron \in Crons \cup {None} : CreateTask(t, category, cron)
              \/ \E op \in EditOps, cron \in Crons \cup {None} : EditRead(t, op, cron)
              \/ DeleteTask(t) \/ DeleteCallbacks(t)
       PROVE  UNCHANGED session
    BY <1>15 DEF CreateTask, EditRead, DeleteTask, DeleteCallbacks
<1>16. CASE EditWrite \/ RecoverList \/ Pass \/ UNCHANGED vars
    BY <1>1, <1>16 DEF EditWrite, RecoverList, Pass, vars
<1>. QED BY <1>1, <1>3, <1>4, <1>7, <1>8, <1>9, <1>11, <1>12, <1>13, <1>14, <1>15, <1>16 DEF Next, WorkerStep

LEMMA RestTypedStep ==
    ASSUME Typed, [Next]_vars
    PROVE  RestTyped'
<1>. DEFINE Rest ==
           /\ clock \in 1..MaxClock /\ commands \in 0..MaxCommands /\ faults \in 0..MaxFaults
           /\ ready \in BOOLEAN /\ deletion \in [Tasks -> {"none", "tasks", "row"}]
           /\ recovery \in [pc : {"list", "fix"}, todo : SUBSET Tasks]
<1>. SUFFICES Rest'
    BY SessionStep DEF RestTyped, SessionTyped
<1>. USE SchedulerAssumption DEF Typed, RestTyped, At, Step, Fault, Command
<1>1. CASE LoadReady \/ AwaitReady \/ List \/ NextTask \/ FindSession \/ DisableOrphan \/ ResumeRead
              \/ ResumeActivate \/ CheckBusy
    BY <1>1 DEF LoadReady, AwaitReady, List, NextTask, FindSession, DisableOrphan, ResumeRead,
       ResumeActivate, CheckBusy
<1>2. CASE RecordSkipped \/ Inject \/ RecordRun \/ DisableOneShot \/ MarkReady
    BY <1>2 DEF RecordSkipped, Inject, RecordRun, DisableOneShot, MarkReady
<1>3. CASE Fails
    <2>1. faults' \in 0..MaxFaults
        BY <1>3 DEF Fails
    <2>. QED BY <1>3, <2>1 DEF Fails
<1>4. CASE Create
    <2>1. faults' \in 0..MaxFaults
        <3>1. UNCHANGED faults \/ (faults < MaxFaults /\ faults' = faults + 1)
            BY <1>4 DEF Create
        <3>. QED BY <3>1
    <2>2. Current \in Tasks
        BY <1>4 DEF Create, WorkerTyped, RunPcs
    <2>3. deletion' \in [Tasks -> {"none", "tasks", "row"}]
        BY <1>4, <2>2 DEF Create
    <2>4. recovery' \in [pc : {"list", "fix"}, todo : SUBSET Tasks]
        <3>. DEFINE todo == IF Copy.pinned THEN recovery.todo ELSE recovery.todo \ {Current}
        <3>1. recovery' = [recovery EXCEPT !.todo = todo] /\ todo \subseteq Tasks
            BY <1>4 DEF Create
        <3>. HIDE DEF todo
        <3>. QED BY <3>1
    <2>. QED BY <1>4, <2>1, <2>3, <2>4 DEF Create
<1>5. ASSUME NEW t \in Tasks, NEW category \in Categories, NEW cron \in Crons \cup {None},
             CreateTask(t, category, cron)
      PROVE  Rest'
    BY <1>5 DEF CreateTask
<1>6. ASSUME NEW t \in Tasks,
             \/ \E op \in EditOps, cron \in Crons \cup {None} : EditRead(t, op, cron)
             \/ DeleteTask(t) \/ Prompt(t)
      PROVE  Rest'
    <2>1. /\ commands < MaxCommands /\ commands' = commands + 1
          /\ UNCHANGED <<clock, faults, ready, deletion, recovery>>
        BY <1>6 DEF EditRead, DeleteTask, Prompt
    <2>. QED BY <2>1
<1>7. ASSUME NEW t \in Tasks, Begin(t) \/ Finish(t) PROVE Rest'
    BY <1>7 DEF Begin, Finish
<1>8. ASSUME NEW t \in Tasks, DeleteSession(t) PROVE Rest'
    <2>1. commands' \in 0..MaxCommands
        BY <1>8 DEF DeleteSession
    <2>. QED BY <1>8, <2>1 DEF DeleteSession
<1>9. ASSUME NEW t \in Tasks, DeleteCallbacks(t) PROVE Rest'
    <2>1. faults' \in 0..MaxFaults /\ deletion' = [deletion EXCEPT ![t] = "row"]
        BY <1>9 DEF DeleteCallbacks
    <2>. QED BY <1>9, <2>1 DEF DeleteCallbacks
<1>10. ASSUME NEW t \in Tasks, DeleteRow(t) \/ Recover(t) PROVE Rest'
    BY <1>10 DEF DeleteRow, Recover
<1>11. CASE Crash
    <2>1. faults' \in 0..MaxFaults
        <3>1. faults < MaxFaults /\ faults' = faults + 1
            BY <1>11 DEF Crash
        <3>. QED BY <3>1
    <2>. QED BY <1>11, <2>1 DEF Crash
<1>12. CASE EditWrite
    BY <1>12 DEF EditWrite
<1>13. CASE RecoverList
    BY <1>13 DEF RecoverList
<1>14. CASE Pass
    BY <1>14 DEF Pass
<1>15. CASE UNCHANGED vars
    BY <1>15 DEF vars
<1>. QED BY <1>1, <1>2, <1>3, <1>4, <1>5, <1>6, <1>7, <1>8, <1>9, <1>10, <1>11, <1>12, <1>13, <1>14, <1>15
        DEF Next, WorkerStep

LEMMA Start == Init => Typed /\ EditsSurviveRuns
<1>. SUFFICES ASSUME Init PROVE Typed /\ EditsSurviveRuns
    OBVIOUS
<1>1. Unborn \in Rows /\ Unborn.life = "unborn"
    BY DEF Unborn, Row, Rows, Categories, None
<1>2. WorkerTyped
    <2>1. /\ worker \in Workers /\ worker.pc = "load" /\ worker.due = {}
        BY <1>1 DEF Init, Worker, Workers, WorkerPcs, RunPcs
    <2>. QED BY <2>1 DEF WorkerTyped, RunPcs
<1>3. EditTyped
    BY <1>1 DEF Init, EditTyped, NoEdit, Edits
<1>4. RowsTyped /\ EditsSurviveRuns
    BY <1>1 DEF Init, RowsTyped, EditsSurviveRuns
<1>5. RestTyped
    <2>1. ASSUME NEW t \in Tasks PROVE session[t] \in Sessions /\ session[t].running = FALSE
        <3>1. PICK exists \in BOOLEAN : session[t] = Session(exists, exists, "rest", FALSE)
            BY DEF Init
        <3>. QED BY <3>1 DEF Session, Sessions
    <2>2. session \in [Tasks -> Sessions]
        BY <2>1 DEF Init
    <2>3. clock \in 1..MaxClock /\ commands \in 0..MaxCommands /\ faults \in 0..MaxFaults
        BY SchedulerAssumption DEF Init
    <2>. QED BY <2>1, <2>2, <2>3 DEF Init, RestTyped
<1>. QED BY <1>2, <1>3, <1>4, <1>5 DEF Typed

LEMMA Always == Spec => [](Typed /\ EditsSurviveRuns)
<1>1. Typed /\ EditsSurviveRuns /\ [Next]_vars => Typed' /\ EditsSurviveRuns'
    BY WorkerTypedStep, EditTypedStep, RowsStep, RestTypedStep DEF Typed
<1>. QED BY <1>1, Start, PTL DEF Spec

\* Every state of the scheduler is well formed: a run is for a task that was
\* live when it was listed, and only periodic tasks skip (runner.rs:121-143).
THEOREM WellTyped == Spec => []TypeOK
<1>1. Typed => TypeOK
    BY DEF Typed, WorkerTyped, Workers, WorkerPcs, RunPcs, RowsTyped, RestTyped, Sessions, TypeOK
<1>. QED BY <1>1, Always, PTL

\* A run works on an old copy of the task and never undoes what users did to
\* the task meanwhile (scheduled_task_repository.rs:182-244).
THEOREM EditsKept == Spec => []EditsSurviveRuns
BY Always, PTL
-----------------------------------------------------------------------------
(* After a task was stopped.                                                 *)

HeldPcs == {"find", "resume", "activate", "create", "busy", "inject"}

\* The worker may still send the message of task t.
Held(t) == t \in worker.due \/ (Current = t /\ worker.pc \in HeldPcs)
On(t) == wanted[t].life = "live" /\ wanted[t].enabled

\* A message that was sent to a stopped task was the one the worker held, and a
\* stopped task is not listed again.
Stopped ==
    /\ Current \notin worker.due
    /\ \A t \in Tasks : row[t].life = "unborn" => ~Held(t) /\ after[t] = 0
    /\ \A t \in Tasks : after[t] # 0 => after[t] = 1 /\ ~Held(t) /\ ~On(t)

\* Only a listing gives the worker a task.
LEMMA HeldMoves ==
    ASSUME Typed, Stopped, [Next]_vars
    PROVE  /\ Current' \notin worker'.due
           /\ \A t \in Tasks : Held(t)' => Held(t) \/ (List /\ Due(t))
<1>. USE DEF At, Step, Current
<1>1. ASSUME UNCHANGED worker
      PROVE  /\ Current' \notin worker'.due
             /\ \A t \in Tasks : Held(t)' => Held(t)
    BY <1>1 DEF Stopped, Held
<1>2. ASSUME NEW pc \in WorkerPcs, worker' = [worker EXCEPT !.pc = pc],
             pc \in HeldPcs => worker.pc \in HeldPcs
      PROVE  /\ worker'.pc = pc
             /\ Current' \notin worker'.due
             /\ \A t \in Tasks : Held(t)' => Held(t)
    <2>1. worker'.pc = pc /\ worker'.due = worker.due /\ worker'.task = worker.task
        BY <1>2 DEF Typed, WorkerTyped, Workers
    <2>. QED BY <1>2, <2>1 DEF Stopped, Held
<1>3. ASSUME NEW pc, worker' = Worker(pc), pc \notin HeldPcs
      PROVE  /\ Current' \notin worker'.due
             /\ \A t \in Tasks : ~Held(t)'
    BY <1>3 DEF Worker, Held
<1>4. CASE MarkReady
    <2>1. CASE worker.pc = "await"
        BY <1>2, <1>4, <2>1 DEF MarkReady, WorkerPcs, HeldPcs
    <2>2. CASE worker.pc # "await"
        <3>1. worker' = worker
            BY <1>4, <2>2 DEF MarkReady, Typed, WorkerTyped, Workers
        <3>. QED BY <1>4, <3>1 DEF Stopped, Held
    <2>. QED BY <2>1, <2>2
<1>5. CASE LoadReady \/ AwaitReady \/ Fails \/ DisableOrphan \/ RecordSkipped \/ RecordRun \/ DisableOneShot
    <2>1. PICK pc \in {"list", "notified", "await", "next", "disable"} : worker' = [worker EXCEPT !.pc = pc]
        BY <1>5 DEF LoadReady, AwaitReady, Fails, DisableOrphan, RecordSkipped, RecordRun, DisableOneShot
    <2>. QED BY <1>2, <2>1 DEF WorkerPcs, RunPcs, HeldPcs
<1>6. CASE List
    <2>. DEFINE due == {t \in Tasks : Due(t)}
                copy == [t \in Tasks |-> IF t \in due THEN row[t] ELSE Unborn]
    <2>1. worker' = [Worker("next") EXCEPT !.now = clock, !.due = due, !.copy = copy]
        BY <1>6 DEF List
    <2>. HIDE DEF copy
    <2>2. worker'.pc = "next" /\ worker'.due = due /\ worker'.task = NoTask
        BY <2>1 DEF Worker
    <2>. QED BY <1>6, <2>2, SchedulerAssumption DEF Held, HeldPcs
<1>7. CASE NextTask
    <2>1. CASE worker' = Worker("list")
        BY <1>3, <1>7, <2>1 DEF HeldPcs
    <2>2. ASSUME NEW t \in worker.due,
                 worker' = [worker EXCEPT !.pc = "find", !.task = t, !.due = @ \ {t}, !.fresh = FALSE]
          PROVE  /\ Current' \notin worker'.due
                 /\ \A x \in Tasks : Held(x)' => Held(x)
        <3>1. worker'.pc = "find" /\ worker'.task = t /\ worker'.due = worker.due \ {t}
            BY <2>2 DEF Typed, WorkerTyped, Workers
        <3>. QED BY <3>1 DEF Held
    <2>. QED BY <1>7, <2>1, <2>2 DEF NextTask
<1>8. CASE FindSession \/ ResumeRead \/ ResumeActivate \/ CheckBusy
    <2>1. PICK pc \in {"busy", "resume", "orphan", "create", "activate", "next", "inject", "skip"} :
              worker' = [worker EXCEPT !.pc = pc]
        BY <1>8 DEF FindSession, ResumeRead, ResumeActivate, CheckBusy
    <2>2. worker.pc \in {"find", "resume", "activate", "busy"}
        BY <1>8 DEF FindSession, ResumeRead, ResumeActivate, CheckBusy
    <2>. QED BY <1>2, <2>1, <2>2 DEF WorkerPcs, RunPcs, HeldPcs
<1>9. CASE Create
    <2>1. CASE worker' = [worker EXCEPT !.pc = "next"]
        BY <1>2, <1>9, <2>1 DEF WorkerPcs, HeldPcs
    <2>2. CASE worker' = [worker EXCEPT !.pc = "busy", !.fresh = TRUE]
        <3>1. worker'.pc = "busy" /\ worker'.task = worker.task /\ worker'.due = worker.due
            BY <2>2 DEF Typed, WorkerTyped, Workers
        <3>. QED BY <1>9, <3>1 DEF Create, Stopped, Held, HeldPcs
    <2>. QED BY <1>9, <2>1, <2>2 DEF Create
<1>10. CASE Inject
    <2>1. PICK pc \in {"record", "next"} : worker' = [worker EXCEPT !.pc = pc]
        BY <1>10 DEF Inject
    <2>. QED BY <1>2, <1>10, <2>1 DEF WorkerPcs, RunPcs, HeldPcs
<1>11. CASE Crash
    BY <1>3, <1>11 DEF Crash, HeldPcs
<1>12. ASSUME NEW t \in Tasks,
              \/ \E category \in Categories, cron \in Crons \cup {None} : CreateTask(t, category, cron)
              \/ \E op \in EditOps, cron \in Crons \cup {None} : EditRead(t, op, cron)
              \/ DeleteTask(t) \/ Prompt(t) \/ Begin(t) \/ Finish(t)
              \/ DeleteSession(t) \/ DeleteCallbacks(t) \/ DeleteRow(t) \/ Recover(t)
       PROVE  UNCHANGED worker
    BY <1>12 DEF CreateTask, EditRead, DeleteTask, Prompt, Begin, Finish, DeleteSession, DeleteCallbacks,
       DeleteRow, Recover
<1>13. CASE EditWrite \/ RecoverList \/ Pass \/ UNCHANGED vars
    BY <1>1, <1>13 DEF EditWrite, RecoverList, Pass, vars
<1>. QED BY <1>1, <1>4, <1>5, <1>6, <1>7, <1>8, <1>9, <1>10, <1>11, <1>12, <1>13 DEF Next, WorkerStep

LEMMA StoppedStep ==
    ASSUME Typed, EditsSurviveRuns, Stopped, [Next]_vars
    PROVE  Stopped'
<1>. USE DEF Typed, RowsTyped
<1>1. ASSUME NEW t \in Tasks, Held(t)', ~Held(t)
      PROVE  On(t) /\ row[t].life = "live" /\ row'[t] = row[t] /\ after'[t] = after[t] /\ wanted'[t] = wanted[t]
    <2>1. List /\ Due(t)
        BY <1>1, HeldMoves
    <2>. QED BY <2>1 DEF List, Due, On, EditsSurviveRuns, history
<1>2. ASSUME \A t \in Tasks : row'[t].life = "unborn" => row[t].life = "unborn" /\ after'[t] = after[t],
             \A t \in Tasks : after'[t] # 0 => after'[t] = after[t] /\ (On(t)' => On(t))
      PROVE  Stopped'
    <2>1. Current' \notin worker'.due
        BY HeldMoves
    <2>2. ASSUME NEW t \in Tasks, row'[t].life = "unborn" PROVE ~Held(t)' /\ after'[t] = 0
        BY <1>1, <1>2, <2>2 DEF Stopped
    <2>3. ASSUME NEW t \in Tasks, after'[t] # 0 PROVE after'[t] = 1 /\ ~Held(t)' /\ ~On(t)'
        BY <1>1, <1>2, <2>3 DEF Stopped
    <2>. QED BY <2>1, <2>2, <2>3 DEF Stopped
<1>3. CASE UNCHANGED <<row, wanted, after>>
    BY <1>2, <1>3 DEF On
<1>4. CASE Current \in Tasks /\ (\E r : Recorded(Current, r)) /\ UNCHANGED <<wanted, after>>
    BY <1>2, <1>4 DEF Recorded, On
<1>5. CASE Inject /\ UNCHANGED <<row, wanted>>
    <2>1. CASE UNCHANGED after
        BY <1>3, <1>5, <2>1
    <2>2. CASE after' = [after EXCEPT ![Current] =
                  IF wanted[Current].life = "live" /\ wanted[Current].enabled THEN @ ELSE @ + 1]
        <3>1. Current \in Tasks /\ Held(Current) /\ worker.pc = "inject"
            BY <1>5 DEF Inject, At, WorkerTyped, RunPcs, Held, HeldPcs
        <3>2. row[Current].life # "unborn" /\ after[Current] = 0
            BY <3>1 DEF Stopped
        <3>3. CASE On(Current)
            BY <1>3, <1>5, <2>2, <3>3 DEF On
        <3>4. CASE ~On(Current)
            <4>1. after' = [after EXCEPT ![Current] = 1]
                <5>. DEFINE n == IF wanted[Current].life = "live" /\ wanted[Current].enabled
                                 THEN after[Current] ELSE after[Current] + 1
                <5>1. n = 1
                    BY <3>2, <3>4 DEF On
                <5>2. after' = [after EXCEPT ![Current] = n]
                    BY <2>2
                <5>. HIDE DEF n
                <5>. QED BY <5>1, <5>2
            <4>2. ~Held(Current)'
                <5>1. worker'.pc \notin HeldPcs /\ worker'.due = worker.due
                    BY <1>5 DEF Inject, Step, WorkerTyped, Workers, HeldPcs
                <5>2. worker'.task = worker.task
                    BY <1>5 DEF Inject, Step, WorkerTyped, Workers
                <5>. QED BY <5>1, <5>2 DEF Stopped, Held, Current
            <4>3. Current' = Current
                BY <1>5 DEF Inject, Step, WorkerTyped, Workers, Current
            <4>4. ASSUME NEW t \in Tasks, t # Current PROVE after'[t] = after[t]
                BY <4>1, <4>4
            <4>5. after'[Current] = 1
                BY <3>1, <4>1
            <4>6. ASSUME NEW t \in Tasks, t # Current, after[t] # 0 PROVE after[t] = 1 /\ ~Held(t)' /\ ~On(t)'
                BY <1>1, <1>5, <4>6 DEF Stopped, On
            <4>7. ~On(Current)'
                BY <1>5, <3>4, <4>3 DEF On
            <4>8. ASSUME NEW t \in Tasks, row[t].life = "unborn" PROVE ~Held(t)' /\ after'[t] = 0
                BY <1>1, <3>2, <4>4, <4>8 DEF Stopped
            <4>. QED BY <1>5, <4>2, <4>3, <4>4, <4>5, <4>6, <4>7, <4>8, HeldMoves DEF Stopped
        <3>. QED BY <3>3, <3>4
    <2>. QED BY <1>5, <2>1, <2>2 DEF Inject
<1>6. CASE EditWrite
    <2>. DEFINE t == edit.task  new == Edited(row[t])
    <2>1. CASE row[t].life # "live"
        BY <1>3, <1>6, <2>1 DEF EditWrite
    <2>2. CASE row[t].life = "live"
        <3>1. /\ t \in Tasks /\ new \in Rows /\ new.life = "live"
              /\ row' = [row EXCEPT ![t] = new]
              /\ wanted' = [wanted EXCEPT ![t].enabled = IF edit.op = "cron" THEN @ ELSE new.enabled,
                                          ![t].cron = new.cron]
              /\ edit.op \in {"on", "enable"} \/ edit.op = "cron" \/ ~new.enabled
              /\ after' = [after EXCEPT ![t] = IF edit.op \in {"on", "enable"} THEN 0 ELSE @]
            BY <1>6, <2>2, WrittenRow
        <3>. HIDE DEF new
        <3>2. /\ wanted'[t].life = wanted[t].life
              /\ wanted'[t].enabled = IF edit.op = "cron" THEN wanted[t].enabled ELSE new.enabled
              /\ \A x \in Tasks : x # t => wanted'[x] = wanted[x]
            <4>. DEFINE on == IF edit.op = "cron" THEN wanted[t].enabled ELSE new.enabled
            <4>1. wanted' = [wanted EXCEPT ![t].enabled = on, ![t].cron = new.cron]
                BY <3>1
            <4>. HIDE DEF on
            <4>2. wanted'[t] = [wanted[t] EXCEPT !.enabled = on, !.cron = new.cron]
                BY <3>1, <4>1
            <4>3. wanted[t] \in Rows
                BY <3>1
            <4>4. wanted'[t].life = wanted[t].life /\ wanted'[t].enabled = on
                BY <4>2, <4>3 DEF Rows
            <4>5. \A x \in Tasks : x # t => wanted'[x] = wanted[x]
                BY <3>1, <4>1
            <4>. QED BY <4>4, <4>5 DEF on
        <3>3. /\ \A x \in Tasks : x # t => row'[x] = row[x] /\ after'[x] = after[x]
              /\ row'[t] = new
              /\ after'[t] = IF edit.op \in {"on", "enable"} THEN 0 ELSE after[t]
            BY <3>1
        <3>4. \A x \in Tasks : x # t => (On(x)' <=> On(x))
            BY <3>2 DEF On
        <3>5. after'[t] # 0 => after'[t] = after[t] /\ (wanted'[t].life = "live" /\ wanted'[t].enabled => On(t))
            BY <3>1, <3>2, <3>3 DEF On
        <3>6. ASSUME NEW x \in Tasks, after'[x] # 0 PROVE after'[x] = after[x] /\ (On(x)' => On(x))
            <4>1. CASE x = t
                BY <3>5, <3>6, <4>1 DEF On
            <4>2. CASE x # t
                BY <3>3, <3>4, <4>2
            <4>. QED BY <4>1, <4>2
        <3>7. ASSUME NEW x \in Tasks, row'[x].life = "unborn" PROVE row[x].life = "unborn" /\ after'[x] = after[x]
            BY <3>1, <3>3, <3>7
        <3>. QED BY <1>2, <3>6, <3>7
    <2>. QED BY <2>1, <2>2
<1>7. ASSUME NEW t \in Tasks, NEW category \in Categories, NEW cron \in Crons \cup {None},
             CreateTask(t, category, cron)
      PROVE  Stopped'
    <2>1. PICK r \in Rows : /\ r.life = "live" /\ row' = [row EXCEPT ![t] = r] /\ wanted' = [wanted EXCEPT ![t] = r]
                            /\ row[t].life = "unborn" /\ UNCHANGED after
        BY <1>7, CreatedRow
    <2>2. after[t] = 0
        BY <2>1 DEF Stopped
    <2>. QED BY <1>2, <2>1, <2>2 DEF On
<1>8. ASSUME NEW t \in Tasks, DeleteTask(t) PROVE Stopped'
    <2>1. /\ row' = [row EXCEPT ![t].life = "deleted"] /\ wanted' = [wanted EXCEPT ![t].life = "deleted"]
          /\ UNCHANGED after
        BY <1>8 DEF DeleteTask
    <2>2. /\ row'[t].life = "deleted" /\ wanted'[t].life = "deleted"
          /\ \A x \in Tasks : x # t => row'[x] = row[x] /\ wanted'[x] = wanted[x]
        BY <2>1 DEF Rows
    <2>. QED BY <1>2, <2>1, <2>2 DEF On
<1>9. ASSUME NEW t \in Tasks, DeleteCallbacks(t) PROVE Stopped'
    <2>1. CASE UNCHANGED <<row, wanted>>
        BY <1>3, <1>9, <2>1 DEF DeleteCallbacks
    <2>2. CASE /\ row' = [row EXCEPT ![t].life = IF IsSessionTask(row[t]) /\ @ = "live" THEN "deleted" ELSE @]
               /\ wanted' = [wanted EXCEPT ![t].life = row'[t].life]
        <3>. DEFINE life == IF IsSessionTask(row[t]) /\ row[t].life = "live" THEN "deleted" ELSE row[t].life
        <3>1. row' = [row EXCEPT ![t].life = life]
            BY <2>2
        <3>2. row[t] \in Rows /\ wanted[t] \in Rows /\ (life = "live" => row[t].life = "live")
              /\ (life = "unborn" => row[t].life = "unborn")
            OBVIOUS
        <3>. HIDE DEF life
        <3>3. /\ row'[t].life = life
              /\ \A x \in Tasks : x # t => row'[x] = row[x]
            <4>1. row'[t] = [row[t] EXCEPT !.life = life] /\ \A x \in Tasks : x # t => row'[x] = row[x]
                BY <3>1
            <4>. QED BY <3>2, <4>1 DEF Rows
        <3>4. /\ wanted'[t].life = life /\ wanted'[t].enabled = wanted[t].enabled
              /\ \A x \in Tasks : x # t => wanted'[x] = wanted[x]
            <4>1. wanted'[t] = [wanted[t] EXCEPT !.life = life] /\ \A x \in Tasks : x # t => wanted'[x] = wanted[x]
                BY <2>2, <3>3
            <4>. QED BY <3>2, <4>1 DEF Rows
        <3>5. life = "live" => wanted[t].life = "live"
            BY <3>2 DEF EditsSurviveRuns
        <3>6. UNCHANGED after
            BY <1>9 DEF DeleteCallbacks
        <3>. QED BY <1>2, <3>2, <3>3, <3>4, <3>5, <3>6 DEF On
    <2>. QED BY <1>9, <2>1, <2>2 DEF DeleteCallbacks
<1>. QED BY <1>3, <1>4, <1>5, <1>6, <1>7, <1>8, <1>9, RowMoves

LEMMA AlwaysStopped == Spec => [](Typed /\ EditsSurviveRuns /\ Stopped)
<1>1. Init => Stopped
    BY SchedulerAssumption DEF Init, Stopped, Held, HeldPcs, Current, Worker
<1>2. Typed /\ EditsSurviveRuns /\ Stopped /\ [Next]_vars => Stopped'
    BY StoppedStep
<1>. QED BY <1>1, <1>2, Always, PTL DEF Spec

\* Once its user has disabled or deleted a task it sends at most the message
\* that was already on its way (runner.rs:121-143).
THEOREM StopsSoon == Spec => []StoppedSoon
<1>1. Typed /\ Stopped => StoppedSoon
    BY DEF Typed, RowsTyped, Stopped, StoppedSoon
<1>. QED BY <1>1, AlwaysStopped, PTL
-----------------------------------------------------------------------------
(* How an occurrence is sent once.                                           *)

\* A next run is later than its reference (compute_next_run_for_timezone).
LEMMA NextRunLater ==
    ASSUME NEW cron \in Crons, NEW reference \in Nat
    PROVE  NextRun(cron, reference) \in Nat /\ NextRun(cron, reference) > reference
<1>1. cron \in Nat /\ cron > 0
    BY SchedulerAssumption
<1>2. reference = cron * (reference \div cron) + (reference % cron)
    BY <1>1
<1>3. reference % cron \in Nat /\ reference % cron < cron
    BY <1>1
<1>4. PICK q \in Nat : q = reference \div cron
    BY <1>1
<1>5. NextRun(cron, reference) = cron * q + cron
    BY <1>1, <1>4 DEF NextRun
<1>6. cron * q \in Nat
    BY <1>1, <1>4
<1>. QED BY <1>1, <1>2, <1>3, <1>4, <1>5, <1>6

\* The worker has listed task t and is not done with it.
Working(t) == t \in worker.due \/ (Current = t /\ worker.pc \in RunPcs)
ListPcs == RunPcs \cup {"next"}

\* The ways the worker moves: to another point of the same run, to a new list,
\* to the next task, or back to where it starts.
LEMMA WorkerMoves ==
    ASSUME Typed, [Next]_vars
    PROVE  \/ UNCHANGED worker
           \/ \E pc \in WorkerPcs :
                 /\ worker' = [worker EXCEPT !.pc = pc]
                 /\ pc \in HeldPcs => worker.pc \in HeldPcs
                 /\ pc \in RunPcs => worker.pc \in {"find", "resume", "activate", "busy", "inject", "record"}
                 /\ pc = "create" => FindSession
                 /\ pc \in {"find", "resume", "activate"} => pc # "find" /\ worker.pc \in {"find", "resume"}
                 /\ worker.pc = "record" => pc \in {"next", "disable"}
                 /\ pc \in ListPcs => worker.pc \in RunPcs
                 /\ worker.pc = "next" => pc = "next"
                 /\ worker.pc \in RunPcs => pc \in ListPcs
           \/ \E pc \in {"load", "list"} : worker' = Worker(pc) /\ (NextTask \/ Crash)
           \/ List
           \/ NextTask /\ \E t \in worker.due :
                 worker' = [worker EXCEPT !.pc = "find", !.task = t, !.due = @ \ {t}, !.fresh = FALSE]
           \/ Create /\ worker' = [worker EXCEPT !.pc = "busy", !.fresh = TRUE]
<1>. USE DEF At, Step
<1>. DEFINE Moves(pc) == /\ worker' = [worker EXCEPT !.pc = pc]
                         /\ pc \in HeldPcs => worker.pc \in HeldPcs
                         /\ pc \in RunPcs => worker.pc \in {"find", "resume", "activate", "busy", "inject", "record"}
                         /\ pc = "create" => FindSession
                         /\ pc \in {"find", "resume", "activate"} => pc # "find" /\ worker.pc \in {"find", "resume"}
                         /\ worker.pc = "record" => pc \in {"next", "disable"}
                         /\ pc \in ListPcs => worker.pc \in RunPcs
                         /\ worker.pc = "next" => pc = "next"
                         /\ worker.pc \in RunPcs => pc \in ListPcs
<1>1. CASE MarkReady
    <2>1. CASE worker.pc = "await"
        <3>1. Moves("list")
            BY <1>1, <2>1 DEF MarkReady, RunPcs, HeldPcs, ListPcs
        <3>. QED BY <3>1 DEF WorkerPcs
    <2>2. CASE worker.pc # "await"
        <3>1. worker' = worker
            BY <1>1, <2>2 DEF MarkReady, Typed, WorkerTyped, Workers
        <3>. QED BY <3>1
    <2>. QED BY <2>1, <2>2
<1>2. CASE LoadReady \/ AwaitReady
    <2>1. PICK pc \in {"list", "notified", "await"} : worker' = [worker EXCEPT !.pc = pc]
        BY <1>2 DEF LoadReady, AwaitReady
    <2>2. worker.pc \in {"load", "notified"}
        BY <1>2 DEF LoadReady, AwaitReady
    <2>3. Moves(pc)
        BY <2>1, <2>2 DEF RunPcs, HeldPcs, ListPcs
    <2>. QED BY <2>3 DEF WorkerPcs
<1>3. CASE Fails
    <2>1. worker.pc \in RunPcs
        BY <1>3 DEF Fails, Typed, WorkerTyped, Workers, WorkerPcs
    <2>2. Moves("next")
        BY <1>3, <2>1 DEF Fails, RunPcs, HeldPcs, ListPcs
    <2>. QED BY <2>2 DEF WorkerPcs
<1>4. CASE NextTask
    BY <1>4 DEF NextTask
<1>5. CASE FindSession \/ ResumeRead \/ ResumeActivate \/ CheckBusy \/ Inject
    <2>1. CASE FindSession
        <3>1. PICK p \in {"busy", "resume", "orphan", "create"} : worker' = [worker EXCEPT !.pc = p]
            BY <2>1 DEF FindSession
        <3>2. Moves(p)
            BY <2>1, <3>1 DEF FindSession, RunPcs, HeldPcs, ListPcs
        <3>. QED BY <3>2 DEF WorkerPcs, RunPcs
    <2>2. CASE ResumeRead \/ ResumeActivate
        <3>1. PICK p \in {"activate", "next", "busy"} :
                  worker' = [worker EXCEPT !.pc = p] /\ (p = "activate" => worker.pc = "resume")
            BY <2>2 DEF ResumeRead, ResumeActivate
        <3>2. worker.pc \in {"resume", "activate"}
            BY <2>2 DEF ResumeRead, ResumeActivate
        <3>3. Moves(p)
            BY <3>1, <3>2 DEF RunPcs, HeldPcs, ListPcs
        <3>. QED BY <3>3 DEF WorkerPcs, RunPcs
    <2>3. CASE CheckBusy \/ Inject
        <3>1. PICK p \in {"next", "inject", "skip", "record"} : worker' = [worker EXCEPT !.pc = p]
            BY <2>3 DEF CheckBusy, Inject
        <3>2. worker.pc \in {"busy", "inject"}
            BY <2>3 DEF CheckBusy, Inject
        <3>3. Moves(p)
            BY <3>1, <3>2 DEF RunPcs, HeldPcs, ListPcs
        <3>. QED BY <3>3 DEF WorkerPcs, RunPcs
    <2>. QED BY <1>5, <2>1, <2>2, <2>3
<1>6. CASE DisableOrphan \/ RecordSkipped \/ RecordRun \/ DisableOneShot
    <2>1. PICK pc \in {"next", "disable"} :
              worker' = [worker EXCEPT !.pc = pc] /\ (pc = "disable" => worker.pc = "record")
        BY <1>6 DEF DisableOrphan, RecordSkipped, RecordRun, DisableOneShot
    <2>2. worker.pc \in {"orphan", "skip", "record", "disable"}
        BY <1>6 DEF DisableOrphan, RecordSkipped, RecordRun, DisableOneShot
    <2>3. Moves(pc)
        BY <2>1, <2>2 DEF RunPcs, HeldPcs, ListPcs
    <2>. QED BY <2>3 DEF WorkerPcs, RunPcs
<1>7. CASE Create
    <2>1. CASE worker' = [worker EXCEPT !.pc = "next"]
        <3>1. Moves("next")
            BY <1>7, <2>1 DEF Create, RunPcs, HeldPcs, ListPcs
        <3>. QED BY <3>1 DEF WorkerPcs
    <2>2. CASE worker' = [worker EXCEPT !.pc = "busy", !.fresh = TRUE]
        BY <1>7, <2>2
    <2>. QED BY <1>7, <2>1, <2>2 DEF Create
<1>8. CASE Crash
    BY <1>8 DEF Crash
<1>9. ASSUME NEW t \in Tasks,
             \/ \E category \in Categories, cron \in Crons \cup {None} : CreateTask(t, category, cron)
             \/ \E op \in EditOps, cron \in Crons \cup {None} : EditRead(t, op, cron)
             \/ DeleteTask(t) \/ Prompt(t) \/ Begin(t) \/ Finish(t)
             \/ DeleteSession(t) \/ DeleteCallbacks(t) \/ DeleteRow(t) \/ Recover(t)
      PROVE  UNCHANGED worker
    BY <1>9 DEF CreateTask, EditRead, DeleteTask, Prompt, Begin, Finish, DeleteSession, DeleteCallbacks,
       DeleteRow, Recover
<1>10. CASE EditWrite \/ RecoverList \/ Pass \/ UNCHANGED vars
    BY <1>10 DEF EditWrite, RecoverList, Pass, vars
<1>. QED BY <1>1, <1>2, <1>3, <1>4, <1>5, <1>6, <1>7, <1>8, <1>9, <1>10 DEF Next, WorkerStep

\* Only a listing gives the worker a task, with a copy of its row as it is, and
\* it keeps the copy and the time of the list.
LEMMA WorkingMoves ==
    ASSUME Typed, Stopped, [Next]_vars, NEW t \in Tasks, Working(t)'
    PROVE  \/ /\ Working(t) /\ ~List
              /\ worker'.copy = worker.copy /\ worker'.now = worker.now
           \/ /\ List /\ Due(t) /\ t \in worker'.due
              /\ worker'.copy[t] = row[t] /\ worker'.now = clock
<1>. USE DEF Current
<1>1. CASE List
    <2>. DEFINE due == {x \in Tasks : Due(x)}
                copy == [x \in Tasks |-> IF x \in due THEN row[x] ELSE Unborn]
    <2>1. worker' = [Worker("next") EXCEPT !.now = clock, !.due = due, !.copy = copy]
        BY <1>1 DEF List
    <2>. HIDE DEF copy
    <2>2. worker'.pc = "next" /\ worker'.due = due /\ worker'.copy = copy /\ worker'.now = clock
        BY <2>1 DEF Worker
    <2>3. t \in due
        BY <2>2 DEF Working, RunPcs
    <2>4. copy[t] = row[t]
        BY <2>3 DEF copy
    <2>. QED BY <1>1, <2>2, <2>3, <2>4
<1>2. CASE UNCHANGED worker
    BY <1>1, <1>2 DEF Working
<1>3. ASSUME NEW pc \in WorkerPcs, worker' = [worker EXCEPT !.pc = pc], pc \in RunPcs => worker.pc \in RunPcs, ~List
      PROVE  Working(t) /\ worker'.copy = worker.copy /\ worker'.now = worker.now
    <2>1. /\ worker'.pc = pc /\ worker'.due = worker.due /\ worker'.task = worker.task
          /\ worker'.copy = worker.copy /\ worker'.now = worker.now
        BY <1>3 DEF Typed, WorkerTyped, Workers
    <2>. QED BY <1>3, <2>1 DEF Working
<1>4. ASSUME NEW pc \in {"load", "list"}, worker' = Worker(pc) PROVE FALSE
    BY <1>4 DEF Worker, Working, RunPcs
<1>5. ASSUME ~List, NEW x \in worker.due,
             worker' = [worker EXCEPT !.pc = "find", !.task = x, !.due = @ \ {x}, !.fresh = FALSE]
      PROVE  Working(t) /\ worker'.copy = worker.copy /\ worker'.now = worker.now
    <2>1. /\ worker'.pc = "find" /\ worker'.task = x /\ worker'.due = worker.due \ {x}
          /\ worker'.copy = worker.copy /\ worker'.now = worker.now
        BY <1>5 DEF Typed, WorkerTyped, Workers
    <2>. QED BY <2>1 DEF Working
<1>6. ASSUME ~List, Create, worker' = [worker EXCEPT !.pc = "busy", !.fresh = TRUE]
      PROVE  Working(t) /\ worker'.copy = worker.copy /\ worker'.now = worker.now
    <2>1. /\ worker'.pc = "busy" /\ worker'.task = worker.task /\ worker'.due = worker.due
          /\ worker'.copy = worker.copy /\ worker'.now = worker.now
        BY <1>6 DEF Typed, WorkerTyped, Workers
    <2>2. worker.pc = "create"
        BY <1>6 DEF Create, At
    <2>. QED BY <2>1, <2>2 DEF Working, RunPcs
<1>. QED BY <1>1, <1>2, <1>3, <1>4, <1>5, <1>6, WorkerMoves DEF RunPcs

\* The only steps that change rows.
LEMMA RowActions ==
    ASSUME [Next]_vars
    PROVE  \/ UNCHANGED row
           \/ RecordSkipped \/ RecordRun \/ DisableOrphan \/ DisableOneShot \/ EditWrite
           \/ \E t \in Tasks :
                 \/ \E category \in Categories, cron \in Crons \cup {None} : CreateTask(t, category, cron)
                 \/ DeleteTask(t) \/ DeleteCallbacks(t)
<1>1. CASE LoadReady \/ AwaitReady \/ List \/ NextTask \/ FindSession \/ ResumeRead \/ ResumeActivate
              \/ Create \/ CheckBusy \/ Inject \/ Fails \/ MarkReady
    BY <1>1 DEF LoadReady, AwaitReady, List, NextTask, FindSession, ResumeRead, ResumeActivate,
       Create, CheckBusy, Inject, Fails, MarkReady
<1>2. ASSUME NEW t \in Tasks,
             \/ \E op \in EditOps, cron \in Crons \cup {None} : EditRead(t, op, cron)
             \/ Prompt(t) \/ Begin(t) \/ Finish(t)
             \/ DeleteSession(t) \/ DeleteRow(t) \/ Recover(t)
      PROVE  UNCHANGED row
    BY <1>2 DEF EditRead, Prompt, Begin, Finish, DeleteSession, DeleteRow, Recover
<1>3. CASE Crash \/ RecoverList \/ Pass \/ UNCHANGED vars
    BY <1>3 DEF Crash, RecoverList, Pass, vars
<1>. QED BY <1>1, <1>2, <1>3 DEF Next, WorkerStep
\* The field-wise view of what the steps do to a row: `o` is the row before,
\* `r` the row after.
SameTask(o, r) == r.life = o.life /\ r.category = o.category /\ r.cron = o.cron
Rescheduled(o, r) ==
    \/ o.life # "live" /\ r = o
    \/ /\ SameTask(o, r) /\ r.enabled = o.enabled
       /\ r.next = None \/ (Copy.cron \in Crons /\ r.next = NextRun(Copy.cron, worker.now))
Disabled(o, r) ==
    \/ o.life # "live" /\ r = o
    \/ SameTask(o, r) /\ r.pinned = o.pinned /\ ~r.enabled /\ r.next = None

LEMMA RescheduledRow ==
    ASSUME Typed, RecordSkipped \/ RecordRun
    PROVE  /\ Current \in Tasks /\ worker.pc \in {"skip", "record"} /\ Rescheduled(row[Current], row'[Current])
           /\ \A t \in Tasks : t # Current => row'[t] = row[t]
           /\ row[Current].pinned \/ (RecordRun /\ worker.fresh /\ row[Current].life = "live") => row'[Current].pinned
<1>1. Current \in Tasks /\ Copy \in Rows /\ row[Current] \in Rows /\ worker.fresh \in BOOLEAN
    BY DEF Typed, WorkerTyped, RunPcs, RowsTyped, Workers, Current, Copy, RecordSkipped, RecordRun, At
<1>2. Copy.cron # None => Copy.cron \in Crons
    BY <1>1 DEF Rows
<1>3. ASSUME NEW next, NEW pin \in BOOLEAN, Record(next, pin)
      PROVE  LET o == row[Current]  r == row'[Current] IN
             /\ \A t \in Tasks : t # Current => row'[t] = row[t]
             /\ o.life # "live" => r = o
             /\ o.life = "live" => SameTask(o, r) /\ r.enabled = o.enabled /\ r.next = next /\ (o.pinned \/ pin => r.pinned)
    <2>. DEFINE o == row[Current]
                r == IF o.life = "live" THEN [o EXCEPT !.next = next, !.pinned = row[Current].pinned \/ pin] ELSE o
    <2>1. row' = [row EXCEPT ![Current] = r]
        BY <1>3 DEF Record
    <2>2. row'[Current] = r /\ \A t \in Tasks : t # Current => row'[t] = row[t]
        <3>. HIDE DEF r
        <3>. QED BY <1>1, <2>1 DEF Typed, RowsTyped
    <2>3. o.life = "live" => SameTask(o, r) /\ r.enabled = o.enabled /\ r.next = next /\ (o.pinned \/ pin => r.pinned)
        BY <1>1 DEF Rows, SameTask
    <2>4. o.life # "live" => r = o
        OBVIOUS
    <2>. HIDE DEF r
    <2>. QED BY <2>2, <2>3, <2>4
<1>4. CASE RecordSkipped
    <2>1. worker.pc = "skip" /\ Record(NextRun(Copy.cron, worker.now), FALSE)
        BY <1>4 DEF RecordSkipped, At
    <2>2. Copy.cron # None
        BY <2>1 DEF Typed, WorkerTyped
    <2>3. ~RecordRun
        BY <2>1 DEF RecordRun, At
    <2>4. /\ \A t \in Tasks : t # Current => row'[t] = row[t]
          /\ Rescheduled(row[Current], row'[Current])
        BY <1>2, <1>3, <2>1, <2>2 DEF Rescheduled
    <2>5. row[Current].pinned => row'[Current].pinned
        BY <1>3, <2>1
    <2>. QED BY <1>1, <2>1, <2>3, <2>4, <2>5
<1>5. CASE RecordRun
    <2>. DEFINE next == IF IsOneShot(Copy) THEN None ELSE NextRun(Copy.cron, worker.now)
    <2>1. worker.pc = "record" /\ Record(next, worker.fresh)
        BY <1>5 DEF RecordRun, At
    <2>2. next = None \/ (Copy.cron \in Crons /\ next = NextRun(Copy.cron, worker.now))
        BY <1>2 DEF IsOneShot
    <2>. HIDE DEF next
    <2>3. /\ \A t \in Tasks : t # Current => row'[t] = row[t]
          /\ Rescheduled(row[Current], row'[Current])
        BY <1>1, <1>3, <2>1, <2>2 DEF Rescheduled
    <2>4. row[Current].life = "live" => (row[Current].pinned \/ worker.fresh => row'[Current].pinned)
        BY <1>1, <1>3, <2>1
    <2>5. row[Current].life # "live" => row'[Current] = row[Current]
        BY <1>1, <1>3, <2>1
    <2>. QED BY <1>1, <1>5, <2>1, <2>3, <2>4, <2>5
<1>. QED BY <1>4, <1>5

LEMMA DisabledRow ==
    ASSUME Typed, DisableOrphan \/ DisableOneShot
    PROVE  /\ Current \in Tasks /\ Disabled(row[Current], row'[Current])
           /\ \A t \in Tasks : t # Current => row'[t] = row[t]
           /\ worker' = [worker EXCEPT !.pc = "next"]
<1>1. Current \in Tasks /\ row[Current] \in Rows
    BY DEF Typed, WorkerTyped, RunPcs, RowsTyped, DisableOrphan, DisableOneShot, At
<1>. DEFINE o == row[Current]
            r == IF o.life = "live" THEN [o EXCEPT !.enabled = FALSE, !.next = None] ELSE o
<1>2. row' = [row EXCEPT ![Current] = r]
    BY DEF DisableOrphan, DisableOneShot
<1>3. row'[Current] = r /\ \A t \in Tasks : t # Current => row'[t] = row[t]
    <2>. HIDE DEF r
    <2>. QED BY <1>1, <1>2 DEF Typed, RowsTyped
<1>4. Disabled(o, r)
    BY <1>1 DEF Rows, Disabled, SameTask
<1>. HIDE DEF r
<1>. QED BY <1>1, <1>3, <1>4 DEF DisableOrphan, DisableOneShot, Step

\* What an edit makes of the row, and whether it counts as late.
LEMMA EditedFields ==
    ASSUME Typed, EditWrite, row[edit.task].life = "live"
    PROVE  LET t == edit.task  o == row[t]  r == row'[t] IN
           /\ t \in Tasks /\ \A x \in Tasks : x # t => row'[x] = row[x]
           /\ r.life = o.life /\ r.category = o.category /\ r.pinned = o.pinned
           /\ r.cron = o.cron \/ r.cron # None
           /\ \/ Computes /\ late' = IF r.next <= clock THEN late + 1 ELSE late
              \/ ~r.enabled /\ UNCHANGED late
              \/ edit.op = "enable" /\ edit.read.enabled /\ r.next = o.next /\ UNCHANGED late
<1>. DEFINE t == edit.task  o == row[t]  new == Edited(o)
<1>1. t \in Tasks /\ new \in Rows /\ row' = [row EXCEPT ![t] = new]
    BY WrittenRow
<1>2. o \in Rows /\ edit.op \in EditOps
    BY <1>1 DEF Typed, RowsTyped, EditTyped, Edits, EditWrite
<1>3. edit.op = "cron" => edit.cron # None
    BY DEF Typed, EditTyped
<1>4. new.life = o.life /\ new.category = o.category /\ new.pinned = o.pinned /\ (new.cron = o.cron \/ new.cron # None)
    BY <1>2, <1>3 DEF Edited, EditOps, Rows
<1>5. edit.op \in {"off", "disable"} => ~new.enabled
    BY <1>2 DEF Edited, Rows
<1>6. late' = IF Computes /\ new.next <= clock THEN late + 1 ELSE late
    BY DEF EditWrite
<1>8. edit.op = "enable" /\ edit.read.enabled => new.next = o.next
    BY <1>2 DEF Edited, Rows
<1>9. Computes \/ (edit.op = "enable" /\ edit.read.enabled) \/ edit.op \in {"off", "disable"}
    BY <1>2 DEF Computes, EditOps
<1>10. edit.op \in {"off", "disable"} \/ (edit.op = "enable" /\ edit.read.enabled) => ~Computes
    BY DEF Computes
<1>7. row'[t] = new /\ \A x \in Tasks : x # t => row'[x] = row[x]
    <2>. HIDE DEF new
    <2>. QED BY <1>1 DEF Typed, RowsTyped
<1>. HIDE DEF new
<1>. QED BY <1>1, <1>4, <1>5, <1>6, <1>7, <1>8, <1>9, <1>10

LEMMA CreatedFields ==
    ASSUME Typed, NEW t \in Tasks, NEW category \in Categories, NEW cron \in Crons \cup {None},
           CreateTask(t, category, cron)
    PROVE  LET r == row'[t] IN
           /\ row[t].life = "unborn" /\ \A x \in Tasks : x # t => row'[x] = row[x]
           /\ r.life = "live" /\ r.enabled /\ (r.category = "GLOBAL" => r.cron # None)
           /\ r.category = "SESSION" => r.pinned
<1>1. PICK next : row' = [row EXCEPT ![t] = Row("live", category, TRUE, cron, next)]
    BY DEF CreateTask
<1>. DEFINE r == Row("live", category, TRUE, cron, next)
<1>2. row'[t] = r /\ \A x \in Tasks : x # t => row'[x] = row[x]
    <2>. HIDE DEF r
    <2>. QED BY <1>1 DEF Typed, RowsTyped, r
<1>3. r.life = "live" /\ r.enabled /\ r.category = category /\ r.cron = cron /\ (category = "SESSION" => r.pinned)
    BY DEF Row
<1>. HIDE DEF r
<1>. QED BY <1>2, <1>3 DEF CreateTask

LEMMA DeletedFields ==
    ASSUME Typed, NEW t \in Tasks, DeleteTask(t) \/ DeleteCallbacks(t)
    PROVE  LET o == row[t]  r == row'[t] IN
           /\ \A x \in Tasks : x # t => row'[x] = row[x]
           /\ r.category = o.category /\ r.cron = o.cron /\ r.next = o.next
           /\ r.enabled = o.enabled /\ r.pinned = o.pinned
           /\ r.life = o.life \/ (o.life = "live" /\ r.life = "deleted")
<1>1. row[t] \in Rows
    BY DEF Typed, RowsTyped
<1>2. ASSUME NEW life, row' = [row EXCEPT ![t].life = life], life = row[t].life \/ (row[t].life = "live" /\ life = "deleted")
      PROVE  LET o == row[t]  r == row'[t] IN
             /\ \A x \in Tasks : x # t => row'[x] = row[x]
             /\ r.category = o.category /\ r.cron = o.cron /\ r.next = o.next
             /\ r.enabled = o.enabled /\ r.pinned = o.pinned
             /\ r.life = o.life \/ (o.life = "live" /\ r.life = "deleted")
    <2>1. row'[t] = [row[t] EXCEPT !.life = life] /\ \A x \in Tasks : x # t => row'[x] = row[x]
        BY <1>2 DEF Typed, RowsTyped
    <2>. QED BY <1>1, <1>2, <2>1 DEF Rows
<1>3. CASE DeleteTask(t)
    BY <1>2, <1>3 DEF DeleteTask
<1>4. CASE DeleteCallbacks(t)
    <2>1. CASE UNCHANGED row
        BY <2>1
    <2>2. CASE row' = [row EXCEPT ![t].life = IF IsSessionTask(row[t]) /\ @ = "live" THEN "deleted" ELSE @]
        <3>. DEFINE life == IF IsSessionTask(row[t]) /\ row[t].life = "live" THEN "deleted" ELSE row[t].life
        <3>1. row' = [row EXCEPT ![t].life = life]
            BY <2>2
        <3>2. life = row[t].life \/ (row[t].life = "live" /\ life = "deleted")
            OBVIOUS
        <3>. HIDE DEF life
        <3>. QED BY <1>2, <3>1, <3>2
    <2>. QED BY <1>4, <2>1, <2>2 DEF DeleteCallbacks
<1>. QED BY <1>3, <1>4

\* The messages sent: no other step sends.
LEMMA FiredActions ==
    ASSUME [Next]_vars
    PROVE  Inject \/ UNCHANGED <<fired, again>>
<1>. USE DEF history
<1>1. CASE LoadReady \/ AwaitReady \/ List \/ NextTask \/ FindSession \/ ResumeRead \/ ResumeActivate
              \/ Create \/ CheckBusy \/ Fails \/ MarkReady
    BY <1>1 DEF LoadReady, AwaitReady, List, NextTask, FindSession, ResumeRead, ResumeActivate,
       Create, CheckBusy, Fails, MarkReady
<1>2. CASE DisableOrphan \/ RecordSkipped \/ RecordRun \/ DisableOneShot \/ EditWrite
    BY <1>2 DEF DisableOrphan, RecordSkipped, RecordRun, DisableOneShot, EditWrite
<1>3. ASSUME NEW t \in Tasks,
             \/ \E category \in Categories, cron \in Crons \cup {None} : CreateTask(t, category, cron)
             \/ \E op \in EditOps, cron \in Crons \cup {None} : EditRead(t, op, cron)
             \/ DeleteTask(t) \/ Prompt(t) \/ Begin(t) \/ Finish(t)
             \/ DeleteSession(t) \/ DeleteCallbacks(t) \/ DeleteRow(t) \/ Recover(t)
      PROVE  UNCHANGED <<fired, again>>
    BY <1>3 DEF CreateTask, EditRead, DeleteTask, Prompt, Begin, Finish, DeleteSession, DeleteCallbacks,
       DeleteRow, Recover
<1>4. CASE Crash \/ RecoverList \/ Pass \/ UNCHANGED vars
    BY <1>4 DEF Crash, RecoverList, Pass, vars
<1>. QED BY <1>1, <1>2, <1>3, <1>4 DEF Next, WorkerStep

\* The excuses and the time only grow.
LEMMA CountersGrow ==
    ASSUME Typed, late \in Nat, busied \in Nat, [Next]_vars
    PROVE  /\ faults' \in {faults, faults + 1} /\ clock' \in {clock, clock + 1}
           /\ late' \in {late, late + 1} /\ busied' \in {busied, busied + 1}
           /\ Fails \/ Crash => faults' = faults + 1 /\ UNCHANGED <<clock, late, busied>>
           /\ (UNCHANGED late \/ EditWrite) /\ (UNCHANGED busied \/ RecordSkipped)
<1>. USE DEF history, Fault
<1>6. (Fails \/ Crash) => faults' = faults + 1 /\ UNCHANGED <<clock, late, busied>>
    BY DEF Fails, Crash
<1>1. CASE LoadReady \/ AwaitReady \/ List \/ NextTask \/ FindSession \/ ResumeRead \/ ResumeActivate
              \/ CheckBusy \/ MarkReady
    <2>1. UNCHANGED <<faults, clock, late, busied>>
        BY <1>1 DEF LoadReady, AwaitReady, List, NextTask, FindSession, ResumeRead, ResumeActivate,
           CheckBusy, MarkReady
    <2>. QED BY <1>6, <2>1
<1>2. CASE DisableOrphan \/ RecordSkipped \/ RecordRun \/ DisableOneShot \/ EditWrite \/ Inject
    <2>1. /\ UNCHANGED <<faults, clock>> /\ late' \in {late, late + 1} /\ busied' \in {busied, busied + 1}
          /\ (UNCHANGED late \/ EditWrite) /\ (UNCHANGED busied \/ RecordSkipped)
        BY <1>2 DEF DisableOrphan, RecordSkipped, RecordRun, DisableOneShot, EditWrite, Inject
    <2>. QED BY <1>6, <2>1
<1>3. CASE Create
    <2>1. faults' \in {faults, faults + 1} /\ UNCHANGED <<clock, late, busied>>
        BY <1>3 DEF Create
    <2>. QED BY <1>6, <2>1
<1>4. ASSUME NEW t \in Tasks,
             \/ \E category \in Categories, cron \in Crons \cup {None} : CreateTask(t, category, cron)
             \/ \E op \in EditOps, cron \in Crons \cup {None} : EditRead(t, op, cron)
             \/ DeleteTask(t) \/ Prompt(t) \/ Begin(t) \/ Finish(t)
             \/ DeleteSession(t) \/ DeleteCallbacks(t) \/ DeleteRow(t) \/ Recover(t)
      PROVE  faults' \in {faults, faults + 1} /\ UNCHANGED <<clock, late, busied>>
    BY <1>4 DEF CreateTask, EditRead, DeleteTask, Prompt, Begin, Finish, DeleteSession, DeleteCallbacks,
       DeleteRow, Recover
<1>5. CASE Crash \/ RecoverList \/ Pass \/ Fails \/ UNCHANGED vars
    BY <1>5 DEF Crash, RecoverList, Pass, Fails, vars, Typed, RestTyped
<1>. QED BY <1>1, <1>2, <1>3, <1>4, <1>5, <1>6 DEF Next, WorkerStep

\* A row stays what it is, a deleted one deleted; edits keep a period a period.
LEMMA RowLife ==
    ASSUME Typed, [Next]_vars, NEW t \in Tasks
    PROVE  /\ row'[t].life = "unborn" => row[t].life = "unborn"
           /\ row[t].life = "deleted" => row'[t].life = "deleted"
           /\ row'[t].life = "live" /\ row'[t].category = "GLOBAL" =>
                 row'[t].cron # None \/ (row[t].life = "live" /\ row[t].category = "GLOBAL" /\ row'[t].cron = row[t].cron)
           /\ row'[t].pinned = row[t].pinned \/ row[t].life = "unborn"
              \/ (t = Current /\ worker.pc \in {"skip", "record"} /\ (row[t].pinned => row'[t].pinned)
                 /\ (RecordSkipped \/ RecordRun))
<1>1. CASE UNCHANGED row
    BY <1>1
<1>2. CASE RecordSkipped \/ RecordRun
    <2>1. CASE t = Current
        BY <1>2, <2>1, RescheduledRow DEF Rescheduled, SameTask
    <2>2. CASE t # Current
        BY <1>2, <2>2, RescheduledRow
    <2>. QED BY <2>1, <2>2
<1>3. CASE DisableOrphan \/ DisableOneShot
    <2>1. CASE t = Current
        BY <1>3, <2>1, DisabledRow DEF Disabled, SameTask
    <2>2. CASE t # Current
        BY <1>3, <2>2, DisabledRow
    <2>. QED BY <2>1, <2>2
<1>4. CASE EditWrite
    <2>1. CASE row[edit.task].life = "live"
        BY <1>4, <2>1, EditedFields
    <2>2. CASE row[edit.task].life # "live"
        BY <1>1, <1>4, <2>2 DEF EditWrite
    <2>. QED BY <2>1, <2>2
<1>5. ASSUME NEW x \in Tasks, NEW category \in Categories, NEW cron \in Crons \cup {None}, CreateTask(x, category, cron)
      PROVE  row'[t] = row[t] \/ (row[t].life = "unborn" /\ row'[t].life = "live" /\ (row'[t].category = "GLOBAL" => row'[t].cron # None))
    BY <1>5, CreatedFields
<1>6. ASSUME NEW x \in Tasks, DeleteTask(x) \/ DeleteCallbacks(x)
      PROVE  /\ row'[t].category = row[t].category /\ row'[t].cron = row[t].cron /\ row'[t].pinned = row[t].pinned
             /\ row'[t].life = row[t].life \/ (row[t].life = "live" /\ row'[t].life = "deleted")
    BY <1>6, DeletedFields
<1>. QED BY <1>1, <1>2, <1>3, <1>4, <1>5, <1>6, RowActions

\* What was listed was due by the time of the list, and so was what was sent.
Listed ==
    /\ worker.due # {} => worker.pc \in ListPcs
    /\ worker.pc \in ListPcs => worker.now <= clock /\ \A t \in Tasks : \A n \in fired[t] : n <= worker.now
    /\ \A t \in Tasks : Working(t) => worker.copy[t].next \in 1..worker.now

\* No message is sent ahead of its time, nor for a task that is not there yet.
Sent ==
    /\ fired \in [Tasks -> SUBSET (1..clock)] /\ again \in Nat /\ late \in Nat /\ busied \in Nat
    /\ \A t \in Tasks : row[t].life = "unborn" => fired[t] = {}

\* The worker keeps the time of its list.
LEMMA ListMoves ==
    ASSUME Typed, Listed, [Next]_vars
    PROVE  /\ worker'.due # {} => worker'.pc \in ListPcs
           /\ worker'.pc \in ListPcs =>
                 \/ worker.pc \in ListPcs /\ worker'.now = worker.now
                 \/ List /\ worker'.now = clock
<1>1. CASE UNCHANGED worker
    BY <1>1 DEF Listed
<1>2. ASSUME NEW pc \in WorkerPcs,
             /\ worker' = [worker EXCEPT !.pc = pc]
             /\ pc \in ListPcs => worker.pc \in RunPcs
             /\ worker.pc = "next" => pc = "next"
             /\ worker.pc \in RunPcs => pc \in ListPcs
      PROVE  /\ worker'.due # {} => worker'.pc \in ListPcs
             /\ worker'.pc \in ListPcs => worker.pc \in ListPcs /\ worker'.now = worker.now
    <2>1. worker'.pc = pc /\ worker'.due = worker.due /\ worker'.now = worker.now
        BY <1>2 DEF Typed, WorkerTyped, Workers
    <2>. QED BY <1>2, <2>1 DEF Listed, ListPcs
<1>3. ASSUME NEW pc \in {"load", "list"}, worker' = Worker(pc)
      PROVE  worker'.due = {} /\ worker'.pc \notin ListPcs
    BY <1>3 DEF Worker, ListPcs, RunPcs
<1>4. CASE List
    <2>. DEFINE due == {t \in Tasks : Due(t)}
                copy == [t \in Tasks |-> IF t \in due THEN row[t] ELSE Unborn]
    <2>1. worker' = [Worker("next") EXCEPT !.now = clock, !.due = due, !.copy = copy]
        BY <1>4 DEF List
    <2>. HIDE DEF copy, due
    <2>2. worker'.pc = "next" /\ worker'.now = clock
        BY <2>1 DEF Worker
    <2>. QED BY <1>4, <2>2 DEF ListPcs
<1>5. ASSUME NextTask, NEW t \in worker.due,
             worker' = [worker EXCEPT !.pc = "find", !.task = t, !.due = @ \ {t}, !.fresh = FALSE]
      PROVE  worker'.pc \in ListPcs /\ worker.pc \in ListPcs /\ worker'.now = worker.now
    <2>1. worker'.pc = "find" /\ worker'.now = worker.now
        BY <1>5 DEF Typed, WorkerTyped, Workers
    <2>. QED BY <1>5, <2>1 DEF NextTask, At, ListPcs, RunPcs
<1>6. ASSUME Create, worker' = [worker EXCEPT !.pc = "busy", !.fresh = TRUE]
      PROVE  worker'.pc \in ListPcs /\ worker.pc \in ListPcs /\ worker'.now = worker.now
    <2>1. worker'.pc = "busy" /\ worker'.now = worker.now
        BY <1>6 DEF Typed, WorkerTyped, Workers
    <2>. QED BY <1>6, <2>1 DEF Create, At, ListPcs, RunPcs
<1>. QED BY <1>1, <1>2, <1>3, <1>4, <1>5, <1>6, WorkerMoves

\* An injection sends the occurrence the copy was listed for.
LEMMA InjectFires ==
    ASSUME Typed, Stopped, Listed, Sent, Inject
    PROVE  /\ Current \in Tasks /\ Held(Current) /\ Copy.next \in 1..worker.now /\ worker.now <= clock
           /\ Current' = Current /\ worker'.due = worker.due /\ worker'.now = worker.now /\ worker'.pc \in {"record", "next"}
           /\ UNCHANGED <<clock, row, faults, late>>
           /\ \A t \in Tasks : t # Current => fired'[t] = fired[t]
           /\ \/ worker'.pc = "next" /\ UNCHANGED <<fired, again>>
              \/ /\ worker'.pc = "record" /\ fired' \in [Tasks -> SUBSET (1..clock)]
                 /\ fired'[Current] = fired[Current] \cup {Copy.next}
                 /\ again' = IF Copy.next \in fired[Current] THEN again + 1 ELSE again
<1>1. worker.pc = "inject" /\ Current \in Tasks
    BY DEF Inject, At, Typed, WorkerTyped, RunPcs
<1>2. Held(Current) /\ Working(Current)
    BY <1>1 DEF Held, HeldPcs, Working, RunPcs
<1>3. Copy.next \in 1..worker.now /\ worker.now <= clock
    BY <1>1, <1>2 DEF Listed, Copy, ListPcs, RunPcs
<1>4. worker.now \in Nat /\ clock \in Nat
    BY SchedulerAssumption DEF Typed, WorkerTyped, Workers, RestTyped
<1>5. Copy.next \in 1..clock
    BY <1>3, <1>4
<1>6. PICK pc \in {"record", "next"} :
          /\ worker' = [worker EXCEPT !.pc = pc]
          /\ \/ pc = "next" /\ UNCHANGED <<fired, again>>
             \/ /\ pc = "record" /\ fired' = [fired EXCEPT ![Current] = @ \cup {Copy.next}]
                /\ again' = IF Copy.next \in fired[Current] THEN again + 1 ELSE again
    BY DEF Inject, Step
<1>7. worker'.pc = pc /\ worker'.due = worker.due /\ worker'.now = worker.now /\ worker'.task = worker.task
    BY <1>6 DEF Typed, WorkerTyped, Workers
<1>8. CASE UNCHANGED <<fired, again>> /\ pc = "next"
    BY <1>1, <1>2, <1>3, <1>7, <1>8 DEF Inject, Current
<1>9. CASE /\ pc = "record" /\ fired' = [fired EXCEPT ![Current] = @ \cup {Copy.next}]
           /\ again' = IF Copy.next \in fired[Current] THEN again + 1 ELSE again
    <2>1. /\ fired' \in [Tasks -> SUBSET (1..clock)] /\ fired'[Current] = fired[Current] \cup {Copy.next}
          /\ \A t \in Tasks : t # Current => fired'[t] = fired[t]
        BY <1>1, <1>5, <1>9 DEF Sent
    <2>. QED BY <1>1, <1>2, <1>3, <1>7, <1>9, <2>1 DEF Inject, Current
<1>. QED BY <1>6, <1>8, <1>9

LEMMA ListedStep ==
    ASSUME Typed, Stopped, Listed, Sent, [Next]_vars
    PROVE  Listed'
<1>0. clock \in Nat /\ clock' \in Nat /\ clock <= clock' /\ worker.now \in Nat
    <2>1. clock \in Nat /\ worker.now \in Nat
        BY SchedulerAssumption DEF Typed, RestTyped, WorkerTyped, Workers
    <2>2. clock' \in {clock, clock + 1}
        BY CountersGrow DEF Sent
    <2>. QED BY <2>1, <2>2
<1>1. ASSUME NEW t \in Tasks, Working(t)' PROVE worker'.copy[t].next \in 1..worker'.now
    <2>1. CASE Working(t) /\ worker'.copy = worker.copy /\ worker'.now = worker.now
        BY <2>1 DEF Listed
    <2>2. CASE Due(t) /\ worker'.copy[t] = row[t] /\ worker'.now = clock
        <3>1. row[t].next \in Nat
            BY DEF Typed, RowsTyped, Rows
        <3>. QED BY <1>0, <2>2, <3>1 DEF Due, None
    <2>. QED BY <1>1, <2>1, <2>2, WorkingMoves
<1>2. ASSUME worker'.pc \in ListPcs
      PROVE  worker'.now <= clock' /\ \A t \in Tasks : \A n \in fired'[t] : n <= worker'.now
    <2>1. CASE List
        <3>1. worker'.now = clock /\ fired' = fired
            <4>1. worker.pc = "list"
                BY <2>1 DEF List, At
            <4>2. worker.pc \notin ListPcs /\ ~Inject
                BY <4>1 DEF ListPcs, RunPcs, Inject, At
            <4>. QED BY <1>2, <4>2, ListMoves, FiredActions
        <3>2. ASSUME NEW t \in Tasks, NEW n \in fired[t] PROVE n <= clock
            BY <1>0 DEF Sent
        <3>. QED BY <1>0, <3>1, <3>2
    <2>2. CASE worker.pc \in ListPcs /\ worker'.now = worker.now
        <3>1. CASE Inject
            <4>1. ASSUME NEW t \in Tasks, NEW n \in fired'[t] PROVE n <= worker.now
                <5>1. CASE n \in fired[t]
                    BY <2>2, <5>1 DEF Listed
                <5>2. CASE n \notin fired[t]
                    <6>1. n = Copy.next
                        BY <3>1, <4>1, <5>2, InjectFires
                    <6>. QED BY <1>0, <3>1, <6>1, InjectFires
                <5>. QED BY <5>1, <5>2
            <4>. QED BY <1>0, <2>2, <4>1 DEF Listed
        <3>2. CASE fired' = fired
            BY <1>0, <2>2, <3>2 DEF Listed
        <3>. QED BY <3>1, <3>2, FiredActions
    <2>. QED BY <1>2, <2>1, <2>2, ListMoves
<1>. QED BY <1>1, <1>2, ListMoves DEF Listed

LEMMA SentStep ==
    ASSUME Typed, EditsSurviveRuns, Stopped, Listed, Sent, [Next]_vars
    PROVE  Sent'
<1>0. clock \in Nat /\ clock' \in Nat /\ clock <= clock' /\ late' \in Nat /\ busied' \in Nat
    <2>1. clock \in Nat
        BY SchedulerAssumption DEF Typed, RestTyped
    <2>2. clock' \in {clock, clock + 1} /\ late' \in {late, late + 1} /\ busied' \in {busied, busied + 1}
        BY CountersGrow DEF Sent
    <2>. QED BY <2>1, <2>2 DEF Sent
<1>1. 1..clock \subseteq 1..clock'
    BY <1>0
<1>2. ASSUME NEW t \in Tasks, row'[t].life = "unborn" PROVE row[t].life = "unborn"
    BY <1>2, RowLife
<1>3. CASE Inject
    <2>1. fired' \in [Tasks -> SUBSET (1..clock)] /\ again' \in Nat
        BY <1>3, InjectFires DEF Sent
    <2>2. ASSUME NEW t \in Tasks, row'[t].life = "unborn" PROVE fired'[t] = {}
        <3>1. row[t].life = "unborn"
            BY <1>2, <2>2
        <3>2. t # Current
            BY <1>3, <3>1, InjectFires DEF Stopped
        <3>. QED BY <1>3, <3>1, <3>2, InjectFires DEF Sent
    <2>3. fired' \in [Tasks -> SUBSET (1..clock')]
        BY <1>1, <2>1
    <2>. QED BY <1>0, <2>1, <2>2, <2>3 DEF Sent
<1>4. CASE UNCHANGED <<fired, again>>
    <2>1. fired' \in [Tasks -> SUBSET (1..clock')]
        BY <1>1, <1>4 DEF Sent
    <2>. QED BY <1>0, <1>2, <1>4, <2>1 DEF Sent
<1>. QED BY <1>3, <1>4, FiredActions

\* While an edit that read an enabled task waits to enable it, only a run can
\* have disabled the task, which then has no next run and is not listed again.
EnableReads ==
    \A t \in Tasks :
        edit.op = "enable" /\ edit.task = t /\ edit.read.enabled /\ row[t].life = "live" /\ ~row[t].enabled
            => row[t].next = None /\ ~Working(t)

LEMMA EnableReadsStep ==
    ASSUME Typed, Stopped, EnableReads, [Next]_vars
    PROVE  EnableReads'
<1>1. SUFFICES ASSUME NEW t \in Tasks, edit'.op = "enable", edit'.task = t, edit'.read.enabled,
                      row'[t].life = "live", ~row'[t].enabled
               PROVE  row'[t].next = None /\ ~Working(t)'
    BY DEF EnableReads
<1>2. edit' = edit /\ ~EditWrite
    <2>1. ASSUME NEW x \in Tasks, NEW op \in EditOps, NEW cron \in Crons \cup {None}, EditRead(x, op, cron) PROVE FALSE
        <3>1. edit' = [op |-> op, task |-> x, cron |-> cron, at |-> clock, read |-> row[x]] /\ row' = row
            BY <2>1 DEF EditRead
        <3>. QED BY <1>1, <3>1
    <2>2. edit' # NoEdit
        BY <1>1 DEF NoEdit
    <2>3. ~EditWrite /\ ~Crash
        BY <2>2 DEF EditWrite, Crash
    <2>4. CASE WorkerStep \/ Fails \/ MarkReady
        BY <2>2, <2>4, <2>3 DEF WorkerStep, LoadReady, AwaitReady, List, NextTask, FindSession, DisableOrphan, ResumeRead,
           ResumeActivate, Create, CheckBusy, RecordSkipped, Inject, RecordRun, DisableOneShot, Fails, MarkReady
    <2>5. ASSUME NEW x \in Tasks,
                 \/ \E category \in Categories, cron \in Crons \cup {None} : CreateTask(x, category, cron)
                 \/ DeleteTask(x) \/ Prompt(x) \/ Begin(x) \/ Finish(x)
                 \/ DeleteSession(x) \/ DeleteCallbacks(x) \/ DeleteRow(x) \/ Recover(x)
          PROVE  edit' = edit
        BY <2>5 DEF CreateTask, DeleteTask, Prompt, Begin, Finish, DeleteSession, DeleteCallbacks, DeleteRow, Recover
    <2>6. CASE RecoverList \/ Pass \/ UNCHANGED vars
        BY <2>3, <2>6 DEF RecoverList, Pass, vars
    <2>. QED BY <2>1, <2>4, <2>5, <2>3, <2>6 DEF Next
<1>3. edit.op = "enable" /\ edit.task = t /\ edit.read.enabled
    BY <1>1, <1>2
<1>4. Working(t)' => Working(t) \/ row[t].enabled
    BY WorkingMoves DEF Due
<1>5. ASSUME row[t].life = "live", ~row[t].enabled PROVE row[t].next = None /\ ~Working(t) /\ ~Working(t)'
    BY <1>3, <1>4, <1>5 DEF EnableReads
<1>6. CASE row'[t] = row[t]
    BY <1>1, <1>2, <1>5, <1>6
<1>7. CASE RecordSkipped \/ RecordRun
    <2>1. CASE t = Current
        <3>1. worker.pc \in RunPcs
            BY <1>7, RescheduledRow DEF RunPcs
        <3>2. Working(t)
            BY <2>1, <3>1 DEF Working
        <3>. QED BY <1>1, <1>2, <1>5, <1>7, <2>1, <3>2, RescheduledRow DEF Rescheduled, SameTask
    <2>2. CASE t # Current
        BY <1>3, <1>6, <1>7, <2>2, RescheduledRow
    <2>. QED BY <2>1, <2>2
<1>8. CASE DisableOrphan \/ DisableOneShot
    <2>1. CASE t = Current
        <3>1. worker'.pc = "next" /\ worker'.due = worker.due /\ worker'.task = worker.task
            BY <1>8, DisabledRow DEF Typed, WorkerTyped, Workers
        <3>2. ~Working(t)'
            BY <2>1, <3>1 DEF Working, RunPcs, Stopped, Current
        <3>. QED BY <1>1, <1>2, <1>6, <1>8, <2>1, <3>2, DisabledRow DEF Disabled
    <2>2. CASE t # Current
        BY <1>3, <1>6, <1>8, <2>2, DisabledRow
    <2>. QED BY <2>1, <2>2
<1>9. ASSUME NEW x \in Tasks, NEW category \in Categories, NEW cron \in Crons \cup {None}, CreateTask(x, category, cron)
       PROVE  row'[t] = row[t]
    BY <1>1, <1>2, <1>3, <1>9, CreatedFields
<1>10. ASSUME NEW x \in Tasks, DeleteTask(x) \/ DeleteCallbacks(x)
       PROVE  row'[t].enabled = row[t].enabled /\ row'[t].next = row[t].next /\ row[t].life = "live"
    BY <1>1, <1>2, <1>3, <1>10, DeletedFields
<1>11. ASSUME NEW x \in Tasks, DeleteTask(x) \/ DeleteCallbacks(x)
       PROVE  row'[t].next = None /\ ~Working(t)'
    BY <1>1, <1>2, <1>5, <1>10, <1>11
<1>12. CASE UNCHANGED row
    BY <1>6, <1>12
<1>. QED BY <1>2, <1>6, <1>7, <1>8, <1>9, <1>11, <1>12, RowActions

\* The row of task t still says an occurrence whose message was sent.
Again(t) == row[t].life = "live" /\ row[t].enabled /\ row[t].next \in fired[t]

\* The worker sent the message and is about to record the run.
Recording(t) == worker.pc = "record" /\ Current = t

\* A message of task t may be sent a second time: the row or the copy says so.
Repeating(t) == (Again(t) /\ ~Recording(t)) \/ (Held(t) /\ worker.copy[t].next \in fired[t])
Repeats == {t \in Tasks : Repeating(t)}

\* Each such task was paid for by a failure or a late edit, and so was each
\* message that was sent a second time.
Once == IsFiniteSet(Repeats) /\ Cardinality(Repeats) + again <= faults + late

\* A run that was recorded, and only that, is not there any more.
LEMMA RecordEnds ==
    ASSUME Typed, Stopped, [Next]_vars, NEW t \in Tasks, Recording(t), ~Recording(t)'
    PROVE  RecordRun \/ Fails \/ Crash
<1>. USE DEF At, Step, Recording, Current
<1>1. CASE WorkerStep
    BY <1>1 DEF WorkerStep, LoadReady, AwaitReady, List, NextTask, FindSession, DisableOrphan, ResumeRead,
       ResumeActivate, Create, CheckBusy, RecordSkipped, Inject, DisableOneShot
<1>2. CASE MarkReady
    <2>1. worker' = worker
        BY <1>2 DEF MarkReady, Typed, WorkerTyped, Workers
    <2>. QED BY <2>1
<1>3. ASSUME NEW x \in Tasks,
             \/ \E category \in Categories, cron \in Crons \cup {None} : CreateTask(x, category, cron)
             \/ \E op \in EditOps, cron \in Crons \cup {None} : EditRead(x, op, cron)
             \/ DeleteTask(x) \/ Prompt(x) \/ Begin(x) \/ Finish(x)
             \/ DeleteSession(x) \/ DeleteCallbacks(x) \/ DeleteRow(x) \/ Recover(x)
      PROVE  FALSE
    BY <1>3 DEF CreateTask, EditRead, DeleteTask, Prompt, Begin, Finish, DeleteSession, DeleteCallbacks,
       DeleteRow, Recover
<1>4. CASE EditWrite \/ RecoverList \/ Pass \/ UNCHANGED vars
    BY <1>4 DEF EditWrite, RecoverList, Pass, vars
<1>. QED BY <1>1, <1>2, <1>3, <1>4 DEF Next

\* A task whose row repeats only what it repeated before does not join.
LEMMA RepeatsOnly ==
    ASSUME Typed, Stopped, [Next]_vars, NEW t \in Tasks, Repeating(t)', fired'[t] = fired[t],
           Again(t)' => Again(t),
           ~(RecordRun \/ Fails \/ Crash) \/ Current # t
    PROVE  Repeating(t)
<1>1. CASE Again(t)' /\ ~Recording(t)'
    <2>1. Again(t) /\ (Recording(t) => Current = t)
        BY <1>1 DEF Recording
    <2>2. ~Recording(t)
        BY <1>1, <2>1, RecordEnds
    <2>. QED BY <2>1, <2>2 DEF Repeating
<1>2. CASE Held(t)' /\ worker'.copy[t].next \in fired'[t]
    <2>1. Working(t)'
        BY <1>2 DEF Held, Working, HeldPcs, RunPcs
    <2>2. CASE List /\ Due(t) /\ worker'.copy[t] = row[t]
        <3>1. Again(t)
            BY <1>2, <2>2 DEF Due, Again
        <3>2. ~Recording(t)
            BY <2>2 DEF Recording, List, At
        <3>. QED BY <3>1, <3>2 DEF Repeating
    <2>3. CASE ~List /\ worker'.copy = worker.copy
        <3>1. Held(t)
            BY <1>2, <2>3, HeldMoves
        <3>. QED BY <1>2, <2>3, <3>1 DEF Repeating
    <2>. QED BY <2>1, <2>2, <2>3, WorkingMoves
<1>. QED BY <1>1, <1>2 DEF Repeating

\* What counts when a set is bounded by another.
LEMMA CountKept ==
    ASSUME NEW A, NEW B, IsFiniteSet(A), B \subseteq A
    PROVE  IsFiniteSet(B) /\ Cardinality(A) \in Nat /\ Cardinality(B) \in Nat /\ Cardinality(B) <= Cardinality(A)
BY FS_Subset, FS_CardinalityType

LEMMA CountOneMore ==
    ASSUME NEW A, NEW B, NEW x, IsFiniteSet(A), B \subseteq A \cup {x}
    PROVE  IsFiniteSet(B) /\ Cardinality(A) \in Nat /\ Cardinality(B) \in Nat /\ Cardinality(B) <= Cardinality(A) + 1
<1>1. IsFiniteSet(A \cup {x}) /\ Cardinality(A) \in Nat /\ Cardinality(A \cup {x}) <= Cardinality(A) + 1
    <2>1. /\ IsFiniteSet(A \cup {x}) /\ Cardinality(A) \in Nat
          /\ Cardinality(A \cup {x}) = IF x \in A THEN Cardinality(A) ELSE Cardinality(A) + 1
        BY FS_AddElement, FS_CardinalityType
    <2>. QED BY <2>1
<1>2. /\ IsFiniteSet(B) /\ Cardinality(B) \in Nat /\ Cardinality(A \cup {x}) \in Nat
      /\ Cardinality(B) <= Cardinality(A \cup {x})
    BY <1>1, CountKept
<1>. QED BY <1>1, <1>2

LEMMA CountOneLess ==
    ASSUME NEW A, NEW B, NEW x \in A, IsFiniteSet(A), B \subseteq A \ {x}
    PROVE  IsFiniteSet(B) /\ Cardinality(A) \in Nat /\ Cardinality(B) \in Nat /\ Cardinality(B) + 1 <= Cardinality(A)
<1>1. /\ IsFiniteSet(A \ {x}) /\ Cardinality(A) \in Nat /\ Cardinality(A \ {x}) \in Nat
      /\ Cardinality(A \ {x}) = Cardinality(A) - 1
    BY FS_RemoveElement, FS_CardinalityType
<1>2. IsFiniteSet(B) /\ Cardinality(B) \in Nat /\ Cardinality(B) <= Cardinality(A \ {x})
    BY <1>1, CountKept
<1>. QED BY <1>1, <1>2

\* After a run was recorded its next run has not been sent.
LEMMA RecordedNotSent ==
    ASSUME Typed, Listed, Sent, RecordSkipped \/ RecordRun
    PROVE  ~(row'[Current].next \in fired[Current] /\ row'[Current].life = "live")
<1>1. worker.pc \in ListPcs /\ Current \in Tasks
    BY RescheduledRow DEF ListPcs, RunPcs
<1>2. SUFFICES ASSUME row'[Current].next \in fired[Current], row'[Current].life = "live" PROVE FALSE
    OBVIOUS
<1>3. row'[Current].next \in 1..clock /\ row'[Current].next <= worker.now
    BY <1>1, <1>2 DEF Sent, Listed
<1>4. row'[Current].next = None \/ (Copy.cron \in Crons /\ row'[Current].next = NextRun(Copy.cron, worker.now))
    BY <1>2, RescheduledRow DEF Rescheduled
<1>5. worker.now \in Nat
    BY DEF Typed, WorkerTyped, Workers
<1>. QED BY <1>3, <1>4, <1>5, NextRunLater DEF None

LEMMA OnceStep ==
    ASSUME Typed, EditsSurviveRuns, Stopped, Listed, Sent, EnableReads, Once, [Next]_vars
    PROVE  Once'
<1>0. /\ faults \in Nat /\ faults' \in Nat /\ faults <= faults' /\ late \in Nat /\ late' \in Nat /\ late <= late'
      /\ clock \in Nat /\ again \in Nat /\ clock <= clock'
    <2>1. faults \in Nat /\ clock \in Nat
        BY SchedulerAssumption DEF Typed, RestTyped
    <2>2. late \in Nat /\ busied \in Nat /\ again \in Nat
        BY DEF Sent
    <2>3. faults' \in {faults, faults + 1} /\ clock' \in {clock, clock + 1} /\ late' \in {late, late + 1}
        BY <2>2, CountersGrow
    <2>. QED BY <2>1, <2>2, <2>3
<1>1. Cardinality(Repeats) \in Nat
    BY FS_CardinalityType DEF Once
<1>2. ASSUME Repeats' \subseteq Repeats, again' = again PROVE Once'
    BY <1>0, <1>1, <1>2, CountKept DEF Once
<1>3. ASSUME NEW x, Repeats' \subseteq Repeats \cup {x}, again' = again, faults' = faults + 1 \/ late' = late + 1
      PROVE  Once'
    <2>1. IsFiniteSet(Repeats') /\ Cardinality(Repeats') \in Nat /\ Cardinality(Repeats') <= Cardinality(Repeats) + 1
        BY <1>3, CountOneMore DEF Once
    <2>2. Cardinality(Repeats) + again <= faults + late
        BY DEF Once
    <2>3. faults + late + 1 <= faults' + late'
        <3>1. \A f, e, g, h \in Nat : f <= g /\ e <= h /\ (g = f + 1 \/ h = e + 1) => f + e + 1 <= g + h
            OBVIOUS
        <3>. QED BY <1>0, <1>3, <3>1
    <2>4. Cardinality(Repeats') + again' <= faults' + late'
        BY <1>0, <1>1, <1>3, <2>1, <2>2, <2>3
    <2>. QED BY <2>1, <2>4 DEF Once
<1>4. ASSUME \A t \in Tasks : Repeating(t)' => Repeating(t) PROVE Repeats' \subseteq Repeats
    BY <1>4 DEF Repeats
<1>5. ASSUME NEW x, \A t \in Tasks : t # x => (Repeating(t)' => Repeating(t))
      PROVE  Repeats' \subseteq Repeats \cup {x} /\ (x \in Tasks /\ ~Repeating(x)' => Repeats' \subseteq Repeats \ {x})
    BY <1>5 DEF Repeats
<1>6. CASE Inject
    <2>1. ASSUME NEW t \in Tasks, t # Current, Repeating(t)' PROVE Repeating(t)
        <3>1. fired'[t] = fired[t] /\ row' = row
            BY <1>6, <2>1, InjectFires
        <3>2. Again(t)' => Again(t)
            BY <3>1 DEF Again
        <3>. QED BY <2>1, <3>1, <3>2, RepeatsOnly
    <2>2. CASE worker'.pc = "next" /\ UNCHANGED <<fired, again>>
        <3>1. ASSUME NEW t \in Tasks, Repeating(t)' PROVE Repeating(t)
            <4>1. UNCHANGED row /\ worker.pc = "inject"
                BY <1>6 DEF Inject, At
            <4>2. (Again(t)' => Again(t)) /\ ~Recording(t)
                BY <2>2, <4>1 DEF Again, Recording
            <4>3. CASE Again(t)'
                BY <4>2, <4>3 DEF Repeating
            <4>4. CASE ~Again(t)'
                <5>1. Held(t)'
                    BY <3>1, <4>4 DEF Repeating
                <5>2. t # Current
                    BY <1>6, <2>2, <5>1, InjectFires DEF Held, HeldPcs, Stopped
                <5>. QED BY <2>1, <3>1, <5>2
            <4>. QED BY <4>3, <4>4
        <3>. QED BY <1>2, <1>4, <2>2, <3>1
    <2>3. CASE /\ worker'.pc = "record" /\ fired'[Current] = fired[Current] \cup {Copy.next}
               /\ again' = IF Copy.next \in fired[Current] THEN again + 1 ELSE again
        <3>1. Current \in Tasks /\ Current' = Current /\ worker'.due = worker.due /\ Held(Current) /\ UNCHANGED <<faults, late>>
            BY <1>6, InjectFires
        <3>2. ASSUME NEW t \in Tasks, t = Current PROVE ~Repeating(t)'
            BY <2>3, <3>1, <3>2 DEF Repeating, Recording, Held, HeldPcs, Stopped
        <3>3. Repeats' \subseteq Repeats \ {Current}
            <4>1. ASSUME NEW t \in Repeats' PROVE t \in Repeats \ {Current}
                BY <2>1, <3>2, <4>1 DEF Repeats
            <4>. QED BY <4>1
        <3>4. CASE Copy.next \in fired[Current]
            <4>1. Current \in Repeats
                BY <3>1, <3>4 DEF Repeats, Repeating, Copy
            <4>2. IsFiniteSet(Repeats) /\ IsFiniteSet(Repeats') /\ Cardinality(Repeats') \in Nat /\ Cardinality(Repeats') + 1 <= Cardinality(Repeats)
                BY <3>3, <4>1, CountOneLess DEF Once
            <4>3. again' = again + 1
                BY <2>3, <3>4
            <4>. QED BY <1>0, <1>1, <3>1, <4>2, <4>3 DEF Once
        <3>5. CASE Copy.next \notin fired[Current]
            BY <1>2, <2>3, <3>3, <3>5
        <3>. QED BY <3>4, <3>5
    <2>. QED BY <1>6, <2>2, <2>3, InjectFires
<1>7. CASE Fails \/ Crash
    <2>1. UNCHANGED <<row, fired, again>>
        BY <1>7 DEF Fails, Crash, history
    <2>2. ASSUME NEW t \in Tasks, t # Current, Repeating(t)' PROVE Repeating(t)
        BY <2>1, <2>2, RepeatsOnly DEF Again
    <2>3. faults' = faults + 1
        BY <1>7, CountersGrow DEF Sent
    <2>. QED BY <1>3, <1>5, <2>1, <2>2, <2>3
<1>8. CASE UNCHANGED <<fired, again>> /\ ~Fails /\ ~Crash
    <2>1. CASE UNCHANGED row /\ ~RecordRun
        <3>1. ASSUME NEW t \in Tasks, Repeating(t)' PROVE Repeating(t)
            BY <1>8, <2>1, <3>1, RepeatsOnly DEF Again
        <3>. QED BY <1>2, <1>4, <1>8, <3>1
    <2>2. CASE RecordSkipped \/ RecordRun
        <3>1. ASSUME NEW t \in Tasks, t # Current, Repeating(t)' PROVE Repeating(t)
            <4>1. row'[t] = row[t]
                BY <2>2, <3>1, RescheduledRow
            <4>. QED BY <1>8, <3>1, <4>1, RepeatsOnly DEF Again
        <3>2. ASSUME NEW t \in Tasks, t = Current, Repeating(t)' PROVE FALSE
            <4>1. ~Again(t)'
                BY <1>8, <2>2, <3>2, RecordedNotSent DEF Again
            <4>2. PICK pc \in {"next", "disable"} : worker' = [worker EXCEPT !.pc = pc]
                BY <2>2 DEF RecordSkipped, RecordRun, Step
            <4>3. worker'.pc = pc /\ worker'.due = worker.due
                BY <4>2 DEF Typed, WorkerTyped, Workers
            <4>4. ~Held(t)'
                BY <3>2, <4>3 DEF Held, HeldPcs, Stopped
            <4>. QED BY <3>2, <4>1, <4>4 DEF Repeating
        <3>3. ASSUME NEW t \in Tasks, Repeating(t)' PROVE Repeating(t)
            BY <3>1, <3>2, <3>3
        <3>. QED BY <1>2, <1>4, <1>8, <3>3
    <2>3. ASSUME ~RecordRun, \A t \in Tasks : Again(t)' => Again(t) PROVE Once'
        <3>1. ASSUME NEW t \in Tasks, Repeating(t)' PROVE Repeating(t)
            BY <1>8, <2>3, <3>1, RepeatsOnly
        <3>. QED BY <1>2, <1>4, <1>8, <3>1
    <2>4. CASE DisableOrphan \/ DisableOneShot
        <3>1. ~RecordRun
            BY <2>4 DEF DisableOrphan, DisableOneShot, RecordRun, At
        <3>2. ASSUME NEW t \in Tasks, Again(t)' PROVE Again(t)
            <4>1. CASE t = Current
                BY <1>8, <2>4, <3>2, <4>1, DisabledRow DEF Again, Disabled
            <4>2. CASE t # Current
                BY <1>8, <2>4, <3>2, <4>2, DisabledRow DEF Again
            <4>. QED BY <4>1, <4>2
        <3>. QED BY <2>3, <3>1, <3>2
    <2>5. CASE EditWrite
        <3>0. ~RecordRun
            BY <2>5 DEF EditWrite, RecordRun, NoEdit
        <3>1. CASE row[edit.task].life # "live"
            BY <2>1, <2>5, <3>0, <3>1 DEF EditWrite
        <3>2. CASE row[edit.task].life = "live"
            <4>. DEFINE x == edit.task
            <4>1. /\ x \in Tasks /\ \A t \in Tasks : t # x => row'[t] = row[t]
                  /\ row'[x].life = row[x].life
                  /\ \/ Computes /\ late' = IF row'[x].next <= clock THEN late + 1 ELSE late
                     \/ ~row'[x].enabled /\ UNCHANGED late
                     \/ edit.op = "enable" /\ edit.read.enabled /\ row'[x].next = row[x].next /\ UNCHANGED late
                BY <2>5, <3>2, EditedFields
            <4>2. ASSUME NEW t \in Tasks, t # x PROVE Again(t)' => Again(t)
                BY <1>8, <4>1, <4>2 DEF Again
            <4>3. CASE late' = late + 1
                <5>1. ASSUME NEW t \in Tasks, t # x, Repeating(t)' PROVE Repeating(t)
                    BY <1>8, <3>0, <4>2, <5>1, RepeatsOnly
                <5>. QED BY <1>3, <1>5, <1>8, <4>3, <5>1
            <4>4. CASE Computes /\ ~(row'[x].next <= clock)
                <5>1. row'[x].next \notin fired[x]
                    BY <1>0, <4>1, <4>4 DEF Sent
                <5>2. ASSUME NEW t \in Tasks, t = x PROVE ~Again(t)'
                    BY <1>8, <5>1, <5>2 DEF Again
                <5>. QED BY <2>3, <3>0, <4>2, <5>2
            <4>5. CASE ~row'[x].enabled
                <5>1. ASSUME NEW t \in Tasks, t = x PROVE ~Again(t)'
                    BY <4>5, <5>1 DEF Again
                <5>. QED BY <2>3, <3>0, <4>2, <5>1
            <4>6. CASE edit.op = "enable" /\ edit.read.enabled /\ row'[x].next = row[x].next
                <5>1. ASSUME NEW t \in Tasks, t = x, Again(t)' PROVE Again(t)
                    <6>1. row[t].life = "live" /\ row[t].next \in fired[t]
                        BY <1>8, <4>1, <4>6, <5>1 DEF Again
                    <6>2. row[t].next # None
                        BY <6>1 DEF Sent, None
                    <6>3. row[t].enabled
                        BY <4>6, <5>1, <6>1, <6>2 DEF EnableReads
                    <6>. QED BY <6>1, <6>3 DEF Again
                <5>. QED BY <2>3, <3>0, <4>2, <5>1
            <4>. QED BY <4>1, <4>3, <4>4, <4>5, <4>6
        <3>. QED BY <3>1, <3>2
    <2>6. ASSUME NEW x \in Tasks, NEW category \in Categories, NEW cron \in Crons \cup {None}, CreateTask(x, category, cron)
          PROVE  Once'
        <3>1. ~RecordRun
            BY <2>6, CreatedFields DEF CreateTask, RecordRun, Step, At, Typed, WorkerTyped, Workers
        <3>2. ASSUME NEW t \in Tasks, Again(t)' PROVE Again(t)
            <4>1. CASE t = x
                <5>1. fired[t] = {}
                    BY <2>6, <4>1, CreatedFields DEF Sent
                <5>. QED BY <1>8, <3>2, <5>1 DEF Again
            <4>2. CASE t # x
                BY <1>8, <2>6, <3>2, <4>2, CreatedFields DEF Again
            <4>. QED BY <4>1, <4>2
        <3>. QED BY <2>3, <3>1, <3>2
    <2>7. ASSUME NEW x \in Tasks, DeleteTask(x) \/ DeleteCallbacks(x) PROVE Once'
        <3>1. ~RecordRun
            BY <2>7 DEF DeleteTask, DeleteCallbacks, RecordRun, Step, At, Typed, WorkerTyped, Workers
        <3>2. ASSUME NEW t \in Tasks, Again(t)' PROVE Again(t)
            BY <1>8, <2>7, <3>2, DeletedFields DEF Again
        <3>. QED BY <2>3, <3>1, <3>2
    <2>. QED BY <2>1, <2>2, <2>4, <2>5, <2>6, <2>7, RowActions
<1>. QED BY <1>6, <1>7, <1>8, FiredActions

Counted == Listed /\ Sent /\ EnableReads

LEMMA AlwaysCounted == Spec => []Counted
<1>1. Init => Counted
    <2>. SUFFICES ASSUME Init PROVE Counted
        OBVIOUS
    <2>1. worker.pc = "load" /\ worker.due = {} /\ edit.op = "none"
        BY DEF Init, Worker, NoEdit
    <2>2. Listed /\ EnableReads
        BY <2>1 DEF Listed, EnableReads, ListPcs, RunPcs, Working
    <2>3. Sent
        BY DEF Init, Sent
    <2>. QED BY <2>2, <2>3 DEF Counted
<1>2. Typed /\ EditsSurviveRuns /\ Stopped /\ Counted /\ [Next]_vars => Counted'
    BY ListedStep, SentStep, EnableReadsStep DEF Counted
<1>. QED BY <1>1, <1>2, AlwaysStopped, PTL DEF Spec

\* An occurrence of a task sends its message once, unless the application
\* stopped, a call failed or an edit came late (runner.rs:314-319, 551-567).
THEOREM SendsOnce == Spec => []OncePerOccurrence
<1>1. Init => Once
    <2>. SUFFICES ASSUME Init PROVE Once
        OBVIOUS
    <2>1. Repeats = {}
        BY DEF Init, Repeats, Repeating, Again
    <2>2. again = 0 /\ faults = 0 /\ late = 0
        BY DEF Init
    <2>. QED BY <2>1, <2>2, FS_EmptySet DEF Once
<1>2. Typed /\ EditsSurviveRuns /\ Stopped /\ Counted /\ Once /\ [Next]_vars => Once'
    BY OnceStep DEF Counted
<1>3. Typed /\ Counted /\ Once => OncePerOccurrence
    <2>. SUFFICES ASSUME Typed, Counted, Once PROVE OncePerOccurrence
        OBVIOUS
    <2>1. faults \in Nat /\ late \in Nat /\ again \in Nat /\ Cardinality(Repeats) \in Nat
        BY SchedulerAssumption, FS_CardinalityType DEF Typed, RestTyped, Counted, Sent, Once
    <2>. QED BY <2>1 DEF Once, OncePerOccurrence
<1>. QED BY <1>1, <1>2, <1>3, AlwaysStopped, AlwaysCounted, PTL DEF Spec
-----------------------------------------------------------------------------
(* How a task makes one session and keeps it.                                *)

FreshPcs == {"busy", "skip", "inject", "record"}

\* The run under way made the session of task t.
Fresh(t) == Current = t /\ worker.fresh /\ worker.pc \in FreshPcs

\* Only GLOBAL tasks make sessions, and they are periodic.  A run that makes one
\* found none to resume; the copy knows the session as the row does.
Making ==
    /\ \A t \in Tasks : row[t].life = "live" /\ row[t].category = "GLOBAL" => row[t].cron # None
    /\ \A t \in Tasks : Working(t) /\ worker.copy[t].category = "GLOBAL" => worker.copy[t].cron # None
    /\ \A t \in Tasks : Held(t) => worker.copy[t].pinned = row[t].pinned
    /\ worker.pc = "create" => Copy.category = "GLOBAL" /\ (Copy.pinned => ~session[Current].exists)
    /\ worker.pc \in {"find", "resume", "activate", "create"} => ~worker.fresh
    /\ worker.pc \in FreshPcs /\ worker.fresh => Copy.cron # None

\* How the sessions change.
LEMMA SessionActions ==
    ASSUME Typed, [Next]_vars, NEW t \in Tasks
    PROVE  /\ \/ session'[t].exists = session[t].exists
              \/ Create /\ t = Current /\ session'[t].exists
              \/ DeleteRow(t) /\ ~session'[t].exists
           /\ session[t].active /\ ~session'[t].active => DeleteSession(t) \/ Crash \/ (Create /\ t = Current)
<1>. USE DEF At
<1>0. session \in [Tasks -> Sessions] /\ (worker.pc \in RunPcs => Current \in Tasks)
    BY DEF Typed, RestTyped, WorkerTyped
<1>1. CASE UNCHANGED session
    BY <1>1
<1>2. ASSUME NEW x \in Tasks, NEW s, session' = [session EXCEPT ![x] = s], s.exists = session[x].exists,
             session[x].active => s.active
      PROVE  session'[t].exists = session[t].exists /\ (session[t].active => session'[t].active)
    BY <1>0, <1>2
<1>3. CASE ResumeActivate
    <2>. DEFINE s == Activated(session[Current])
    <2>1. Current \in Tasks /\ session' = [session EXCEPT ![Current] = s]
        BY <1>0, <1>3 DEF ResumeActivate, RunPcs
    <2>2. s.exists = session[Current].exists /\ s.active
        BY <1>0, <2>1 DEF Sessions, Activated
    <2>. HIDE DEF s
    <2>. QED BY <1>2, <2>1, <2>2
<1>4. CASE Create
    <2>1. PICK active \in BOOLEAN : session' = [session EXCEPT ![Current] = Session(TRUE, active, "rest", FALSE)]
        BY <1>4 DEF Create
    <2>2. Session(TRUE, active, "rest", FALSE).exists
        BY DEF Session
    <2>3. Current \in Tasks
        BY <1>0, <1>4 DEF Create, RunPcs
    <2>4. /\ session'[Current] = Session(TRUE, active, "rest", FALSE)
          /\ t # Current => session'[t] = session[t]
        BY <1>0, <2>1, <2>3
    <2>. QED BY <1>4, <2>2, <2>4
<1>5. ASSUME NEW x \in Tasks, Prompt(x) \/ Begin(x) \/ Finish(x) \/ Recover(x)
      PROVE  session'[t].exists = session[t].exists /\ (session[t].active => session'[t].active)
    <2>1. CASE Recover(x)
        <3>. DEFINE s == [session[x] EXCEPT !.active = TRUE, !.status = "rest", !.running = FALSE]
        <3>1. session' = [session EXCEPT ![x] = s]
            BY <2>1 DEF Recover
        <3>2. s.exists = session[x].exists /\ s.active
            BY <1>0 DEF Sessions
        <3>. HIDE DEF s
        <3>. QED BY <1>2, <3>1, <3>2
    <2>2. CASE Prompt(x)
        <3>. DEFINE s == [session[x] EXCEPT !.status = "queued"]
        <3>1. session' = [session EXCEPT ![x] = s]
            BY <2>2 DEF Prompt
        <3>2. s.exists = session[x].exists /\ s.active = session[x].active
            BY <1>0 DEF Sessions
        <3>. HIDE DEF s
        <3>. QED BY <1>2, <3>1, <3>2
    <2>3. CASE Begin(x) \/ Finish(x)
        <3>1. PICK status, running : session' = [session EXCEPT ![x].status = status, ![x].running = running]
            BY <2>3 DEF Begin, Finish
        <3>. DEFINE s == [session[x] EXCEPT !.status = status, !.running = running]
        <3>2. session' = [session EXCEPT ![x] = s]
            BY <1>0, <3>1
        <3>3. s.exists = session[x].exists /\ s.active = session[x].active
            BY <1>0 DEF Sessions
        <3>. HIDE DEF s
        <3>. QED BY <1>2, <3>2, <3>3
    <2>. QED BY <1>5, <2>1, <2>2, <2>3
<1>6. CASE Inject
    <2>1. CASE session' = [session EXCEPT ![Current].status = IF @ = "rest" THEN "queued" ELSE @]
        <3>. DEFINE status == IF session[Current].status = "rest" THEN "queued" ELSE session[Current].status
                    s == [session[Current] EXCEPT !.status = status]
        <3>1. Current \in Tasks
            BY <1>0, <1>6 DEF Inject, RunPcs
        <3>2. session' = [session EXCEPT ![Current] = s]
            BY <2>1
        <3>3. s.exists = session[Current].exists /\ s.active = session[Current].active
            BY <1>0, <3>1 DEF Sessions
        <3>. HIDE DEF s
        <3>. QED BY <1>2, <3>1, <3>2, <3>3
    <2>. QED BY <1>1, <1>6, <2>1 DEF Inject
<1>7. ASSUME NEW x \in Tasks, DeleteSession(x)
      PROVE  session'[t].exists = session[t].exists /\ (t # x => session'[t] = session[t])
    <2>. DEFINE s == [session[x] EXCEPT !.active = FALSE, !.status = "rest", !.running = FALSE]
    <2>1. session' = [session EXCEPT ![x] = s]
        BY <1>7 DEF DeleteSession
    <2>2. s.exists = session[x].exists
        BY <1>0 DEF Sessions
    <2>. HIDE DEF s
    <2>. QED BY <1>0, <2>1, <2>2
<1>8. ASSUME NEW x \in Tasks, DeleteRow(x)
      PROVE  (t = x => ~session'[t].exists /\ session'[t].active = session[t].active) /\ (t # x => session'[t] = session[t])
    <2>. DEFINE s == [session[x] EXCEPT !.exists = FALSE]
    <2>1. session' = [session EXCEPT ![x] = s]
        BY <1>8 DEF DeleteRow
    <2>2. s.exists = FALSE /\ s.active = session[x].active
        BY <1>0 DEF Sessions
    <2>. HIDE DEF s
    <2>. QED BY <1>0, <2>1, <2>2
<1>9. CASE Crash
    <2>. DEFINE s(x) == [session[x] EXCEPT !.active = FALSE, !.running = FALSE,
                            !.status = IF @ = "rest" THEN "rest" ELSE "stale"]
    <2>1. session' = [x \in Tasks |-> s(x)]
        BY <1>9 DEF Crash
    <2>2. s(t).exists = session[t].exists
        BY <1>0 DEF Sessions
    <2>. HIDE DEF s
    <2>. QED BY <1>9, <2>1, <2>2
<1>10. CASE LoadReady \/ AwaitReady \/ List \/ NextTask \/ FindSession \/ DisableOrphan \/ ResumeRead
              \/ CheckBusy \/ RecordSkipped \/ RecordRun \/ DisableOneShot \/ Fails \/ MarkReady
    BY <1>1, <1>10 DEF LoadReady, AwaitReady, List, NextTask, FindSession, DisableOrphan, ResumeRead,
       CheckBusy, RecordSkipped, RecordRun, DisableOneShot, Fails, MarkReady
<1>11. ASSUME NEW x \in Tasks,
              \/ \E category \in Categories, cron \in Crons \cup {None} : CreateTask(x, category, cron)
              \/ \E op \in EditOps, cron \in Crons \cup {None} : EditRead(x, op, cron)
              \/ DeleteTask(x) \/ DeleteCallbacks(x)
       PROVE  UNCHANGED session
    BY <1>11 DEF CreateTask, EditRead, DeleteTask, DeleteCallbacks
<1>12. CASE EditWrite \/ RecoverList \/ Pass \/ UNCHANGED vars
    BY <1>1, <1>12 DEF EditWrite, RecoverList, Pass, vars
<1>. QED BY <1>1, <1>3, <1>4, <1>5, <1>6, <1>7, <1>8, <1>9, <1>10, <1>11, <1>12 DEF Next, WorkerStep

\* A run makes a session only after it found none, and then holds it fresh.
LEMMA FreshMoves ==
    ASSUME Typed, Making, [Next]_vars
    PROVE  /\ worker'.pc \in {"find", "resume", "activate", "create"} => ~worker'.fresh
           /\ worker'.pc \in FreshPcs /\ worker'.fresh =>
                 /\ worker'.copy = worker.copy /\ Current' = Current
                 /\ (worker.pc \in FreshPcs /\ worker.fresh) \/ (Create /\ worker'.pc = "busy")
           /\ worker'.pc = "create" => UNCHANGED worker \/ FindSession
<1>. USE DEF Current
<1>1. CASE UNCHANGED worker
    BY <1>1 DEF Making
<1>2. ASSUME NEW pc \in WorkerPcs,
             /\ worker' = [worker EXCEPT !.pc = pc]
             /\ pc \in RunPcs => worker.pc \in {"find", "resume", "activate", "busy", "inject", "record"}
             /\ pc = "create" => FindSession
             /\ pc \in {"find", "resume", "activate"} => pc # "find" /\ worker.pc \in {"find", "resume"}
      PROVE  /\ worker'.pc \in {"find", "resume", "activate", "create"} => ~worker'.fresh
             /\ worker'.pc \in FreshPcs /\ worker'.fresh =>
                   worker'.copy = worker.copy /\ worker'.task = worker.task /\ worker.pc \in FreshPcs /\ worker.fresh
             /\ worker'.pc = "create" => FindSession
    <2>1. /\ worker'.pc = pc /\ worker'.copy = worker.copy /\ worker'.task = worker.task
          /\ worker'.fresh = worker.fresh
        BY <1>2 DEF Typed, WorkerTyped, Workers
    <2>2. FindSession => worker.pc = "find"
        BY DEF FindSession, At
    <2>. QED BY <1>2, <2>1, <2>2 DEF Making, FreshPcs, RunPcs
<1>3. ASSUME NEW pc \in {"load", "list"}, worker' = Worker(pc) PROVE worker'.pc \notin RunPcs
    BY <1>3 DEF Worker, RunPcs
<1>4. CASE List
    <2>. DEFINE due == {t \in Tasks : Due(t)}
                copy == [t \in Tasks |-> IF t \in due THEN row[t] ELSE Unborn]
    <2>1. worker' = [Worker("next") EXCEPT !.now = clock, !.due = due, !.copy = copy]
        BY <1>4 DEF List
    <2>. HIDE DEF copy, due
    <2>2. worker'.pc = "next"
        BY <2>1 DEF Worker
    <2>. QED BY <2>2 DEF FreshPcs
<1>5. ASSUME NEW t \in worker.due,
             worker' = [worker EXCEPT !.pc = "find", !.task = t, !.due = @ \ {t}, !.fresh = FALSE]
      PROVE  worker'.pc = "find" /\ ~worker'.fresh
    BY <1>5 DEF Typed, WorkerTyped, Workers
<1>6. ASSUME Create, worker' = [worker EXCEPT !.pc = "busy", !.fresh = TRUE]
      PROVE  worker'.pc = "busy" /\ worker'.copy = worker.copy /\ worker'.task = worker.task
    BY <1>6 DEF Typed, WorkerTyped, Workers
<1>. QED BY <1>1, <1>2, <1>3, <1>4, <1>5, <1>6, WorkerMoves DEF FreshPcs, RunPcs

LEMMA MakingStep ==
    ASSUME Typed, Stopped, Making, [Next]_vars
    PROVE  Making'
<1>1. ASSUME NEW t \in Tasks, row'[t].life = "live", row'[t].category = "GLOBAL" PROVE row'[t].cron # None
    BY <1>1, RowLife DEF Making
<1>2. ASSUME NEW t \in Tasks, Working(t)', worker'.copy[t].category = "GLOBAL" PROVE worker'.copy[t].cron # None
    BY <1>2, WorkingMoves DEF Making, Due
<1>3. ASSUME NEW t \in Tasks, Held(t)' PROVE worker'.copy[t].pinned = row'[t].pinned
    <2>1. Working(t)'
        BY <1>3 DEF Held, Working, HeldPcs, RunPcs
    <2>2. CASE List /\ worker'.copy[t] = row[t]
        BY <2>2 DEF List
    <2>3. CASE ~List /\ worker'.copy = worker.copy
        <3>1. Held(t)
            BY <1>3, <2>3, HeldMoves
        <3>2. row[t].life # "unborn" /\ worker.copy[t].pinned = row[t].pinned
            BY <3>1 DEF Stopped, Making
        <3>3. ASSUME t = Current, RecordSkipped \/ RecordRun PROVE FALSE
            <4>1. worker.pc \in {"skip", "record"} /\ t \notin worker.due
                BY <3>3 DEF RecordSkipped, RecordRun, At, Stopped
            <4>. QED BY <3>1, <4>1 DEF Held, HeldPcs
        <3>. QED BY <2>3, <3>2, <3>3, RowLife
    <2>. QED BY <2>1, <2>2, <2>3, WorkingMoves
<1>4. ASSUME worker'.pc = "create"
      PROVE  Copy'.category = "GLOBAL" /\ (Copy'.pinned => ~session'[Current'].exists)
    <2>1. CASE UNCHANGED worker
        <3>1. Copy' = Copy /\ Current' = Current /\ Current \in Tasks
            BY <1>4, <2>1 DEF Copy, Current, Typed, WorkerTyped, RunPcs
        <3>2. ~Create
            <4>1. ASSUME Create PROVE worker'.pc \in {"busy", "next"}
                BY <4>1 DEF Create, Step, Typed, WorkerTyped, Workers
            <4>. QED BY <1>4, <4>1
        <3>3. Copy.category = "GLOBAL" /\ (Copy.pinned => ~session[Current].exists)
            BY <1>4, <2>1 DEF Making
        <3>. QED BY <3>1, <3>2, <3>3, SessionActions
    <2>2. CASE FindSession
        <3>1. Current \in Tasks /\ Copy \in Rows
            BY <2>2 DEF FindSession, At, Typed, WorkerTyped, RunPcs, Workers, Current, Copy
        <3>. DEFINE pc == IF Copy.pinned /\ session[Current].active THEN "busy"
                          ELSE IF Copy.pinned /\ session[Current].exists THEN "resume"
                          ELSE IF IsSessionTask(Copy) THEN "orphan" ELSE "create"
        <3>2. worker' = [worker EXCEPT !.pc = pc] /\ UNCHANGED session
            BY <2>2 DEF FindSession, Step
        <3>3. worker'.pc = pc /\ worker'.copy = worker.copy /\ worker'.task = worker.task
            <4>. HIDE DEF pc
            <4>. QED BY <3>2 DEF Typed, WorkerTyped, Workers
        <3>4. ~(Copy.pinned /\ session[Current].exists) /\ ~IsSessionTask(Copy)
            BY <1>4, <3>3
        <3>5. Copy.category = "GLOBAL"
            BY <3>1, <3>4 DEF Rows, Categories, IsSessionTask
        <3>. QED BY <3>2, <3>3, <3>4, <3>5 DEF Copy, Current
    <2>. QED BY <1>4, <2>1, <2>2, FreshMoves
<1>5. ASSUME worker'.pc \in FreshPcs, worker'.fresh PROVE Copy'.cron # None
    <2>1. Copy' = Copy
        BY <1>5, FreshMoves DEF Copy
    <2>2. CASE worker.pc \in FreshPcs /\ worker.fresh
        BY <2>1, <2>2 DEF Making
    <2>3. CASE Create
        <3>1. worker.pc = "create" /\ Current \in Tasks
            BY <2>3 DEF Create, At, Typed, WorkerTyped, RunPcs
        <3>2. Working(Current)
            BY <3>1 DEF Working, RunPcs
        <3>. QED BY <2>1, <3>1, <3>2 DEF Making, Copy
    <2>. QED BY <1>5, <2>2, <2>3, FreshMoves
<1>. QED BY <1>1, <1>2, <1>3, <1>4, <1>5, FreshMoves DEF Making

\* How the counted sessions and the deletions change.
LEMMA SessionCounts ==
    ASSUME Typed, sessions \in [Tasks -> Nat], [Next]_vars
    PROVE  /\ sessions' \in [Tasks -> Nat]
           /\ \A t \in Tasks :
                 /\ \/ sessions'[t] = sessions[t]
                    \/ Create /\ t = Current /\ sessions'[t] = sessions[t] + 1
                    \/ DeleteSession(t) /\ session[t].exists
                       /\ sessions'[t] = IF sessions[t] = 0 THEN 0 ELSE sessions[t] - 1
                 /\ deletion'[t] # "none" =>
                       \/ DeleteSession(t) /\ session[t].exists
                       \/ deletion[t] # "none" /\ (Create /\ t = Current => Copy.pinned)
<1>. USE DEF history, At
<1>0. deletion \in [Tasks -> {"none", "tasks", "row"}] /\ (worker.pc \in RunPcs => Current \in Tasks)
    BY DEF Typed, RestTyped, WorkerTyped
<1>1. CASE UNCHANGED <<sessions, deletion>> /\ ~Create
    BY <1>1
<1>2. Create => worker'.pc \in {"busy", "next"} /\ worker.pc = "create"
    BY DEF Create, Step, Typed, WorkerTyped, Workers
<1>3. CASE LoadReady \/ AwaitReady \/ List \/ NextTask \/ FindSession \/ ResumeRead \/ ResumeActivate
              \/ CheckBusy \/ Inject
    <2>1. UNCHANGED <<sessions, deletion>>
        BY <1>3 DEF LoadReady, AwaitReady, List, NextTask, FindSession, ResumeRead, ResumeActivate,
           CheckBusy, Inject
    <2>2. worker.pc # "create"
        BY <1>3 DEF LoadReady, AwaitReady, List, NextTask, FindSession, ResumeRead, ResumeActivate,
           CheckBusy, Inject
    <2>. QED BY <1>1, <1>2, <2>1, <2>2
<1>4. CASE DisableOrphan \/ RecordSkipped \/ RecordRun \/ DisableOneShot
    <2>1. UNCHANGED <<sessions, deletion>> /\ worker.pc # "create"
        BY <1>4 DEF DisableOrphan, RecordSkipped, RecordRun, DisableOneShot
    <2>. QED BY <1>1, <1>2, <2>1
<1>5. CASE Fails \/ MarkReady \/ EditWrite \/ RecoverList \/ Pass \/ UNCHANGED vars
    <2>1. UNCHANGED <<sessions, deletion>>
        BY <1>5 DEF Fails, MarkReady, EditWrite, RecoverList, Pass, vars
    <2>2. ~Create
        <3>1. CASE Create
            <4>1. sessions'[Current] = sessions[Current] + 1 /\ Current \in Tasks
                BY <1>0, <1>2, <3>1 DEF Create, RunPcs
            <4>. QED BY <2>1, <4>1
        <3>. QED BY <3>1
    <2>. QED BY <1>1, <2>1, <2>2
<1>6. CASE Create
    <2>1. Current \in Tasks
        BY <1>0, <1>2, <1>6 DEF RunPcs
    <2>2. /\ sessions' = [sessions EXCEPT ![Current] = @ + 1]
          /\ deletion' = [deletion EXCEPT ![Current] = IF Copy.pinned THEN @ ELSE "none"]
        BY <1>6 DEF Create
    <2>3. /\ sessions' \in [Tasks -> Nat] /\ sessions'[Current] = sessions[Current] + 1
          /\ \A t \in Tasks : t # Current => sessions'[t] = sessions[t] /\ deletion'[t] = deletion[t]
          /\ deletion'[Current] # "none" => deletion[Current] # "none" /\ Copy.pinned
        BY <1>0, <2>1, <2>2
    <2>. QED BY <1>6, <2>3
<1>7. ASSUME NEW x \in Tasks,
             \/ \E category \in Categories, cron \in Crons \cup {None} : CreateTask(x, category, cron)
             \/ \E op \in EditOps, cron \in Crons \cup {None} : EditRead(x, op, cron)
             \/ DeleteTask(x) \/ Prompt(x) \/ Begin(x) \/ Finish(x) \/ Recover(x)
      PROVE  UNCHANGED <<sessions, deletion, worker>>
    BY <1>7 DEF CreateTask, EditRead, DeleteTask, Prompt, Begin, Finish, Recover
<1>8. ASSUME NEW x \in Tasks, DeleteCallbacks(x) \/ DeleteRow(x)
      PROVE  /\ UNCHANGED <<sessions, worker>>
             /\ \A t \in Tasks : deletion'[t] # "none" => deletion[t] # "none"
    BY <1>0, <1>8 DEF DeleteCallbacks, DeleteRow
<1>9. ASSUME NEW x \in Tasks, DeleteSession(x)
      PROVE  /\ UNCHANGED worker /\ session[x].exists /\ sessions' \in [Tasks -> Nat]
             /\ sessions'[x] = IF sessions[x] = 0 THEN 0 ELSE sessions[x] - 1
             /\ \A t \in Tasks : t # x => sessions'[t] = sessions[t] /\ deletion'[t] = deletion[t]
    <2>. DEFINE n == IF sessions[x] = 0 THEN 0 ELSE sessions[x] - 1
    <2>1. n \in Nat /\ sessions' = [sessions EXCEPT ![x] = n] /\ deletion' = [deletion EXCEPT ![x] = "tasks"]
        BY <1>9 DEF DeleteSession
    <2>. HIDE DEF n
    <2>2. /\ sessions' \in [Tasks -> Nat] /\ sessions'[x] = n
          /\ \A t \in Tasks : t # x => sessions'[t] = sessions[t] /\ deletion'[t] = deletion[t]
        BY <1>0, <2>1
    <2>. QED BY <1>9, <2>2 DEF DeleteSession, n
<1>10. UNCHANGED worker => ~Create
    BY <1>2
<1>11. CASE Crash
    <2>1. UNCHANGED sessions /\ \A t \in Tasks : deletion'[t] = "none"
        BY <1>11 DEF Crash
    <2>. QED BY <2>1
<1>12. ASSUME NEW x \in Tasks, DeleteSession(x) \/ DeleteCallbacks(x) \/ DeleteRow(x) PROVE ~Create
    BY <1>8, <1>9, <1>10, <1>12
<1>. QED BY <1>1, <1>3, <1>4, <1>5, <1>6, <1>7, <1>8, <1>9, <1>10, <1>11, <1>12 DEF Next, WorkerStep

\* The session of task t is there and known, or will not be asked for again.
Settled(t) ==
    \/ session[t].exists /\ (row[t].pinned \/ Fresh(t))
    \/ row[t].life = "deleted" /\ ~Held(t)

\* Failures, and new sessions that were busy first, pay for every session but
\* the settled one.
Few ==
    /\ sessions \in [Tasks -> Nat]
    /\ \A t \in Tasks : sessions[t] <= 1 + faults + busied
    /\ \A t \in Tasks : ~Settled(t) => sessions[t] <= faults + busied
    /\ \A t \in Tasks : deletion[t] # "none" => sessions[t] <= faults + busied
    /\ \A t \in Tasks : Fresh(t) /\ ~session[t].active => sessions[t] <= faults + busied
    /\ \A t \in Tasks : ~session[t].exists => deletion[t] = "none"
    /\ \A t \in Tasks : row[t].life = "unborn" => sessions[t] = 0

\* How a run stops to hold the session it made.
LEMMA FreshEnds ==
    ASSUME Typed, Making, [Next]_vars, NEW t \in Tasks, Fresh(t), ~Fresh(t)'
    PROVE  Fails \/ Crash \/ RecordSkipped \/ RecordRun \/ (Inject /\ ~session[t].active)
<1>. USE DEF At, Current
<1>0. worker \in Workers /\ worker.pc \in FreshPcs /\ worker.fresh /\ worker.task = t /\ Copy.cron # None
    BY DEF Fresh, Typed, WorkerTyped, Making
<1>1. UNCHANGED worker => FALSE
    BY DEF Fresh
<1>2. ASSUME NEW pc \in FreshPcs, worker' = [worker EXCEPT !.pc = pc] PROVE FALSE
    BY <1>0, <1>2 DEF Fresh, Workers
<1>3. ~LoadReady /\ ~AwaitReady /\ ~List /\ ~NextTask /\ ~FindSession /\ ~DisableOrphan /\ ~ResumeRead
      /\ ~ResumeActivate /\ ~Create /\ ~DisableOneShot
    BY <1>0 DEF FreshPcs, LoadReady, AwaitReady, List, NextTask, FindSession, DisableOrphan, ResumeRead,
       ResumeActivate, Create, DisableOneShot
<1>4. ~CheckBusy
    <2>1. ASSUME CheckBusy PROVE FALSE
        <3>1. PICK pc \in {"inject", "skip"} : worker' = [worker EXCEPT !.pc = pc]
            BY <1>0, <2>1 DEF CheckBusy, Step, IsOneShot
        <3>. QED BY <1>2, <3>1 DEF FreshPcs
    <2>. QED BY <2>1
<1>5. Inject => ~session[t].active
    <2>1. ASSUME Inject, session[t].active PROVE FALSE
        <3>1. worker' = [worker EXCEPT !.pc = "record"]
            BY <1>0, <2>1 DEF Inject, Step
        <3>. QED BY <1>2, <3>1 DEF FreshPcs
    <2>. QED BY <2>1
<1>6. MarkReady => UNCHANGED worker
    BY <1>0 DEF MarkReady, Step, Workers, FreshPcs
<1>7. ASSUME NEW x \in Tasks,
             \/ \E category \in Categories, cron \in Crons \cup {None} : CreateTask(x, category, cron)
             \/ \E op \in EditOps, cron \in Crons \cup {None} : EditRead(x, op, cron)
             \/ DeleteTask(x) \/ Prompt(x) \/ Begin(x) \/ Finish(x)
             \/ DeleteSession(x) \/ DeleteCallbacks(x) \/ DeleteRow(x) \/ Recover(x)
      PROVE  UNCHANGED worker
    BY <1>7 DEF CreateTask, EditRead, DeleteTask, Prompt, Begin, Finish, DeleteSession, DeleteCallbacks,
       DeleteRow, Recover
<1>8. EditWrite \/ RecoverList \/ Pass \/ UNCHANGED vars => UNCHANGED worker
    BY DEF EditWrite, RecoverList, Pass, vars
<1>. QED BY <1>1, <1>3, <1>4, <1>5, <1>6, <1>7, <1>8 DEF Next, WorkerStep

\* At the creation no session is settled: it was paid for.
LEMMA CreatePaid ==
    ASSUME Typed, Stopped, Making, Few, Create
    PROVE  /\ Current \in Tasks /\ Held(Current) /\ sessions[Current] <= faults + busied
           /\ Copy.pinned => deletion[Current] = "none"
<1>1. worker.pc = "create" /\ Current \in Tasks
    BY DEF Create, At, Typed, WorkerTyped, RunPcs
<1>2. Held(Current) /\ Copy.pinned = row[Current].pinned
    BY <1>1 DEF Held, HeldPcs, Making, Copy
<1>3. Copy.pinned => ~session[Current].exists
    BY <1>1 DEF Making
<1>4. ~Settled(Current)
    BY <1>1, <1>2, <1>3 DEF Settled, Fresh, FreshPcs
<1>. QED BY <1>1, <1>2, <1>3, <1>4 DEF Few

LEMMA FewStep ==
    ASSUME Typed, Stopped, Making, Few, late \in Nat, busied \in Nat, [Next]_vars
    PROVE  Few'
<1>0. /\ faults + busied \in Nat /\ faults' + busied' \in Nat /\ faults + busied <= faults' + busied'
      /\ 1 + faults + busied = (faults + busied) + 1 /\ 1 + faults' + busied' = (faults' + busied') + 1
      /\ faults' = faults + 1 \/ (busied' = busied + 1) => faults + busied + 1 <= faults' + busied'
    <2>1. faults \in Nat
        BY SchedulerAssumption DEF Typed, RestTyped
    <2>2. faults' \in {faults, faults + 1} /\ busied' \in {busied, busied + 1}
        BY CountersGrow
    <2>3. \A f, e, g, h \in Nat : f <= g /\ e <= h =>
              /\ f + e \in Nat /\ g + h \in Nat /\ f + e <= g + h
              /\ 1 + f + e = (f + e) + 1 /\ 1 + g + h = (g + h) + 1
              /\ g = f + 1 \/ h = e + 1 => f + e + 1 <= g + h
        OBVIOUS
    <2>4. faults' \in Nat /\ busied' \in Nat /\ faults <= faults' /\ busied <= busied'
        BY <2>1, <2>2
    <2>. QED BY <2>1, <2>3, <2>4
<1>. DEFINE old == faults + busied  new == faults' + busied'
<1>1. /\ old \in Nat /\ new \in Nat /\ old <= new
      /\ faults' = faults + 1 \/ busied' = busied + 1 => old + 1 <= new
    BY <1>0
<1>2. 1 + faults + busied = old + 1 /\ 1 + faults' + busied' = new + 1
    BY <1>0
<1>3. \A t \in Tasks : sessions[t] \in Nat /\ sessions[t] <= old + 1
    BY <1>2 DEF Few
<1>4. \A t \in Tasks : ~Settled(t) \/ deletion[t] # "none" \/ (Fresh(t) /\ ~session[t].active) => sessions[t] <= old
    BY DEF Few
<1>. HIDE DEF old, new
<1>5. sessions' \in [Tasks -> Nat]
    BY SessionCounts DEF Few
<1>6. ASSUME NEW t \in Tasks PROVE sessions'[t] <= new + 1
    <2>1. CASE sessions'[t] = sessions[t]
        BY <1>1, <1>3, <1>5, <2>1
    <2>2. CASE Create /\ t = Current /\ sessions'[t] = sessions[t] + 1
        <3>1. sessions[t] <= old
            BY <2>2, CreatePaid DEF old
        <3>. QED BY <1>1, <1>3, <1>5, <2>2, <3>1
    <2>3. CASE sessions'[t] = IF sessions[t] = 0 THEN 0 ELSE sessions[t] - 1
        BY <1>1, <1>3, <1>5, <2>3
    <2>. QED BY <2>1, <2>2, <2>3, SessionCounts DEF Few
<1>7. ASSUME NEW t \in Tasks, sessions[t] <= old, ~(Create /\ t = Current) PROVE sessions'[t] <= new
    <2>1. CASE sessions'[t] = sessions[t]
        BY <1>1, <1>3, <1>7, <2>1
    <2>2. CASE sessions'[t] = IF sessions[t] = 0 THEN 0 ELSE sessions[t] - 1
        BY <1>1, <1>3, <1>7, <2>2
    <2>. QED BY <1>7, <2>1, <2>2, SessionCounts DEF Few
<1>8. ASSUME NEW t \in Tasks, DeleteSession(t), ~(Create /\ t = Current) PROVE sessions'[t] <= new
    <2>1. sessions'[t] = IF sessions[t] = 0 THEN 0 ELSE sessions[t] - 1
        BY <1>8 DEF DeleteSession, Few
    <2>. QED BY <1>1, <1>3, <2>1
<1>9. ASSUME NEW t \in Tasks, faults' = faults + 1 \/ busied' = busied + 1, ~(Create /\ t = Current)
      PROVE  sessions'[t] <= new
    <2>1. CASE sessions'[t] = sessions[t]
        BY <1>1, <1>3, <1>9, <2>1
    <2>2. CASE sessions'[t] = IF sessions[t] = 0 THEN 0 ELSE sessions[t] - 1
        BY <1>1, <1>3, <1>9, <2>2
    <2>. QED BY <1>9, <2>1, <2>2, SessionCounts DEF Few
<1>10. ASSUME Create
       PROVE  /\ worker.pc = "create"
              /\ \/ worker'.pc = "next" /\ faults' = faults + 1
                 \/ /\ worker'.pc = "busy" /\ worker'.fresh /\ Current' = Current
                    /\ session'[Current].exists /\ session'[Current].active
    <2>1. worker.pc = "create" /\ Current \in Tasks /\ session \in [Tasks -> Sessions]
        BY <1>10 DEF Create, At, Typed, WorkerTyped, RunPcs, RestTyped
    <2>2. CASE /\ worker' = [worker EXCEPT !.pc = "busy", !.fresh = TRUE]
               /\ session' = [session EXCEPT ![Current] = Session(TRUE, TRUE, "rest", FALSE)]
        <3>1. session'[Current] = Session(TRUE, TRUE, "rest", FALSE)
            BY <2>1, <2>2
        <3>2. worker'.pc = "busy" /\ worker'.fresh /\ worker'.task = worker.task
            BY <2>2 DEF Typed, WorkerTyped, Workers
        <3>. QED BY <2>1, <3>1, <3>2 DEF Session, Current
    <2>3. CASE worker' = [worker EXCEPT !.pc = "next"] /\ faults' = faults + 1
        BY <2>1, <2>3 DEF Typed, WorkerTyped, Workers
    <2>. QED BY <1>10, <2>1, <2>2, <2>3 DEF Create, Fault, Step
<1>11. ASSUME NEW t \in Tasks, ~Settled(t)' PROVE sessions'[t] <= new
    <2>1. CASE Create /\ t = Current
        <3>1. sessions[t] <= old
            BY <2>1, CreatePaid DEF old
        <3>2. faults' = faults + 1
            BY <1>10, <1>11, <2>1 DEF Settled, Fresh, FreshPcs
        <3>3. sessions'[t] = sessions[t] + 1
            <4>1. sessions' = [sessions EXCEPT ![Current] = @ + 1]
                BY <2>1 DEF Create
            <4>. QED BY <2>1, <4>1 DEF Few
        <3>. QED BY <1>1, <1>3, <3>1, <3>2, <3>3
    <2>2. CASE ~(Create /\ t = Current) /\ (~Settled(t) \/ deletion[t] # "none" \/ (Fresh(t) /\ ~session[t].active))
        BY <1>4, <1>7, <2>2
    <2>3. CASE ~(Create /\ t = Current) /\ (faults' = faults + 1 \/ busied' = busied + 1)
        BY <1>9, <2>3
    <2>4. CASE /\ ~(Create /\ t = Current) /\ Settled(t) /\ deletion[t] = "none" /\ (Fresh(t) => session[t].active)
               /\ faults' # faults + 1 /\ busied' # busied + 1
        <3>1. CASE row[t].life = "deleted" /\ ~Held(t)
            <4>1. row'[t].life = "deleted"
                BY <3>1, RowLife
            <4>2. ~Held(t)'
                BY <3>1, HeldMoves DEF Due
            <4>. QED BY <1>11, <4>1, <4>2 DEF Settled
        <3>2. session[t].exists => session'[t].exists
            BY <2>4, SessionActions DEF DeleteRow
        <3>3. CASE row[t].life = "unborn"
            <4>1. sessions[t] <= old
                BY <1>1, <3>3 DEF Few
            <4>. QED BY <1>7, <2>4, <4>1
        <3>4. CASE session[t].exists /\ row[t].pinned /\ row[t].life # "unborn"
            <4>1. row'[t].pinned
                BY <3>4, RowLife
            <4>. QED BY <1>11, <3>2, <3>4, <4>1 DEF Settled
        <3>5. CASE session[t].exists /\ Fresh(t) /\ row[t].life # "unborn" /\ ~row[t].pinned
            <4>1. ~Fresh(t)'
                BY <1>11, <3>2, <3>5 DEF Settled
            <4>2. ~Fails /\ ~Crash /\ ~RecordSkipped
                <5>1. ~Fails /\ ~Crash
                    BY <2>4, CountersGrow
                <5>2. RecordSkipped => busied' = busied + 1
                    BY <3>5 DEF RecordSkipped, Fresh
                <5>. QED BY <2>4, <5>1, <5>2
            <4>3. RecordRun
                BY <2>4, <3>5, <4>1, <4>2, FreshEnds
            <4>4. t = Current /\ worker.fresh
                BY <3>5 DEF Fresh
            <4>5. CASE row[t].life = "live"
                <5>1. row'[t].pinned
                    BY <4>3, <4>4, <4>5, RescheduledRow
                <5>. QED BY <1>11, <3>2, <3>5, <5>1 DEF Settled
            <4>6. CASE row[t].life # "live"
                <5>1. row[t].life = "deleted"
                    BY <3>5, <4>6 DEF Typed, RowsTyped, Rows
                <5>2. worker.pc = "record" /\ t \notin worker.due
                    BY <4>3, <4>4 DEF RecordRun, At, Stopped
                <5>3. ~Held(t)
                    BY <5>2 DEF Held, HeldPcs
                <5>. QED BY <3>1, <5>1, <5>3
            <4>. QED BY <4>5, <4>6
        <3>. QED BY <2>4, <3>1, <3>3, <3>4, <3>5 DEF Settled
    <2>. QED BY <2>1, <2>2, <2>3, <2>4
<1>12. ASSUME NEW t \in Tasks, deletion'[t] # "none" PROVE sessions'[t] <= new
    <2>1. ~(Create /\ t = Current)
        <3>1. CASE Create /\ t = Current
            <4>1. worker' # worker
                BY <1>10, <3>1
            <4>2. ~DeleteSession(t)
                BY <4>1 DEF DeleteSession
            <4>3. deletion[t] # "none" /\ Copy.pinned
                BY <1>12, <3>1, <4>2, SessionCounts DEF Few
            <4>. QED BY <3>1, <4>3, CreatePaid
        <3>. QED BY <3>1
    <2>. QED BY <1>4, <1>7, <1>8, <1>12, <2>1, SessionCounts DEF Few
<1>13. ASSUME NEW t \in Tasks, Fresh(t)', ~session'[t].active PROVE sessions'[t] <= new
    <2>1. ~(Create /\ t = Current)
        <3>1. CASE Create /\ t = Current
            <4>1. worker'.pc = "next"
                BY <1>10, <1>13, <3>1
            <4>. QED BY <1>13, <4>1 DEF Fresh, FreshPcs
        <3>. QED BY <3>1
    <2>2. Fresh(t)
        BY <1>13, <2>1, FreshMoves DEF Fresh
    <2>3. ~Crash
        <3>1. Crash => worker' = Worker("load")
            BY DEF Crash
        <3>2. Worker("load").pc = "load"
            BY DEF Worker
        <3>3. worker'.pc # "load"
            BY <1>13 DEF Fresh, FreshPcs
        <3>. QED BY <3>1, <3>2, <3>3
    <2>4. CASE session[t].active
        <3>1. DeleteSession(t)
            BY <1>13, <2>1, <2>3, <2>4, SessionActions
        <3>. QED BY <1>8, <2>1, <3>1
    <2>5. CASE ~session[t].active
        BY <1>4, <1>7, <2>1, <2>2, <2>5
    <2>. QED BY <2>4, <2>5
<1>14. ASSUME NEW t \in Tasks, ~session'[t].exists PROVE deletion'[t] = "none"
    <2>1. CASE session[t].exists
        <3>1. DeleteRow(t)
            BY <1>14, <2>1, SessionActions
        <3>. QED BY <3>1 DEF DeleteRow, Typed, RestTyped
    <2>2. CASE ~session[t].exists
        BY <2>2, SessionCounts DEF Few
    <2>. QED BY <2>1, <2>2
<1>15. ASSUME NEW t \in Tasks, row'[t].life = "unborn" PROVE sessions'[t] = 0
    <2>1. row[t].life = "unborn" /\ sessions[t] = 0
        BY <1>15, RowLife DEF Few
    <2>2. ~(Create /\ t = Current)
        BY <2>1, CreatePaid DEF Stopped
    <2>. QED BY <2>1, <2>2, SessionCounts DEF Few
<1>. QED BY <1>2, <1>5, <1>6, <1>11, <1>12, <1>13, <1>14, <1>15 DEF Few, new

\* A GLOBAL task makes one session and keeps it, unless a call failed after the
\* creation, or the new session was busy first (runner.rs:237-287, 316-319).
THEOREM OneSession == Spec => []OneSessionPerTask
<1>1. Init => Making /\ Few
    <2>. SUFFICES ASSUME Init PROVE Making /\ Few
        OBVIOUS
    <2>1. worker.pc = "load" /\ worker.due = {}
        BY DEF Init, Worker
    <2>2. \A t \in Tasks : row[t].life = "unborn"
        BY DEF Init, Unborn, Row
    <2>3. Making
        BY <2>1, <2>2 DEF Making, Working, Held, RunPcs, HeldPcs, FreshPcs
    <2>4. /\ sessions \in [Tasks -> Nat] /\ faults = 0 /\ busied = 0
          /\ \A t \in Tasks : sessions[t] = 0 /\ deletion[t] = "none"
        BY DEF Init
    <2>. QED BY <2>3, <2>4 DEF Few
<1>2. Typed /\ Stopped /\ Making /\ [Next]_vars => Making'
    BY MakingStep
<1>3. Typed /\ Stopped /\ Counted /\ Making /\ Few /\ [Next]_vars => Few'
    BY FewStep DEF Counted, Sent
<1>4. Few => OneSessionPerTask
    BY DEF Few, OneSessionPerTask
<1>. QED BY <1>1, <1>2, <1>3, <1>4, AlwaysStopped, AlwaysCounted, PTL DEF Spec
================================================================================
