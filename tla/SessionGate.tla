----------------------------- MODULE SessionGate -----------------------------
(***************************************************************************)
(* The session status machine of the agent runtime and the concurrency     *)
(* gate that bounds how many sessions run their LLM loop at once.           *)
(*                                                                         *)
(* A status change is `update_session_status_with_dispatcher`              *)
(* (agent/lifecycle/management.rs): an async function whose awaits let      *)
(* other futures run between its steps.  It is called by the workflow       *)
(* operations (start, inject, resume, pause, cancel, terminate, /clear),    *)
(* by the handler of LLM responses and by the tool loop.  A tool of that    *)
(* loop, checkSession(wait=true), trades the session's active permit for a  *)
(* suspended one while it waits for a child session.                        *)
(*                                                                         *)
(* A task is one in-flight future.  pc[t] is the await point it is at;     *)
(* every action below runs from one await point to the next.  A task that   *)
(* spawns a background future continues as that future.                     *)
(***************************************************************************)
EXTENDS Naturals, FiniteSets

CONSTANTS
    Sessions,           \* sessions in the active_sessions map
    Slots,              \* bound: how many futures of a session are in flight
    ActivePermits,      \* the permits of the active_agent semaphore
    SuspendedPermits,   \* the permits of the suspended_agent semaphore
    NoPermit, NoTask,
    Operations,         \* the operations clients call
    DbMayFail           \* whether repository writes may return an error

AllOperations == {"start", "inject", "resume", "pause", "cancel", "terminate",
                  "clear", "respond", "llmError", "uitool", "open"}

\* The futures working on session s are <<s, i>> for i in Slots.
Tasks == Sessions \X Slots
Sess(t) == t[1]

ASSUME GateAssumption ==
    /\ Operations \subseteq AllOperations
    /\ NoPermit \notin ActivePermits \cup SuspendedPermits
    /\ NoTask \notin Tasks
    /\ DbMayFail \in BOOLEAN

\* The semaphores have no permit in common.
ASSUME TwoSemaphores == ActivePermits \cap SuspendedPermits = {}

\* Finitely many futures run at a time.
ASSUME FiniteTasks == IsFiniteSet(Tasks)

\* SessionStatus, without Provisioning (which only Docker provisioning enters).
Statuses == {"Idle", "Busy", "Paused", "Error", "Queued"}
NoStatus == "None"

VARIABLES
    status,         \* [session -> metadata.status in memory]
    db,             \* [session -> status column of the sessions table]
    transition,     \* [session -> status_transition: the target, or NoStatus]
    lock,           \* [session -> holder of transition_lock, or NoTask]
    permit,         \* [session -> active_permit, or NoPermit]
    cancelPending,  \* [session -> cancel_pending]
    cancelled,      \* [session -> cancellation_token.is_cancelled()]
    expected,       \* [session -> expected_response_id.is_some()]
    batch,          \* [session -> task running pending_execution, or NoTask]
    token,          \* [task -> the cancellation token its tool loop cloned]
    freeActive,     \* available permits of active_agent
    freeSuspended,  \* available permits of suspended_agent
    op, pc,         \* [task -> operation, await point]
    target,         \* [task -> the `status` argument of the running update]
    held,           \* [task -> an active permit owned by a local variable]
    released,       \* [task -> released_permit of the running update]
    seat            \* [task -> the SuspendedAgentGuard's permit]

sessionVars == <<status, db, transition, lock, permit>>
flagVars    == <<cancelPending, cancelled, expected, batch, token>>
gateVars    == <<freeActive, freeSuspended>>
taskVars    == <<op, pc, target, held, released, seat>>
vars        == <<sessionVars, flagVars, gateVars, taskVars>>

\* The background task of the three operations that start a workflow.
Starters == {"start", "inject", "resume"}
\* Operations a task turns into: the trailing Error update of a background
\* task, the second settle_idle of /clear, the pause at a tool boundary, the
\* turn of an admitted UI tool call.
Continuations == {"startError", "lastError", "clearAgain", "boundary", "uitools"}
NoOp == "none"
OpNames == AllOperations \cup Continuations \cup {NoOp}

UpdatePcs == {"enter", "gate", "lock", "persist", "commit"}
AwaitPcs  == {"suspend", "waiting", "resume", "restore"}
PcNames   == UpdatePcs \cup AwaitPcs \cup
    {"done", "decide", "reset", "append", "bgAcquire", "bgPlace", "bgDrop",
     "request", "emit", "cancel", "flagTools", "flagStop", "cancelClear",
     "terminate", "terminateReset", "clear", "wipe", "respond", "consume",
     "markBusy", "outcome",
     "uitool", "tools", "toolSpawn", "toolLoop", "take", "toolsDone", "boundary",
     "openRead", "openWrite"}

\* A cloned token is the session's current one ("live"), or one the session
\* has replaced since, cancelled or not.
TokenNames == {"none", "live", "cancelled", "replaced"}

Init ==
    /\ status = [s \in Sessions |-> "Idle"]
    /\ db = [s \in Sessions |-> "Idle"]
    /\ transition = [s \in Sessions |-> NoStatus]
    /\ lock = [s \in Sessions |-> NoTask]
    /\ permit = [s \in Sessions |-> NoPermit]
    /\ cancelPending = [s \in Sessions |-> FALSE]
    /\ cancelled = [s \in Sessions |-> FALSE]
    /\ expected = [s \in Sessions |-> FALSE]
    /\ batch = [s \in Sessions |-> NoTask]
    /\ token = [t \in Tasks |-> "none"]
    /\ freeActive = ActivePermits
    /\ freeSuspended = SuspendedPermits
    /\ op = [t \in Tasks |-> NoOp]
    /\ pc = [t \in Tasks |-> "done"]
    /\ target = [t \in Tasks |-> NoStatus]
    /\ held = [t \in Tasks |-> NoPermit]
    /\ released = [t \in Tasks |-> NoPermit]
    /\ seat = [t \in Tasks |-> NoPermit]
-----------------------------------------------------------------------------
(* Control flow of a task.                                                  *)

\* Go on as operation o at await point p, with st the next status to write.
Go(t, o, p, st) ==
    /\ pc' = [pc EXCEPT ![t] = p]
    /\ op' = [op EXCEPT ![t] = IF p = "done" THEN NoOp ELSE o]
    /\ target' = [target EXCEPT ![t] = IF p = "done" THEN NoStatus ELSE st]

Goto(t, p) == Go(t, op[t], p, target[t])
Done(t) == Goto(t, "done")
\* Call update_session_status with argument st.
Update(t, st) == Go(t, op[t], "enter", st)

\* Where operation o goes on when its update to st returned Ok, or an error.
AfterOk(o, st) ==
    CASE o = "start" /\ st = "Queued"             -> "append"
      [] o \in {"inject", "resume"} /\ st = "Queued" -> "bgAcquire"
      [] o \in Starters /\ st = "Busy"            -> "request"
      [] o = "startError"                         -> "enter"
      [] o = "cancel"                             -> "cancelClear"
      [] o = "terminate"                          -> "terminateReset"
      [] o = "clear"                              -> "wipe"
      [] o \in {"respond", "uitools"} /\ st = "Busy" -> "tools"
      [] o = "uitool" /\ st = "Busy"              -> "outcome"
      [] OTHER                                    -> "done"

AfterErr(o, st) ==
    CASE o \in Starters /\ st = "Busy" -> "bgDrop"
      [] o = "startError"              -> "enter"
      [] o = "terminate"               -> "terminateReset"
      [] OTHER                         -> "done"

\* A background task whose LLM request failed writes Error twice: once in
\* settle_session_and_finalize_error, once in its own error branch.
NextOp(o, st) ==
    CASE o = "startError"              -> "lastError"
      [] o = "uitool" /\ st = "Busy"   -> "uitools"
      [] OTHER                         -> o

Return(t, ok) ==
    LET o == op[t] st == target[t]
    IN  Go(t, NextOp(o, st), IF ok THEN AfterOk(o, st) ELSE AfterErr(o, st), st)

\* session.cancellation_token = CancellationToken::new(): clones of the old
\* token keep it as it was.
FreshToken(s) ==
    /\ cancelled' = [cancelled EXCEPT ![s] = FALSE]
    /\ token' = [t \in Tasks |->
          IF Sess(t) # s \/ token[t] # "live" THEN token[t]
          ELSE IF cancelled[s] THEN "cancelled" ELSE "replaced"]

\* Mutant: releases a permit that was never taken.
DroppedBlindly(P) == P

\* Dropping permits returns them to the semaphore; NoPermit is not one.
Dropped(P) == P \ {NoPermit}

-----------------------------------------------------------------------------
(* update_session_status_with_dispatcher.                                   *)

\* Mutant: every update of a session without a permit goes through the gate.
UpdateEnterAlwaysGated(t) ==
    /\ pc[t] = "enter"
    /\ Goto(t, IF permit[Sess(t)] = NoPermit THEN "gate" ELSE "lock")
    /\ UNCHANGED <<sessionVars, flagVars, gateVars, held, released, seat>>

\* Decide under the read lock whether a permit has to be acquired first.
UpdateEnter(t) ==
    LET s == Sess(t)
        needsPermit == status[s] # "Busy" /\ target[t] = "Busy" /\ permit[s] = NoPermit
    IN  /\ pc[t] = "enter"
        /\ Goto(t, IF needsPermit THEN "gate" ELSE "lock")
        /\ UNCHANGED <<sessionVars, flagVars, gateVars, held, released, seat>>

\* gate.acquire_active_agent(), outside transition_lock.
UpdateGate(t) ==
    /\ pc[t] = "gate"
    /\ \E p \in freeActive :
        /\ freeActive' = freeActive \ {p}
        /\ held' = [held EXCEPT ![t] = p]
    /\ Goto(t, "lock")
    /\ UNCHANGED <<sessionVars, flagVars, freeSuspended, released, seat>>

\* Mutant: returns the error without clearing status_transition.
UpdateLockRefusedKeepsTransition(t) ==
    LET s == Sess(t) IN
    /\ pc[t] = "lock" /\ lock[s] = NoTask
    /\ status[s] # "Busy" /\ target[t] = "Busy"
    /\ permit[s] = NoPermit /\ held[t] = NoPermit
    /\ transition' = [transition EXCEPT ![s] = target[t]]
    /\ Return(t, FALSE)
    /\ UNCHANGED <<status, db, lock, permit, flagVars, gateVars, held, released, seat>>

\* Take transition_lock, re-read the status, publish the transition and move
\* the permits.  The three outcomes of the (is_prev_busy, is_next_busy) match:
\* entering Busy without any permit is an error, ...
UpdateLockRefused(t) ==
    LET s == Sess(t) IN
    /\ pc[t] = "lock" /\ lock[s] = NoTask
    /\ status[s] # "Busy" /\ target[t] = "Busy"
    /\ permit[s] = NoPermit /\ held[t] = NoPermit
    /\ Return(t, FALSE)
    /\ UNCHANGED <<sessionVars, flagVars, gateVars, held, released, seat>>

\* ... otherwise the pre-acquired permit is kept when the session enters Busy
\* without one and dropped in every other case, and leaving Busy takes the
\* session's permit into released_permit.
UpdateLock(t) ==
    LET s == Sess(t)
        entering == status[s] # "Busy" /\ target[t] = "Busy"
        leaving  == status[s] = "Busy" /\ target[t] # "Busy"
        keep     == entering /\ permit[s] = NoPermit
    IN  /\ pc[t] = "lock" /\ lock[s] = NoTask
        /\ ~(keep /\ held[t] = NoPermit)
        /\ lock' = [lock EXCEPT ![s] = t]
        /\ transition' = [transition EXCEPT ![s] = target[t]]
        /\ held' = [held EXCEPT ![t] = IF keep THEN @ ELSE NoPermit]
        /\ freeActive' = freeActive \cup (IF keep THEN {} ELSE Dropped({held[t]}))
        /\ released' = [released EXCEPT ![t] = IF leaving THEN permit[s] ELSE NoPermit]
        /\ permit' = [permit EXCEPT ![s] = IF leaving THEN NoPermit ELSE @]
        /\ Goto(t, "persist")
        /\ UNCHANGED <<status, db, flagVars, freeSuspended, seat>>

\* session_repo.update_status succeeds: the table changes before memory does.
UpdatePersist(t) ==
    /\ pc[t] = "persist"
    /\ db' = [db EXCEPT ![Sess(t)] = target[t]]
    /\ Goto(t, "commit")
    /\ UNCHANGED <<status, transition, lock, permit, flagVars, gateVars, held, released, seat>>

\* Mutant: the released permit is not put back.
UpdatePersistFailsForgets(t) ==
    LET s == Sess(t) IN
    /\ pc[t] = "persist" /\ DbMayFail
    /\ freeActive' = freeActive \cup Dropped({held[t]})
    /\ held' = [held EXCEPT ![t] = NoPermit]
    /\ released' = [released EXCEPT ![t] = NoPermit]
    /\ transition' = [transition EXCEPT ![s] = NoStatus]
    /\ lock' = [lock EXCEPT ![s] = NoTask]
    /\ Return(t, FALSE)
    /\ UNCHANGED <<status, db, permit, flagVars, freeSuspended, seat>>

\* Mutant: memory takes the new status although the write failed.
UpdatePersistFailsCommits(t) ==
    LET s == Sess(t) IN
    /\ pc[t] = "persist" /\ DbMayFail
    /\ status' = [status EXCEPT ![s] = target[t]]
    /\ freeActive' = freeActive \cup Dropped({held[t], released[t]})
    /\ held' = [held EXCEPT ![t] = NoPermit]
    /\ released' = [released EXCEPT ![t] = NoPermit]
    /\ transition' = [transition EXCEPT ![s] = NoStatus]
    /\ lock' = [lock EXCEPT ![s] = NoTask]
    /\ Return(t, FALSE)
    /\ UNCHANGED <<db, permit, flagVars, freeSuspended, seat>>

\* It fails: drop the acquired permit, put the released one back (dropping
\* whatever the session holds by then), clear the transition, unlock.
UpdatePersistFails(t) ==
    LET s == Sess(t)
        back == released[t] # NoPermit
    IN  /\ pc[t] = "persist" /\ DbMayFail
        /\ permit' = [permit EXCEPT ![s] = IF back THEN released[t] ELSE @]
        /\ freeActive' = freeActive \cup
              Dropped({held[t]} \cup (IF back THEN {permit[s]} ELSE {}))
        /\ held' = [held EXCEPT ![t] = NoPermit]
        /\ released' = [released EXCEPT ![t] = NoPermit]
        /\ transition' = [transition EXCEPT ![s] = NoStatus]
        /\ lock' = [lock EXCEPT ![s] = NoTask]
        /\ Return(t, FALSE)
        /\ UNCHANGED <<status, db, flagVars, freeSuspended, seat>>

\* Memory follows: install the acquired permit (dropping the one it replaces),
\* set the status, clear the transition; on return released_permit is dropped
\* and transition_lock freed.
UpdateCommit(t) ==
    LET s == Sess(t)
        install == held[t] # NoPermit
    IN  /\ pc[t] = "commit"
        /\ status' = [status EXCEPT ![s] = target[t]]
        /\ permit' = [permit EXCEPT ![s] = IF install THEN held[t] ELSE @]
        /\ freeActive' = freeActive \cup
              Dropped({released[t]} \cup (IF install THEN {permit[s]} ELSE {}))
        /\ held' = [held EXCEPT ![t] = NoPermit]
        /\ released' = [released EXCEPT ![t] = NoPermit]
        /\ transition' = [transition EXCEPT ![s] = NoStatus]
        /\ lock' = [lock EXCEPT ![s] = NoTask]
        /\ Return(t, TRUE)
        /\ UNCHANGED <<db, flagVars, freeSuspended, seat>>
-----------------------------------------------------------------------------
(* start_workflow, inject_messages and resume_workflow.                      *)

\* Entry points: the await point an operation begins at.
Entry(o) ==
    CASE o \in {"start", "inject"} -> "decide"
      [] o = "resume"              -> "reset"
      [] o \in {"pause", "llmError"} -> "enter"
      [] o = "open"                -> "openRead"
      [] OTHER                     -> o

\* A client (user command, delegating agent, scheduler, frontend) calls o.
\* handle_llm_error reads neither the status nor the response id.
Call(t, o) ==
    /\ pc[t] = "done"
    /\ Go(t, o, Entry(o), CASE o = "pause" -> "Paused" [] o = "llmError" -> "Error" [] OTHER -> NoStatus)
    /\ UNCHANGED <<sessionVars, flagVars, gateVars, held, released, seat>>

\* The session already runs, or is about to: the message goes to the pending
\* queue.  Otherwise the workflow is started; the read lock is released.
StartDecide(t) ==
    LET s == Sess(t)
        running == status[s] \in {"Busy", "Queued"} \/ transition[s] \in {"Busy", "Queued"}
    IN  /\ pc[t] = "decide"
        /\ Goto(t, IF running THEN "done" ELSE "reset")
        /\ UNCHANGED <<sessionVars, flagVars, gateVars, held, released, seat>>

\* reset_session_execution_state, then the update to Queued; resume_workflow
\* first loads the message cache, which may fail.
ResetExecution(t) ==
    /\ pc[t] = "reset"
    /\ cancelPending' = [cancelPending EXCEPT ![Sess(t)] = FALSE]
    /\ FreshToken(Sess(t))
    /\ \/ Update(t, "Queued")
       \/ op[t] = "resume" /\ DbMayFail /\ Done(t)
    /\ UNCHANGED <<sessionVars, expected, batch, gateVars, held, released, seat>>

\* start_workflow stores the user message after the session is Queued; when
\* that fails it returns the error and no background task is spawned.
StartAppend(t) ==
    /\ pc[t] = "append"
    /\ \/ Goto(t, "bgAcquire")
       \/ DbMayFail /\ Done(t)
    /\ UNCHANGED <<sessionVars, flagVars, gateVars, held, released, seat>>

\* Background task: wait for an active permit ...
BackgroundAcquire(t) ==
    /\ pc[t] = "bgAcquire"
    /\ \E p \in freeActive :
        /\ freeActive' = freeActive \ {p}
        /\ held' = [held EXCEPT ![t] = p]
    /\ Goto(t, "bgPlace")
    /\ UNCHANGED <<sessionVars, flagVars, freeSuspended, released, seat>>

\* ... give up when the session was cancelled or left Queued meanwhile ...
BackgroundAbort(t) ==
    LET s == Sess(t) IN
    /\ pc[t] = "bgPlace"
    /\ cancelled[s] \/ status[s] # "Queued"
    /\ freeActive' = freeActive \cup {held[t]}
    /\ held' = [held EXCEPT ![t] = NoPermit]
    /\ Done(t)
    /\ UNCHANGED <<sessionVars, flagVars, freeSuspended, released, seat>>

\* ... or store the permit in the session, dropping the one it replaces, and
\* go on to Busy.
BackgroundPlace(t) ==
    LET s == Sess(t) IN
    /\ pc[t] = "bgPlace"
    /\ ~cancelled[s] /\ status[s] = "Queued"
    /\ freeActive' = freeActive \cup Dropped({permit[s]})
    /\ permit' = [permit EXCEPT ![s] = held[t]]
    /\ held' = [held EXCEPT ![t] = NoPermit]
    /\ Update(t, "Busy")
    /\ UNCHANGED <<status, db, transition, lock, flagVars, freeSuspended, released, seat>>

\* The update to Busy failed: drop the session's permit.
BackgroundDrop(t) ==
    LET s == Sess(t) IN
    /\ pc[t] = "bgDrop"
    /\ freeActive' = freeActive \cup Dropped({permit[s]})
    /\ permit' = [permit EXCEPT ![s] = NoPermit]
    /\ Done(t)
    /\ UNCHANGED <<status, db, transition, lock, flagVars, freeSuspended, held, released, seat>>

-----------------------------------------------------------------------------
(* request_llm_completion_with_recovery and handle_llm_response.             *)

\* The error branch of a failed request: the session goes to Error whatever
\* its status is.
RequestFails(t) ==
    Go(t, IF op[t] \in Starters THEN "startError" ELSE op[t], "enter", "Error")

\* validate_session_status; preparing the request (proxy, prompt, database)
\* may fail as well.
Request(t) ==
    LET s == Sess(t)
        valid == ~cancelPending[s] /\ ~cancelled[s] /\ status[s] = "Busy"
    IN  /\ pc[t] = "request"
        /\ \/ valid /\ Goto(t, "emit")
           \/ RequestFails(t)
        /\ UNCHANGED <<sessionVars, flagVars, gateVars, held, released, seat>>

\* ensure_proxy_ready of a background task fails: one update to Error.
ProxyFails(t) ==
    /\ pc[t] = "request" /\ op[t] \in Starters
    /\ Go(t, "lastError", "enter", "Error")
    /\ UNCHANGED <<sessionVars, flagVars, gateVars, held, released, seat>>

\* generate_response_message_id and the event to the frontend; the task ends,
\* the loop goes on when the frontend calls handle_llm_response.
EmitRequest(t) ==
    /\ pc[t] = "emit"
    /\ expected' = [expected EXCEPT ![Sess(t)] = TRUE]
    /\ Done(t)
    /\ UNCHANGED <<sessionVars, cancelPending, cancelled, batch, token, gateVars, held, released, seat>>

\* inspect_response_admission for the answer of an LLM to a Busy session.
Respond(t) ==
    LET s == Sess(t)
        admitted == ~cancelled[s] /\ ~cancelPending[s] /\ status[s] = "Busy"
    IN  /\ pc[t] = "respond"
        /\ Goto(t, IF admitted THEN "consume" ELSE "done")
        /\ UNCHANGED <<sessionVars, flagVars, gateVars, held, released, seat>>

\* consume_expected_response_id: a superseded answer is rejected.
ConsumeExpected(t) ==
    LET s == Sess(t) IN
    /\ pc[t] = "consume"
    /\ expected' = [expected EXCEPT ![s] = FALSE]
    /\ Goto(t, IF expected[s] THEN "outcome" ELSE "done")
    /\ UNCHANGED <<sessionVars, cancelPending, cancelled, batch, token, gateVars, held, released, seat>>

\* inspect_response_admission for tool calls that reach a session at rest: the
\* user interface injects them, or a late LLM answer contains them.
RespondUiTool(t) ==
    LET s == Sess(t)
        admitted == ~cancelled[s] /\ ~cancelPending[s] /\ status[s] \in {"Idle", "Paused"}
    IN  /\ pc[t] = "uitool"
        /\ Goto(t, IF admitted THEN "markBusy" ELSE "done")
        /\ UNCHANGED <<sessionVars, flagVars, gateVars, held, released, seat>>

\* clear_cancel_pending_flag and the update to Busy; no id is checked.
MarkBusy(t) ==
    /\ pc[t] = "markBusy"
    /\ cancelPending' = [cancelPending EXCEPT ![Sess(t)] = FALSE]
    /\ Update(t, "Busy")
    /\ UNCHANGED <<sessionVars, cancelled, expected, batch, token, gateVars, held, released, seat>>

\* The answer is unusable: the LLM is asked again, or the session goes to
\* Error.  Prompts that wait and a final answer that cannot be stored take the
\* same two ways.
OutcomeRetry(t) ==
    /\ pc[t] = "outcome"
    /\ Goto(t, "request") \/ Update(t, "Error")
    /\ UNCHANGED <<sessionVars, flagVars, gateVars, held, released, seat>>

\* Race mitigation, then tool calls (the status is written again) or a final
\* answer (settle_session_and_go_idle).  The handler just returns when the
\* answer cannot be stored, and when prompts that waited for a final answer are
\* gone by the time it asks again (PromptQueue).
Outcome(t) ==
    LET s == Sess(t) IN
    /\ pc[t] = "outcome"
    /\ \/ cancelled[s] /\ Done(t)
       \/ ~cancelled[s] /\ Update(t, "Busy")
       \/ ~cancelled[s] /\ op[t] = "respond" /\ Update(t, "Idle")
       \/ ~cancelled[s] /\ (DbMayFail \/ op[t] = "respond") /\ Done(t)
    /\ UNCHANGED <<sessionVars, flagVars, gateVars, held, released, seat>>

\* initialize_pending_execution; execute_tool_calls is spawned ...
InitializeTools(t) ==
    /\ pc[t] = "tools"
    /\ batch' = [batch EXCEPT ![Sess(t)] = t]
    /\ Goto(t, "toolSpawn")
    /\ UNCHANGED <<sessionVars, cancelPending, cancelled, expected, token, gateVars, held, released, seat>>

\* ... and clones the session's token.
ToolSpawn(t) ==
    /\ pc[t] = "toolSpawn"
    /\ token' = [token EXCEPT ![t] = "live"]
    /\ Goto(t, "toolLoop")
    /\ UNCHANGED <<sessionVars, cancelPending, cancelled, expected, batch, gateVars, held, released, seat>>

\* execute_tool_calls: when cancel is requested the remaining calls get
\* tombstones; otherwise they run, one after the other, and any of them may be
\* checkSession(wait=true).
ToolLoop(t) ==
    LET s == Sess(t)
        tokenCancelled == token[t] = "cancelled" \/ (token[t] = "live" /\ cancelled[s])
    IN  /\ pc[t] = "toolLoop"
        /\ \/ Goto(t, "toolsDone")
           \/ ~tokenCancelled /\ ~cancelPending[s] /\ Goto(t, "take")
        /\ UNCHANGED <<sessionVars, flagVars, gateVars, held, released, seat>>
-----------------------------------------------------------------------------
(* checkSession(wait=true).                                                 *)

\* Mutant: the permit stays in the session as well.
AwaitTakeCopies(t) ==
    LET s == Sess(t) IN
    /\ pc[t] = "take"
    /\ held' = [held EXCEPT ![t] = permit[s]]
    /\ Goto(t, IF permit[s] = NoPermit THEN "toolLoop" ELSE "suspend")
    /\ UNCHANGED <<sessionVars, flagVars, gateVars, released, seat>>

\* take_active_session_permit; without a permit the tool returns an error.
AwaitTake(t) ==
    LET s == Sess(t) IN
    /\ pc[t] = "take"
    /\ held' = [held EXCEPT ![t] = permit[s]]
    /\ permit' = [permit EXCEPT ![s] = NoPermit]
    /\ Goto(t, IF permit[s] = NoPermit THEN "toolLoop" ELSE "suspend")
    /\ UNCHANGED <<status, db, transition, lock, flagVars, gateVars, released, seat>>

\* suspend_agent: a suspended permit first, then the active one is dropped.
AwaitSuspend(t) ==
    /\ pc[t] = "suspend"
    /\ \E q \in freeSuspended :
        /\ freeSuspended' = freeSuspended \ {q}
        /\ seat' = [seat EXCEPT ![t] = q]
    /\ freeActive' = freeActive \cup {held[t]}
    /\ held' = [held EXCEPT ![t] = NoPermit]
    /\ Goto(t, "waiting")
    /\ UNCHANGED <<sessionVars, flagVars, released>>

\* Mutant: a wait that ends early returns without resuming.
AwaitWakeForgetsResume(t) ==
    /\ pc[t] = "waiting"
    /\ Goto(t, "toolLoop")
    /\ UNCHANGED <<sessionVars, flagVars, gateVars, held, released, seat>>

\* Mutant: the suspended permit is dropped before the active one is acquired.
AwaitWakeDropsFirst(t) ==
    /\ pc[t] = "waiting"
    /\ Goto(t, "resume")
    /\ freeSuspended' = freeSuspended \cup {seat[t]}
    /\ UNCHANGED <<sessionVars, flagVars, freeActive, held, released, seat>>

\* wait_until_session_terminal returns: the child is done, the caller was
\* cancelled, or the wait timed out.
AwaitWake(t) ==
    /\ pc[t] = "waiting"
    /\ Goto(t, "resume")
    /\ UNCHANGED <<sessionVars, flagVars, gateVars, held, released, seat>>

\* SuspendedAgentGuard::resume: an active permit first, then the suspended
\* one is dropped.
AwaitResume(t) ==
    /\ pc[t] = "resume"
    /\ \E p \in freeActive :
        /\ freeActive' = freeActive \ {p}
        /\ held' = [held EXCEPT ![t] = p]
    /\ freeSuspended' = freeSuspended \cup {seat[t]}
    /\ seat' = [seat EXCEPT ![t] = NoPermit]
    /\ Goto(t, "restore")
    /\ UNCHANGED <<sessionVars, flagVars, released>>

\* restore_active_session_permit: whatever the session's status is by now.
AwaitRestore(t) ==
    LET s == Sess(t) IN
    /\ pc[t] = "restore"
    /\ freeActive' = freeActive \cup Dropped({permit[s]})
    /\ permit' = [permit EXCEPT ![s] = held[t]]
    /\ held' = [held EXCEPT ![t] = NoPermit]
    /\ Goto(t, "toolLoop")
    /\ UNCHANGED <<status, db, transition, lock, flagVars, freeSuspended, released, seat>>

-----------------------------------------------------------------------------
(* continue_workflow_after_tool, for the last result of a batch.             *)

\* A result that does not belong to pending_execution is ignored.
ToolsStale(t) ==
    /\ pc[t] = "toolsDone" /\ batch[Sess(t)] # t
    /\ token' = [token EXCEPT ![t] = "none"]
    /\ Done(t)
    /\ UNCHANGED <<sessionVars, cancelPending, cancelled, expected, batch, gateVars, held, released, seat>>

\* The batch is over: pending_execution is cleared, the results are stored and
\* a cancelled token ends the continuation.  When they cannot be stored the
\* error is returned and the session stays as it is.
ToolsDone(t) ==
    LET s == Sess(t) IN
    /\ pc[t] = "toolsDone" /\ batch[s] = t
    /\ batch' = [batch EXCEPT ![s] = NoTask]
    /\ token' = [token EXCEPT ![t] = "none"]
    /\ \/ Goto(t, IF cancelled[s] THEN "done" ELSE "boundary")
       \/ DbMayFail /\ Done(t)
    /\ UNCHANGED <<sessionVars, cancelPending, cancelled, expected, gateVars, held, released, seat>>

\* A result that cannot be externalized fails before the batch is touched: the
\* session goes to Error.
ToolsFail(t) ==
    /\ pc[t] = "toolsDone" /\ DbMayFail
    /\ token' = [token EXCEPT ![t] = "none"]
    /\ Update(t, "Error")
    /\ UNCHANGED <<sessionVars, cancelPending, cancelled, expected, batch, gateVars, held, released, seat>>

\* A cancel that arrived since is consumed and pauses the session.
BoundaryCancel(t) ==
    LET s == Sess(t) IN
    /\ pc[t] = "boundary" /\ cancelPending[s]
    /\ cancelPending' = [cancelPending EXCEPT ![s] = FALSE]
    /\ FreshToken(s)
    /\ Go(t, "boundary", "enter", "Paused")
    /\ UNCHANGED <<sessionVars, expected, batch, gateVars, held, released, seat>>

\* Otherwise a UI resource stops the loop at Idle, and a session that is still
\* Busy asks the LLM again.
BoundaryContinue(t) ==
    LET s == Sess(t) IN
    /\ pc[t] = "boundary" /\ ~cancelPending[s]
    /\ \/ Update(t, "Idle")
       \/ Goto(t, IF status[s] = "Busy" THEN "request" ELSE "done")
    /\ UNCHANGED <<sessionVars, flagVars, gateVars, held, released, seat>>
-----------------------------------------------------------------------------
(* cancel_workflow, terminate_session, reset_session, resume_session.        *)

\* Read the status and whether tools run.  At rest only a stale frontend
\* completion is aborted.
CancelRead(t) ==
    LET s == Sess(t)
        atRest == status[s] \in {"Idle", "Paused", "Error"}
    IN  /\ pc[t] = "cancel"
        /\ expected' = [expected EXCEPT ![s] = @ /\ ~atRest]
        /\ Goto(t, IF atRest THEN "done"
                   ELSE IF batch[s] = NoTask THEN "flagStop" ELSE "flagTools")
        /\ UNCHANGED <<sessionVars, cancelPending, cancelled, batch, token, gateVars, held, released, seat>>

\* Signal the cancel; without a tool batch pause at once.
CancelFlag(t) ==
    LET s == Sess(t) IN
    /\ pc[t] \in {"flagTools", "flagStop"}
    /\ cancelPending' = [cancelPending EXCEPT ![s] = TRUE]
    /\ cancelled' = [cancelled EXCEPT ![s] = TRUE]
    /\ expected' = [expected EXCEPT ![s] = FALSE]
    /\ IF pc[t] = "flagTools" THEN Done(t) ELSE Update(t, "Paused")
    /\ UNCHANGED <<sessionVars, batch, token, gateVars, held, released, seat>>

\* Paused: the flag is cleared, the token stays cancelled.
CancelClear(t) ==
    /\ pc[t] = "cancelClear"
    /\ cancelPending' = [cancelPending EXCEPT ![Sess(t)] = FALSE]
    /\ Done(t)
    /\ UNCHANGED <<sessionVars, cancelled, expected, batch, token, gateVars, held, released, seat>>

Terminate(t) ==
    LET s == Sess(t) IN
    /\ pc[t] = "terminate"
    /\ expected' = [expected EXCEPT ![s] = FALSE]
    /\ cancelPending' = [cancelPending EXCEPT ![s] = TRUE]
    /\ cancelled' = [cancelled EXCEPT ![s] = TRUE]
    /\ Update(t, "Idle")
    /\ UNCHANGED <<sessionVars, batch, token, gateVars, held, released, seat>>

\* Whether or not the update succeeded: a fresh token, no cancel pending.
TerminateReset(t) ==
    LET s == Sess(t) IN
    /\ pc[t] = "terminateReset"
    /\ cancelPending' = [cancelPending EXCEPT ![s] = FALSE]
    /\ FreshToken(s)
    /\ Done(t)
    /\ UNCHANGED <<sessionVars, expected, batch, gateVars, held, released, seat>>

\* /clear: cancel the token and settle to Idle ...
Clear(t) ==
    /\ pc[t] = "clear"
    /\ cancelled' = [cancelled EXCEPT ![Sess(t)] = TRUE]
    /\ Update(t, "Idle")
    /\ UNCHANGED <<sessionVars, cancelPending, expected, batch, token, gateVars, held, released, seat>>

\* ... wipe the transcript and the runtime state, then cancel and settle again.
ClearWipe(t) ==
    LET s == Sess(t) IN
    /\ pc[t] = "wipe"
    /\ batch' = [batch EXCEPT ![s] = NoTask]
    /\ expected' = [expected EXCEPT ![s] = FALSE]
    /\ cancelled' = [cancelled EXCEPT ![s] = TRUE]
    /\ Go(t, "clearAgain", "enter", "Idle")
    /\ UNCHANGED <<sessionVars, cancelPending, token, gateVars, held, released, seat>>

\* The rows cannot be deleted: /clear returns the error half way.
ClearFails(t) ==
    /\ pc[t] = "wipe" /\ DbMayFail
    /\ Done(t)
    /\ UNCHANGED <<sessionVars, flagVars, gateVars, held, released, seat>>

\* resume_session of a session in memory: read the row, later replace the
\* metadata, status included, by what was read.
OpenRead(t) ==
    /\ pc[t] = "openRead"
    /\ Go(t, op[t], "openWrite", db[Sess(t)])
    /\ UNCHANGED <<sessionVars, flagVars, gateVars, held, released, seat>>

OpenWrite(t) ==
    /\ pc[t] = "openWrite"
    /\ status' = [status EXCEPT ![Sess(t)] = target[t]]
    /\ Done(t)
    /\ UNCHANGED <<db, transition, lock, permit, flagVars, gateVars, held, released, seat>>
-----------------------------------------------------------------------------
\* Steps of a task that wait for a permit of the gate.
GateStep(t) ==
    UpdateGate(t) \/ BackgroundAcquire(t) \/ AwaitSuspend(t) \/ AwaitResume(t)

\* Steps that wait for transition_lock.
LockStep(t) == UpdateLock(t) \/ UpdateLockRefused(t)

\* Steps that wait for nothing but the executor and the database.
LocalStep(t) ==
    \/ UpdateEnter(t) \/ UpdatePersist(t) \/ UpdatePersistFails(t) \/ UpdateCommit(t)
    \/ StartDecide(t) \/ ResetExecution(t) \/ StartAppend(t)
    \/ BackgroundAbort(t) \/ BackgroundPlace(t) \/ BackgroundDrop(t)
    \/ ProxyFails(t) \/ Request(t) \/ EmitRequest(t) \/ Respond(t) \/ ConsumeExpected(t)
    \/ RespondUiTool(t) \/ MarkBusy(t) \/ OutcomeRetry(t) \/ Outcome(t)
    \/ InitializeTools(t) \/ ToolSpawn(t) \/ ToolLoop(t) \/ AwaitTake(t) \/ AwaitRestore(t)
    \/ ToolsStale(t) \/ ToolsDone(t) \/ ToolsFail(t) \/ BoundaryCancel(t) \/ BoundaryContinue(t)
    \/ CancelRead(t) \/ CancelFlag(t) \/ CancelClear(t)
    \/ Terminate(t) \/ TerminateReset(t) \/ Clear(t) \/ ClearWipe(t) \/ ClearFails(t)
    \/ OpenRead(t) \/ OpenWrite(t)

Next ==
    \E t \in Tasks :
        \/ \E o \in Operations : Call(t, o)
        \/ GateStep(t)
        \/ LockStep(t)
        \/ LocalStep(t)
        \/ AwaitWake(t)

Spec == Init /\ [][Next]_vars

\* tokio runs every ready task and its Mutex is FIFO: a task that waits for
\* transition_lock gets it if it is freed again and again.  Nothing is assumed
\* of the gate: other sessions may keep every permit for ever.
Fairness == \A t \in Tasks : WF_vars(LocalStep(t)) /\ SF_vars(LockStep(t))

FairSpec == Spec /\ Fairness
-----------------------------------------------------------------------------
(* The gate as PermitPool sees it.                                          *)

\* The permits of session s: its entry's and those of its futures.
Owned(s) ==
    {p \in ActivePermits \cup SuspendedPermits :
        permit[s] = p \/ \E t \in Tasks : Sess(t) = s /\ p \in {held[t], released[t], seat[t]}}

Pool == INSTANCE PermitPool WITH free  <- freeActive \cup freeSuspended,
                                 owned <- [s \in Sessions |-> Owned(s)]
-----------------------------------------------------------------------------
(* Properties.                                                              *)

\* Type invariant: the semaphores hold only permits they were created with,
\* statuses are those of SessionStatus, await points those of the code.
TypeOK ==
    /\ status \in [Sessions -> Statuses]
    /\ db \in [Sessions -> Statuses]
    /\ transition \in [Sessions -> Statuses \cup {NoStatus}]
    /\ lock \in [Sessions -> Tasks \cup {NoTask}]
    /\ permit \in [Sessions -> ActivePermits \cup {NoPermit}]
    /\ cancelPending \in [Sessions -> BOOLEAN]
    /\ cancelled \in [Sessions -> BOOLEAN]
    /\ expected \in [Sessions -> BOOLEAN]
    /\ batch \in [Sessions -> Tasks \cup {NoTask}]
    /\ token \in [Tasks -> TokenNames]
    /\ freeActive \subseteq ActivePermits
    /\ freeSuspended \subseteq SuspendedPermits
    /\ op \in [Tasks -> OpNames]
    /\ pc \in [Tasks -> PcNames]
    /\ target \in [Tasks -> Statuses \cup {NoStatus}]
    /\ held \in [Tasks -> ActivePermits \cup {NoPermit}]
    /\ released \in [Tasks -> ActivePermits \cup {NoPermit}]
    /\ seat \in [Tasks -> SuspendedPermits \cup {NoPermit}]

\* No permit of either semaphore is in two places at once: a permit that is
\* free, stored in a session, owned by a local variable of a future or taken
\* out of a session that leaves Busy is in none of the other places.  Two
\* owners would be a double release (concurrency.rs, management.rs:291-355).
NoDoubleOwner ==
    /\ \A s \in Sessions : permit[s] \notin freeActive
    /\ \A t \in Tasks : held[t] \notin freeActive /\ released[t] \notin freeActive
    /\ \A s1, s2 \in Sessions : permit[s1] = permit[s2] => s1 = s2 \/ permit[s1] = NoPermit
    /\ \A s \in Sessions, t \in Tasks : permit[s] \in {held[t], released[t]} => permit[s] = NoPermit
    /\ \A t1, t2 \in Tasks : held[t1] = released[t2] => held[t1] = NoPermit
    /\ \A t1, t2 \in Tasks : held[t1] = held[t2] => t1 = t2 \/ held[t1] = NoPermit
    /\ \A t1, t2 \in Tasks : released[t1] = released[t2] => t1 = t2 \/ released[t1] = NoPermit
    /\ \A t \in Tasks : seat[t] \notin freeSuspended
    /\ \A t1, t2 \in Tasks : seat[t1] = seat[t2] => t1 = t2 \/ seat[t1] = NoPermit

\* No permit disappears: each one is free or has an owner that will drop it
\* (a permit overwritten in a session is released, error branches give back).
NoLostPermit ==
    /\ \A p \in ActivePermits :
        \/ p \in freeActive
        \/ \E s \in Sessions : permit[s] = p
        \/ \E t \in Tasks : held[t] = p \/ released[t] = p
    /\ \A q \in SuspendedPermits : q \in freeSuspended \/ \E t \in Tasks : seat[t] = q

\* The operations use the gate as PermitPool says, through every error branch:
\* no permit passes from one session to another without having been free, and
\* a session that waits in checkSession trades its permits, so that it neither
\* keeps both nor is left with none (concurrency.rs:64-127).
ImplementsPool == Pool!PoolSpec

\* transition_lock is held exactly by the task between its read of the
\* previous status and its commit, and status_transition announces exactly
\* that task's target; start_workflow relies on it to see a session that is
\* about to be Queued or Busy.
TransitionAnnounced ==
    \A s \in Sessions :
        /\ \A t \in Tasks : lock[s] = t <=> Sess(t) = s /\ pc[t] \in {"persist", "commit"}
        /\ transition[s] = IF lock[s] = NoTask THEN NoStatus ELSE target[lock[s]]

\* Memory and table agree on the status of every session that is not in the
\* middle of a transition, even when writes fail half way.
MemoryMatchesDb ==
    \A s \in Sessions :
        status[s] # db[s] => lock[s] # NoTask /\ pc[lock[s]] = "commit" /\ db[s] = target[lock[s]]

\* No matter how long the gate stays full, a pause, cancel, terminate or
\* /clear that was called returns.
StopOperations == {"pause", "cancel", "terminate", "clear", "clearAgain"}
StopReturns ==
    \A t \in Tasks : (op[t] \in StopOperations) ~> (op[t] \notin StopOperations)

\* Waits of checkSession that own or need permits of both semaphores.
Waiters == {t \in Tasks : pc[t] \in {"suspend", "waiting", "resume"}}

\* Every active permit is owned by a wait that needs a suspended permit, and
\* no suspended permit is free: those waits need an active permit.
Wedged ==
    /\ \A p \in ActivePermits : \E t \in Tasks : pc[t] = "suspend" /\ held[t] = p
    /\ freeSuspended = {}

\* The two-phase gate can block for good only when as many waits are under way
\* as both semaphores have permits together (concurrency.rs:117-127, 64-73).
WedgeNeedsCrowd ==
    Wedged => Cardinality(Waiters) >= Cardinality(ActivePermits) + Cardinality(SuspendedPermits)

\* Nothing resolves such a state: no cancel, terminate, /clear, timeout or
\* failing write frees a permit again.
WedgeIsForever == [][Wedged => Wedged']_vars

\* No operation is under way for s.
Quiet(s) == \A t \in Tasks : Sess(t) = s => pc[t] = "done"

\* A cancel requested during a tool batch is consumed when the batch is over:
\* no session stays Busy with its cancel pending and nothing under way
\* (workflow/tool.rs:90-94).
CancelConsumed ==
    \A s \in Sessions : Quiet(s) /\ status[s] = "Busy" /\ batch[s] = NoTask => ~cancelPending[s]
=============================================================================
