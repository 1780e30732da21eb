------------------------------ MODULE ToolBatch ------------------------------
(***************************************************************************)
(* The tool calls of one session.  Each LLM answer with tool calls spawns   *)
(* an `execute_tool_calls` loop that runs them one after the other          *)
(* (agent/llm/tool_execution.rs), asks the user to approve the sensitive    *)
(* ones (agent/session_manager/approvals.rs, execution_mode.rs) and hands   *)
(* every result to `continue_workflow_after_tool`, which counts it against  *)
(* pending_execution and asks the LLM again when the batch is complete      *)
(* (agent/tools.rs, agent/workflow/tool.rs).  Meanwhile the user cancels,   *)
(* terminates, clears or restarts the session, changes its execution mode   *)
(* and answers approvals, and a client may hand in results of its own.      *)
(*                                                                         *)
(* Turn n is the n-th answer with tool calls, loop n its executor and       *)
(* <<n, i>> the id of its i-th call (providers number calls uniquely).      *)
(* Status updates are single steps that succeed, a restart needs no permit  *)
(* (SessionGate has both in detail), and no prompt waits (PromptQueue).     *)
(***************************************************************************)
EXTENDS Naturals, FiniteSets

CONSTANTS
    MaxTurns,      \* bound: answers with tool calls
    MaxCalls,      \* bound: tool calls of one answer
    Policies,      \* what evaluate_tool_execution_policy may say of a call
    ModeChanges,   \* the execution modes the user may set
    Setters,       \* bound: set_execution_mode calls under way at once
    Stops,         \* the stop operations the user may call
    MayFail,       \* whether storing a result or a mode may fail
    MaxCommands,   \* bound: stops, restarts, mode changes and results of clients
    MayHandIn      \* whether clients call agent_handle_tool_result

AllPolicies == {"refuse", "allow", "standard", "hard", "block"}
AllModes == {"normal", "yolo", "unsafe"}

ASSUME ToolAssumption ==
    /\ MaxTurns \in Nat /\ MaxCalls \in Nat /\ MaxCommands \in Nat
    /\ Policies \subseteq AllPolicies
    /\ ModeChanges \subseteq AllModes
    /\ Stops \subseteq {"cancel", "terminate", "clear"}
    /\ MayFail \in BOOLEAN /\ MayHandIn \in BOOLEAN

Turns == 1..MaxTurns
Calls == Turns \X (1..MaxCalls)
Turn(c) == c[1]
\* The futures that hand in results: the loops and one client.
Client == 0
Tasks == Turns \cup {Client}

VARIABLES
    status,         \* metadata.status
    expected,       \* expected_response_id.is_some(): the LLM was asked
    cancelPending,  \* cancel_pending
    cancelled,      \* cancellation_token.is_cancelled()
    pending,        \* pending_execution, or NoBatch
    turn,           \* answers with tool calls so far
    size,           \* [turn -> number of its calls]
    posted,         \* [call -> tool messages in the transcript]
    approvals,      \* keys of pending_approvals
    channel,        \* [call -> its oneshot channel]
    task,           \* [task -> its local state]
    policy,         \* [call -> its policy decision, "unset" before]
    mode, stored,   \* execution_mode in memory and in the sessions table
    setter,         \* [setter -> local state of set_execution_mode]
    stop,           \* await point of the stop operation under way
    restart,        \* await point of start_workflow or resume_workflow
    commands,       \* commands of the user and of clients so far
    ran,            \* history: calls that were executed
    consent,        \* history: [call -> who approved it]
    late,           \* history: [turn -> calls begun after its token was cancelled]
    unstored        \* history: calls whose result could not be stored

sessionVars == <<status, expected, cancelPending, cancelled>>
batchVars   == <<pending, turn, size, posted>>
askVars     == <<approvals, channel>>
modeVars    == <<mode, stored, setter>>
history     == <<ran, consent, late, unstored>>
vars == <<sessionVars, batchVars, askVars, task, policy, modeVars, stop, restart, commands, history>>

NoCall == <<0, 0>>
NoBatch == [turn |-> 0, total |-> 0, done |-> {}]
NewTask == [pc |-> "none", call |-> NoCall, token |-> "none", tombs |-> FALSE, unsafe |-> FALSE]
IdleSetter == [pc |-> "none", old |-> "normal", new |-> "normal", ids |-> {}]

TaskPcs == {"none", "wakeUp", "admitted", "markBusy", "initialize", "spawn",
            "check", "unsafe", "yolo", "register", "await", "run", "running",
            "deliver", "inject", "injectLast", "boundary", "flag", "pause", "request", "emit", "next", "end"}
StopPcs == {"none", "cancel", "signal", "signalPause", "abort", "abortPause", "pause",
            "pauseClear", "terminate", "idle", "reset", "clear", "wipe", "settle"}

Init ==
    /\ status = "Busy" /\ expected = TRUE
    /\ cancelPending = FALSE /\ cancelled = FALSE
    /\ pending = NoBatch /\ turn = 0
    /\ size = [n \in Turns |-> 0] /\ posted = [c \in Calls |-> 0]
    /\ approvals = {} /\ channel = [c \in Calls |-> "none"]
    /\ task = [t \in Tasks |-> NewTask]
    /\ policy = [c \in Calls |-> "unset"]
    /\ mode = "normal" /\ stored = "normal"
    /\ setter = [s \in Setters |-> IdleSetter]
    /\ stop = "none" /\ restart = "none" /\ commands = 0
    /\ ran = {} /\ consent = [c \in Calls |-> "none"]
    /\ late = [n \in Turns |-> 0] /\ unstored = {}
-----------------------------------------------------------------------------
At(t, p) == task[t].pc = p
Goto(t, p) == task' = [task EXCEPT ![t].pc = p]
CallsOf(n) == {n} \X (1..size[n])

\* One more call from outside.
Command == commands < MaxCommands /\ commands' = commands + 1

\* The tasks once the session has a new token: clones of the old one stay as
\* they are.
Detached(tasks) ==
    [t \in Tasks |-> IF tasks[t].token # "live" THEN tasks[t]
                     ELSE [tasks[t] EXCEPT !.token = IF cancelled THEN "cancelled" ELSE "replaced"]]

\* The token loop n cloned is cancelled.
TokenCancelled(n) == task[n].token = "cancelled" \/ (task[n].token = "live" /\ cancelled)

\* Mutant: only the flag is asked, which a restart clears.
FlagOnly(n) == cancelPending

\* session_cancel_requested.
CancelRequested(n) == TokenCancelled(n) \/ cancelPending
-----------------------------------------------------------------------------
(* handle_llm_response for an answer with tool calls.                        *)

\* inspect_response_admission and consume_expected_response_id.  A session at
\* rest admits tool calls without a look at the response id.
Respond(k) ==
    LET n == turn + 1 IN
    /\ turn < MaxTurns /\ ~cancelled /\ ~cancelPending
    /\ \/ status = "Busy" /\ expected /\ expected' = FALSE /\ Goto(n, "admitted")
       \/ status \in {"Idle", "Paused"} /\ Goto(n, "wakeUp") /\ UNCHANGED expected
    /\ turn' = n /\ size' = [size EXCEPT ![n] = k]
    /\ UNCHANGED <<status, cancelPending, cancelled, pending, posted, askVars, policy, modeVars, stop, restart, commands, history>>

\* clear_cancel_pending_flag and the status of a session that was at rest.
WakeUp(n) ==
    /\ At(n, "wakeUp")
    /\ cancelPending' = FALSE /\ status' = "Busy"
    /\ Goto(n, "admitted")
    /\ UNCHANGED <<expected, cancelled, batchVars, askVars, policy, modeVars, stop, restart, commands, history>>

\* An answer to a session cancelled meanwhile is dropped ...
CheckDropped(n) ==
    /\ At(n, "admitted")
    /\ Goto(n, IF cancelled THEN "end" ELSE "markBusy")
    /\ UNCHANGED <<sessionVars, batchVars, askVars, policy, modeVars, stop, restart, commands, history>>

\* ... otherwise the message is stored and the status written again.
MarkBusy(n) ==
    /\ At(n, "markBusy")
    /\ status' = "Busy"
    /\ Goto(n, "initialize")
    /\ UNCHANGED <<expected, cancelPending, cancelled, batchVars, askVars, policy, modeVars, stop, restart, commands, history>>

\* Whatever batch was pending is replaced.
InitializePending(n) ==
    /\ At(n, "initialize")
    /\ pending' = [turn |-> n, total |-> size[n], done |-> {}]
    /\ Goto(n, "spawn")
    /\ UNCHANGED <<sessionVars, turn, size, posted, askVars, policy, modeVars, stop, restart, commands, history>>

\* execute_tool_calls clones the token.
Spawn(n) ==
    /\ At(n, "spawn")
    /\ task' = [task EXCEPT ![n] = [@ EXCEPT !.pc = "check", !.call = <<n, 1>>, !.token = "live"]]
    /\ UNCHANGED <<sessionVars, batchVars, askVars, policy, modeVars, stop, restart, commands, history>>
-----------------------------------------------------------------------------
(* execute_tool_calls, one iteration.                                        *)

\* Before every call the loop looks for a cancel, which turns the remaining
\* calls into tombstones.  A short-circuited call, or one with malformed
\* arguments ("refuse"), gets an error result at once.
CheckCancel(n) ==
    /\ At(n, "check") /\ CancelRequested(n)
    /\ task' = [task EXCEPT ![n] = [@ EXCEPT !.pc = "deliver", !.tombs = TRUE]]
    /\ UNCHANGED <<sessionVars, batchVars, askVars, policy, modeVars, stop, restart, commands, history>>

CheckPolicy(n, p) ==
    /\ At(n, "check") /\ ~CancelRequested(n)
    /\ policy' = [policy EXCEPT ![task[n].call] = p]
    /\ Goto(n, IF p = "refuse" THEN "deliver" ELSE "unsafe")
    /\ UNCHANGED <<sessionVars, batchVars, askVars, modeVars, stop, restart, commands, history>>

\* current_unsafe_mode; a blocked call gets an error result unless it is on.
ReadUnsafe(n) ==
    LET on == mode = "unsafe" IN
    /\ At(n, "unsafe")
    /\ task' = [task EXCEPT ![n] = [@ EXCEPT !.unsafe = on,
                    !.pc = IF policy[task[n].call] = "block" /\ ~on THEN "deliver" ELSE "yolo"]]
    /\ UNCHANGED <<sessionVars, batchVars, askVars, policy, modeVars, stop, restart, commands, history>>

\* approval_request_for_runtime.
AsksUser(p, yolo, unsafe) == ~unsafe /\ (p = "hard" \/ (p = "standard" /\ ~yolo))

\* current_yolo_mode, read on its own.
ReadYolo(n) ==
    /\ At(n, "yolo")
    /\ Goto(n, IF AsksUser(policy[task[n].call], mode = "yolo", task[n].unsafe)
               THEN "register" ELSE "run")
    /\ UNCHANGED <<sessionVars, batchVars, askVars, policy, modeVars, stop, restart, commands, history>>

\* request_approval: the sender goes into pending_approvals.
Register(n) ==
    /\ At(n, "register")
    /\ approvals' = approvals \cup {task[n].call}
    /\ channel' = [channel EXCEPT ![task[n].call] = "open"]
    /\ Goto(n, "await")
    /\ UNCHANGED <<sessionVars, batchVars, policy, modeVars, stop, restart, commands, history>>

\* A call that is not approved gets an error result; a rejection closes the
\* rest of the batch as well.
Answered(n) ==
    LET answer == channel[task[n].call] IN
    /\ At(n, "await") /\ answer # "open"
    /\ task' = [task EXCEPT ![n] = [@ EXCEPT !.pc = IF answer = "yes" THEN "run" ELSE "deliver",
                                             !.tombs = answer = "no"]]
    /\ channel' = [channel EXCEPT ![task[n].call] = "none"]
    /\ UNCHANGED <<sessionVars, batchVars, approvals, policy, modeVars, stop, restart, commands, history>>

\* execute_tool: the call begins ...
Run(n) ==
    /\ At(n, "run")
    /\ ran' = ran \cup {task[n].call}
    /\ late' = [late EXCEPT ![n] = IF TokenCancelled(n) THEN @ + 1 ELSE @]
    /\ consent' = [consent EXCEPT ![task[n].call] = IF task[n].unsafe THEN "unsafe" ELSE @]
    /\ Goto(n, "running")
    /\ UNCHANGED <<sessionVars, batchVars, askVars, policy, modeVars, stop, restart, commands, unstored>>

\* ... and returns, with a result or an error.
Return(n) ==
    /\ At(n, "running")
    /\ Goto(n, "deliver")
    /\ UNCHANGED <<sessionVars, batchVars, askVars, policy, modeVars, stop, restart, commands, history>>
-----------------------------------------------------------------------------
(* handle_tool_result and continue_workflow_after_tool, called by a loop for *)
(* each call, or by a client for any call it knows.                          *)

\* agent_handle_tool_result.
HandIn(c) ==
    /\ MayHandIn /\ At(Client, "none") /\ c \in CallsOf(Turn(c))
    /\ task' = [task EXCEPT ![Client] = [@ EXCEPT !.pc = "deliver", !.call = c]]
    /\ Command
    /\ UNCHANGED <<sessionVars, batchVars, askVars, policy, modeVars, stop, restart, history>>

\* Mutant: completed calls are not looked up.
AcceptsAgain(c) == pending # NoBatch /\ c \in CallsOf(pending.turn)

\* Mutant: a result is taken for whatever batch is pending.
AcceptsStale(c) == pending # NoBatch /\ c \notin pending.done

\* classify_tool_result: the call belongs to the pending batch and has no
\* result yet.
Accepts(c) == pending # NoBatch /\ c \in CallsOf(pending.turn) /\ c \notin pending.done

\* The result is counted under the write lock, and the batch that is complete
\* with it is cleared.
Deliver(t) ==
    LET done == pending.done \cup {task[t].call}
        complete == Cardinality(done) >= pending.total
    IN  /\ At(t, "deliver") /\ Accepts(task[t].call)
        /\ pending' = IF complete THEN NoBatch ELSE [pending EXCEPT !.done = done]
        /\ Goto(t, IF complete THEN "injectLast" ELSE "inject")
        /\ UNCHANGED <<sessionVars, turn, size, posted, askVars, policy, modeVars, stop, restart, commands, history>>

\* Stale, duplicate, or without a batch.
DeliverIgnored(t) ==
    /\ At(t, "deliver") /\ ~Accepts(task[t].call)
    /\ Goto(t, "next")
    /\ UNCHANGED <<sessionVars, batchVars, askVars, policy, modeVars, stop, restart, commands, history>>

\* Media of the result cannot be written: it is not counted, handle_llm_error.
DeliverFails(t) ==
    /\ At(t, "deliver") /\ MayFail
    /\ status' = "Error" /\ unstored' = unstored \cup {task[t].call}
    /\ Goto(t, "next")
    /\ UNCHANGED <<expected, cancelPending, cancelled, batchVars, askVars, policy, modeVars, stop, restart, commands, ran, consent, late>>

\* inject_messages_to_session: the message cache, then the messages table.
Inject(t) ==
    /\ At(t, "inject") \/ At(t, "injectLast")
    /\ posted' = [posted EXCEPT ![task[t].call] = @ + 1]
    /\ \/ Goto(t, IF At(t, "injectLast") THEN "boundary" ELSE "next")
       \/ MayFail /\ Goto(t, "next")
    /\ UNCHANGED <<sessionVars, pending, turn, size, askVars, policy, modeVars, stop, restart, commands, history>>

\* An oversized result cannot be spilled to a file.
SpillFails(t) ==
    /\ At(t, "inject") \/ At(t, "injectLast")
    /\ MayFail
    /\ Goto(t, "next")
    /\ UNCHANGED <<sessionVars, batchVars, askVars, policy, modeVars, stop, restart, commands, history>>

\* A complete batch: a cancelled session token ends the continuation.
Boundary(t) ==
    /\ At(t, "boundary")
    /\ Goto(t, IF cancelled THEN "next" ELSE "flag")
    /\ UNCHANGED <<sessionVars, batchVars, askVars, policy, modeVars, stop, restart, commands, history>>

\* A cancel that came since is consumed here ...
BoundaryConsume(t) ==
    /\ At(t, "flag") /\ cancelPending
    /\ cancelPending' = FALSE /\ cancelled' = FALSE
    /\ task' = [Detached(task) EXCEPT ![t].pc = "pause"]
    /\ UNCHANGED <<status, expected, batchVars, askVars, policy, modeVars, stop, restart, commands, history>>

\* ... and pauses.
BoundaryPause(t) ==
    /\ At(t, "pause")
    /\ status' = "Paused"
    /\ Goto(t, "next")
    /\ UNCHANGED <<expected, cancelPending, cancelled, batchVars, askVars, policy, modeVars, stop, restart, commands, history>>

\* A result with a UI resource ends the workflow ...
BoundaryUi(t) ==
    /\ At(t, "flag") /\ ~cancelPending
    /\ status' = "Idle"
    /\ Goto(t, "next")
    /\ UNCHANGED <<expected, cancelPending, cancelled, batchVars, askVars, policy, modeVars, stop, restart, commands, history>>

\* ... any other batch is followed by a request, if the session is still Busy.
BoundaryContinue(t) ==
    /\ At(t, "flag") /\ ~cancelPending
    /\ Goto(t, IF status = "Busy" THEN "request" ELSE "next")
    /\ UNCHANGED <<sessionVars, batchVars, askVars, policy, modeVars, stop, restart, commands, history>>

\* validate_session_status; preparing the request may fail as well.
Request(t) ==
    /\ At(t, "request")
    /\ \/ ~cancelPending /\ ~cancelled /\ status = "Busy" /\ Goto(t, "emit") /\ UNCHANGED status
       \/ status' = "Error" /\ Goto(t, "next")
    /\ UNCHANGED <<expected, cancelPending, cancelled, batchVars, askVars, policy, modeVars, stop, restart, commands, history>>

\* generate_response_message_id.
EmitRequest(t) ==
    /\ At(t, "emit")
    /\ expected' = TRUE
    /\ Goto(t, "next")
    /\ UNCHANGED <<status, cancelPending, cancelled, batchVars, askVars, policy, modeVars, stop, restart, commands, history>>

Gone == [NewTask EXCEPT !.pc = "end"]

\* Mutant: the calls that follow a rejected one get no tombstone.
NextDropsRest(n) ==
    LET c == task[n].call IN
    /\ n # Client /\ At(n, "next")
    /\ task' = [task EXCEPT ![n] =
           IF c[2] = size[n] \/ @.tombs THEN Gone
           ELSE [@ EXCEPT !.call = <<n, c[2] + 1>>, !.pc = "check"]]
    /\ UNCHANGED <<sessionVars, batchVars, askVars, policy, modeVars, stop, restart, commands, history>>

\* Mutant: a path that does not bump the index.
NextForgetsBlocked(n) ==
    LET c == task[n].call
        d == IF policy[c] = "block" THEN c ELSE <<n, c[2] + 1>>
    IN  /\ n # Client /\ At(n, "next")
        /\ task' = [task EXCEPT ![n] =
               IF d[2] > size[n] THEN Gone
               ELSE [@ EXCEPT !.call = d, !.pc = IF task[n].tombs THEN "deliver" ELSE "check"]]
        /\ UNCHANGED <<sessionVars, batchVars, askVars, policy, modeVars, stop, restart, commands, history>>

\* The loop goes on with its next call, or with the next tombstone.
NextCall(n) ==
    LET c == task[n].call IN
    /\ n # Client /\ At(n, "next")
    /\ task' = [task EXCEPT ![n] =
           IF c[2] = size[n] THEN Gone
           ELSE [@ EXCEPT !.call = <<n, c[2] + 1>>,
                          !.pc = IF task[n].tombs THEN "deliver" ELSE "check"]]
    /\ UNCHANGED <<sessionVars, batchVars, askVars, policy, modeVars, stop, restart, commands, history>>

ClientDone ==
    /\ At(Client, "next")
    /\ task' = [task EXCEPT ![Client] = NewTask]
    /\ UNCHANGED <<sessionVars, batchVars, askVars, policy, modeVars, stop, restart, commands, history>>
-----------------------------------------------------------------------------
(* The user: approvals and execution mode.                                   *)

\* resolve_pending_tool_approval: the sender is taken out of the map and used.
Resolve(c, answer, who) ==
    /\ approvals' = approvals \ {c}
    /\ channel' = [channel EXCEPT ![c] = IF c \in approvals THEN answer ELSE @]
    /\ consent' = [consent EXCEPT ![c] = IF c \in approvals /\ answer = "yes" THEN who ELSE @]

\* respond_tool_approval, or respond_channel_permission for the same call.
UserAnswers(c, answer) ==
    /\ c \in approvals
    /\ Resolve(c, answer, "user")
    /\ UNCHANGED <<sessionVars, batchVars, task, policy, modeVars, stop, restart, commands, ran, late, unstored>>

\* set_execution_mode: memory first ...
SetMode(s, m) ==
    /\ setter[s].pc = "none"
    /\ mode' = m
    /\ setter' = [setter EXCEPT ![s] = [pc |-> "persist", old |-> mode, new |-> m, ids |-> {}]]
    /\ Command
    /\ UNCHANGED <<sessionVars, batchVars, askVars, task, policy, stored, stop, restart, history>>

\* ... then the table ...
PersistMode(s) ==
    /\ setter[s].pc = "persist"
    /\ stored' = setter[s].new
    /\ setter' = [setter EXCEPT ![s] =
           IF @.new = "normal" THEN IdleSetter ELSE [@ EXCEPT !.pc = "list"]]
    /\ UNCHANGED <<sessionVars, batchVars, askVars, task, policy, mode, stop, restart, commands, history>>

\* ... whose failure restores the mode it replaced, unless another writer moved
\* on (revert_mode_if_unchanged) ...
PersistModeFails(s) ==
    /\ setter[s].pc = "persist" /\ MayFail
    /\ mode' = IF mode = setter[s].new THEN setter[s].old ELSE mode
    /\ setter' = [setter EXCEPT ![s] = IdleSetter]
    /\ UNCHANGED <<sessionVars, batchVars, askVars, task, policy, stored, stop, restart, commands, history>>

\* Mutant: hard approvals are listed in every mode.
AllApprovable(s) == approvals

\* pending_approval_ids: yolo leaves hard approvals to the user.
Approvable(s) == {c \in approvals : setter[s].new = "unsafe" \/ policy[c] = "standard"}

\* ... then approve_all_pending_tool_approvals lists what waits and approves it
\* one by one.
ListApprovals(s) ==
    /\ setter[s].pc = "list"
    /\ setter' = [setter EXCEPT ![s] =
           IF Approvable(s) = {} THEN IdleSetter
           ELSE [@ EXCEPT !.pc = "approve", !.ids = Approvable(s)]]
    /\ UNCHANGED <<sessionVars, batchVars, askVars, task, policy, mode, stored, stop, restart, commands, history>>

ApproveNext(s) ==
    /\ setter[s].pc = "approve"
    /\ \E c \in setter[s].ids :
        /\ Resolve(c, "yes", setter[s].new)
        /\ setter' = [setter EXCEPT ![s] =
               IF @.ids = {c} THEN IdleSetter ELSE [@ EXCEPT !.ids = setter[s].ids \ {c}]]
    /\ UNCHANGED <<sessionVars, batchVars, task, policy, mode, stored, stop, restart, commands, ran, late, unstored>>
-----------------------------------------------------------------------------
(* The user: cancel, terminate, clear, restart.                              *)

CallStop(o) ==
    /\ stop = "none" /\ stop' = o
    /\ Command
    /\ UNCHANGED <<sessionVars, batchVars, askVars, task, policy, modeVars, restart, history>>

\* cancel_workflow reads the status and whether a batch is pending; at rest it
\* only drops the expected answer.
CancelRead ==
    LET atRest == status \in {"Idle", "Paused", "Error"} IN
    /\ stop = "cancel"
    /\ expected' = (expected /\ ~atRest)
    /\ stop' = IF atRest THEN "none" ELSE IF pending = NoBatch THEN "signalPause" ELSE "signal"
    /\ UNCHANGED <<status, cancelPending, cancelled, batchVars, askVars, task, policy, modeVars, restart, commands, history>>

\* The signal ...
CancelSignal ==
    /\ stop \in {"signal", "signalPause"}
    /\ cancelPending' = TRUE /\ cancelled' = TRUE
    /\ stop' = IF stop = "signal" THEN "abort" ELSE "abortPause"
    /\ UNCHANGED <<status, expected, batchVars, askVars, task, policy, modeVars, restart, commands, history>>

\* Dropped senders: the loops that wait see a closed channel.
CloseApprovals ==
    /\ approvals' = {}
    /\ channel' = [c \in Calls |-> IF c \in approvals THEN "closed" ELSE channel[c]]

\* ... reaches the approvals and the frontend's completion ...
CancelAbort ==
    /\ stop \in {"abort", "abortPause"}
    /\ CloseApprovals
    /\ expected' = FALSE
    /\ stop' = IF stop = "abort" THEN "none" ELSE "pause"
    /\ UNCHANGED <<status, cancelPending, cancelled, batchVars, task, policy, modeVars, restart, commands, history>>

\* ... and without a batch the session pauses at once.
CancelPause ==
    /\ stop = "pause" /\ stop' = "pauseClear"
    /\ status' = "Paused"
    /\ UNCHANGED <<expected, cancelPending, cancelled, batchVars, askVars, task, policy, modeVars, restart, commands, history>>

CancelClear ==
    /\ stop = "pauseClear" /\ stop' = "none"
    /\ cancelPending' = FALSE
    /\ UNCHANGED <<status, expected, cancelled, batchVars, askVars, task, policy, modeVars, restart, commands, history>>

\* terminate_session touches neither the batch nor the approvals.
Terminate ==
    /\ stop = "terminate" /\ stop' = "idle"
    /\ expected' = FALSE /\ cancelPending' = TRUE /\ cancelled' = TRUE
    /\ UNCHANGED <<status, batchVars, askVars, task, policy, modeVars, restart, commands, history>>

TerminateIdle ==
    /\ stop = "idle" /\ stop' = "reset"
    /\ status' = "Idle"
    /\ UNCHANGED <<expected, cancelPending, cancelled, batchVars, askVars, task, policy, modeVars, restart, commands, history>>

TerminateReset ==
    /\ stop = "reset" /\ stop' = "none"
    /\ cancelPending' = FALSE /\ cancelled' = FALSE /\ task' = Detached(task)
    /\ UNCHANGED <<status, expected, batchVars, askVars, policy, modeVars, restart, commands, history>>

\* reset_session: cancel and Idle ...
Clear ==
    /\ stop = "clear" /\ stop' = "wipe"
    /\ cancelled' = TRUE /\ status' = "Idle"
    /\ UNCHANGED <<expected, cancelPending, batchVars, askVars, task, policy, modeVars, restart, commands, history>>

\* ... AgentSession::clear ...
ClearWipe ==
    /\ stop = "wipe" /\ stop' = "settle"
    /\ CloseApprovals
    /\ pending' = NoBatch /\ expected' = FALSE
    /\ posted' = [c \in Calls |-> 0]
    /\ UNCHANGED <<status, cancelPending, cancelled, turn, size, task, policy, modeVars, restart, commands, history>>

\* ... and both again.
ClearSettle ==
    /\ stop = "settle" /\ stop' = "none"
    /\ cancelled' = TRUE /\ status' = "Idle"
    /\ UNCHANGED <<expected, cancelPending, batchVars, askVars, task, policy, modeVars, restart, commands, history>>

\* reset_session_execution_state, whatever runs: resume_workflow asks nothing,
\* start_workflow has found the session at rest.
Restart ==
    /\ restart = "none" /\ restart' = "queue"
    /\ cancelPending' = FALSE /\ cancelled' = FALSE /\ task' = Detached(task)
    /\ Command
    /\ UNCHANGED <<status, expected, batchVars, askVars, policy, modeVars, stop, history>>

RestartQueue ==
    /\ restart = "queue" /\ restart' = "busy"
    /\ status' = "Queued"
    /\ UNCHANGED <<expected, cancelPending, cancelled, batchVars, askVars, task, policy, modeVars, stop, commands, history>>

\* The background task gives up if the session was stopped meanwhile.
RestartBusy ==
    LET go == ~cancelled /\ status = "Queued" IN
    /\ restart = "busy"
    /\ status' = IF go THEN "Busy" ELSE status
    /\ restart' = IF go THEN "request" ELSE "none"
    /\ UNCHANGED <<expected, cancelPending, cancelled, batchVars, askVars, task, policy, modeVars, stop, commands, history>>

RestartRequest ==
    LET valid == ~cancelPending /\ ~cancelled /\ status = "Busy" IN
    /\ restart = "request" /\ restart' = "none"
    /\ expected' = (expected \/ valid)
    /\ status' = IF valid THEN status ELSE "Error"
    /\ UNCHANGED <<cancelPending, cancelled, batchVars, askVars, task, policy, modeVars, stop, commands, history>>
-----------------------------------------------------------------------------
ResultStep(t) ==
    \/ Deliver(t) \/ DeliverIgnored(t) \/ DeliverFails(t) \/ Inject(t) \/ SpillFails(t)
    \/ Boundary(t) \/ BoundaryConsume(t) \/ BoundaryPause(t) \/ BoundaryUi(t) \/ BoundaryContinue(t)
    \/ Request(t) \/ EmitRequest(t)

LoopStep(n) ==
    \/ WakeUp(n) \/ CheckDropped(n) \/ MarkBusy(n) \/ InitializePending(n) \/ Spawn(n)
    \/ CheckCancel(n) \/ (\E p \in Policies : CheckPolicy(n, p))
    \/ ReadUnsafe(n) \/ ReadYolo(n) \/ Register(n) \/ Answered(n) \/ Run(n) \/ Return(n)
    \/ ResultStep(n) \/ NextCall(n)

SetterStep(s) == PersistMode(s) \/ PersistModeFails(s) \/ ListApprovals(s) \/ ApproveNext(s)

StopStep ==
    \/ CancelRead \/ CancelSignal \/ CancelAbort \/ CancelPause \/ CancelClear
    \/ Terminate \/ TerminateIdle \/ TerminateReset \/ Clear \/ ClearWipe \/ ClearSettle

Next ==
    \/ \E k \in 1..MaxCalls : Respond(k)
    \/ \E n \in Turns : LoopStep(n)
    \/ \E c \in Calls : HandIn(c)
    \/ ResultStep(Client) \/ ClientDone
    \/ \E c \in Calls, a \in {"yes", "no"} : UserAnswers(c, a)
    \/ \E s \in Setters : SetterStep(s) \/ (\E m \in ModeChanges : SetMode(s, m))
    \/ \E o \in Stops : CallStop(o)
    \/ StopStep
    \/ Restart \/ RestartQueue \/ RestartBusy \/ RestartRequest

Spec == Init /\ [][Next]_vars

\* tokio polls every ready loop, and tools return; nothing is assumed of users
\* and clients.
FairSpec == Spec /\ \A n \in Turns : WF_vars(LoopStep(n))
-----------------------------------------------------------------------------
(* Properties.                                                              *)

TypeOK ==
    /\ status \in {"Idle", "Queued", "Busy", "Paused", "Error"}
    /\ expected \in BOOLEAN /\ cancelPending \in BOOLEAN /\ cancelled \in BOOLEAN
    /\ turn \in 0..MaxTurns /\ size \in [Turns -> 0..MaxCalls]
    /\ \/ pending = NoBatch
       \/ /\ pending.turn \in 1..turn /\ pending.total = size[pending.turn]
          /\ pending.done \subseteq CallsOf(pending.turn)
          /\ Cardinality(pending.done) < pending.total
    /\ posted \in [Calls -> Nat]
    /\ approvals \subseteq Calls
    /\ channel \in [Calls -> {"none", "open", "yes", "no", "closed"}]
    /\ task \in [Tasks -> [pc : TaskPcs, call : Calls \cup {NoCall},
                           token : {"none", "live", "cancelled", "replaced"},
                           tombs : BOOLEAN, unsafe : BOOLEAN]]
    /\ policy \in [Calls -> Policies \cup {"unset"}]
    /\ mode \in AllModes /\ stored \in AllModes
    /\ setter \in [Setters -> [pc : {"none", "persist", "list", "approve"},
                               old : AllModes, new : AllModes, ids : SUBSET Calls]]
    /\ commands \in 0..MaxCommands /\ stop \in StopPcs /\ restart \in {"none", "queue", "busy", "request"}
    /\ ran \subseteq Calls /\ unstored \subseteq Calls
    /\ consent \in [Calls -> AllModes \cup {"none", "user"}]
    /\ late \in [Turns -> Nat]

\* A tool call gets one tool message at most, however often and by whomever its
\* result is handed in, and whatever stops, restarts or clears the session
\* meanwhile (tools.rs:119-132, 738-816).
OneResultPerCall == \A c \in Calls : posted[c] <= 1

\* No call is forgotten: the loop of a batch ends only when the batch is closed
\* or replaced, on every path (refused, blocked, rejected, cancelled, handed in
\* by a client), unless a result could not be stored.  A batch left open would
\* keep the session waiting for a result that never comes
\* (tool_execution.rs:436-438, workflow/tool.rs:49-52).
NoForgottenCall ==
    \A n \in Turns : At(n, "end") /\ pending.turn = n => CallsOf(n) \cap unstored # {}

\* Once the token of a batch is cancelled at most one more of its calls begins,
\* the one that was already past the check, even if a restart has given the
\* session a fresh token while the old loop is still under way
\* (tool_execution.rs:439-443, cancel.rs:231-234).
CancelStopsTools == \A n \in Turns : late[n] <= 1

\* However mode changes and approvals interleave, a hard call runs only if the
\* user said yes or unsafe mode was set, a blocked one only in unsafe mode, and
\* yolo never decides either (approvals.rs:98, tool_approvals.rs:41-75).
HardNeedsUser ==
    \A c \in ran :
        /\ policy[c] = "hard" => consent[c] \in {"user", "unsafe"}
        /\ policy[c] = "block" => consent[c] = "unsafe"

\* An approval wakes its loop, and the batch goes on to its end unless another
\* of its calls waits for the user (tool_execution.rs:219, 436-438).
BatchProgress ==
    \A n \in Turns :
        task[n].pc \notin {"none", "end"}
            ~> (At(n, "end") \/ (At(n, "await") /\ task[n].call \in approvals))
=============================================================================
