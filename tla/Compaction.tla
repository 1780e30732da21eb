----------------------------- MODULE Compaction -----------------------------
(***************************************************************************)
(* Context compaction.  A request that is over the token budget parks its   *)
(* workflow: the session stays Busy, no LLM request is sent, and the        *)
(* frontend is asked for a summary of the messages up to some boundary      *)
(* (agent/llm/completion/compaction/).  The frontend's answer or error is   *)
(* what wakes the workflow up again (agent/session_manager/compact/).       *)
(* Another session may ask for a compaction that wakes nobody               *)
(* (compactSessionContext), and a workflow that finds one under way         *)
(* promotes it to its own.                                                  *)
(*                                                                         *)
(* A future is one task or command that works on the session; pc is the     *)
(* await point it is at.  Messages are numbered, first < n <= last are the  *)
(* ones that exist.  What is over budget, which boundary fits and whether a *)
(* summary is valid are nondeterministic.  A status change is one step      *)
(* (SessionGate has its detail), and so is a tool batch.                    *)
(***************************************************************************)
EXTENDS Naturals, FiniteSets

CONSTANTS
    Futures,            \* bound: tasks and commands under way
    MaxMessages,        \* bound: messages ever
    MaxRetries,         \* MAX_COMPACTION_RETRY_ATTEMPTS
    MaxSummaryRetries,  \* MAX_COMPACTION_SUMMARY_RETRY_ATTEMPTS
    MaxTroubles         \* bound: compactSessionContext calls, failing
                        \* writes and event emissions

ASSUME CompactionAssumption ==
    /\ MaxMessages \in Nat \ {0}
    /\ MaxRetries \in Nat /\ MaxSummaryRetries \in Nat
    /\ MaxTroubles \in Nat

VARIABLES
    status,     \* metadata.status
    cancelled,  \* cancellation_token, cancel_pending
    asked,      \* the LLM request that is out: "expected", or "late" when its
                \* expected_response_id is gone
    first, last,\* the messages are first + 1 .. last
    record,     \* compact_context: the boundary of the summary, or NoMessage
    phase,      \* CompactionPhase
    request,    \* current_request: its boundary, or NoMessage
    rung,       \* recovery_phase and retry_attempt
    retries,    \* summary_retry_count
    emitted,    \* [boundary -> compact requests the frontend has to answer]
    pc, to, plan, after,  \* local variables of the futures
    troubles,
    crossed,    \* history: one began while a future was about to change another's state
    overtaken,  \* history: a prompt started the workflow before all was over
    failed      \* history: the frontend has answered with an error

session == <<status, cancelled, asked, first, last>>
runtime == <<phase, request, rung, retries>>
locals == <<pc, to, plan, after>>
bounds == <<troubles, crossed, overtaken, failed>>
vars == <<session, record, runtime, emitted, locals, bounds>>

NoMessage == 0
Messages == 1..MaxMessages
Statuses == {"Idle", "Busy", "Paused", "Error"}
Phases == {"idle", "manual", "preflight"}

\* The recovery ladder as one number: CacheAligned with retry_attempt 0 ..
\* MaxRetries, then OverflowRecovery, then DegradedTools.
DegradedTools == MaxRetries + 2
Rungs == 0..DegradedTools

\* Await points of a future that is about to change the state of a compaction.
Finishing == {"publish", "clearPhase", "clearRest", "invalid", "persist", "complete", "settle", "errorRead", "errorState"}
Present == (first + 1)..last
Free(f) == pc[f] = "done"
Goto(f, there) == pc' = [pc EXCEPT ![f] = there]
\* The future goes on and needs its local variables no more.
Proceed(f, there) ==
    /\ pc' = [pc EXCEPT ![f] = there]
    /\ to' = [to EXCEPT ![f] = NoMessage]
    /\ plan' = [plan EXCEPT ![f] = 0]
    /\ after' = [after EXCEPT ![f] = "done"]
Return(f) == Proceed(f, "done")
Wakes(f) == after[f] = "fail"
\* A workflow, or an answer one waits for, is under way; a compaction that
\* wakes nobody does not count.
WorkUnderWay ==
    \/ asked # "none" \/ phase = "preflight"
    \/ \E b \in Messages : emitted[b] > IF phase = "manual" /\ b = request THEN 1 ELSE 0
    \/ \E f \in Futures : ~Free(f) /\ ~(pc[f] \in {"compact", "begin", "publish"} /\ ~Wakes(f))
Emit(b) == emitted' = [emitted EXCEPT ![b] = @ + 1]
Trouble == troubles < MaxTroubles /\ troubles' = troubles + 1

Init ==
    /\ status = "Idle" /\ cancelled = FALSE /\ asked = "none"
    /\ first = 0 /\ last = 0 /\ record = NoMessage
    /\ phase = "idle" /\ request = NoMessage /\ rung = 0 /\ retries = 0
    /\ emitted = [b \in Messages |-> 0]
    /\ pc = [f \in Futures |-> "done"] /\ to = [f \in Futures |-> NoMessage]
    /\ plan = [f \in Futures |-> 0] /\ after = [f \in Futures |-> "done"]
    /\ troubles = 0 /\ crossed = FALSE /\ overtaken = FALSE /\ failed = FALSE
-----------------------------------------------------------------------------
(* clear_runtime_state and clear_in_flight_state: the phase first, then the *)
(* rest, each under a lock of its own.                                      *)

ClearPhase(f) ==
    /\ pc[f] = "clearPhase"
    /\ phase' = "idle"
    /\ Goto(f, "clearRest")
    /\ UNCHANGED <<session, record, request, rung, retries, emitted, to, plan, after, bounds>>

\* The ladder survives only a clear that is about to climb on it.
ClearRest(f) ==
    /\ pc[f] = "clearRest"
    /\ request' = NoMessage /\ retries' = 0
    /\ rung' = IF after[f] = "validate" THEN rung ELSE 0
    /\ Proceed(f, after[f])
    /\ UNCHANGED <<session, record, phase, emitted, bounds>>

\* Clear the runtime state and go on at `next'.
ClearThen(f, next) ==
    /\ after' = [after EXCEPT ![f] = next]
    /\ Goto(f, "clearPhase")
-----------------------------------------------------------------------------
(* start_workflow; cancel and terminate; /clear.                             *)

Launching(f) == after[f] = "launch" \/ pc[f] = "launch"

\* A prompt for a session that is not Busy: reset_session_execution_state.
\* Two prompts that are both on the way to the start are SessionGate's.
Start(f) ==
    /\ Free(f) /\ last < MaxMessages /\ status # "Busy"
    /\ \A g \in Futures : ~Launching(g)
    /\ IF WorkUnderWay THEN Trouble /\ overtaken' = TRUE ELSE UNCHANGED <<troubles, overtaken>>
    /\ cancelled' = FALSE
    /\ ClearThen(f, "launch")
    /\ UNCHANGED <<status, asked, first, last, record, runtime, emitted, to, plan, crossed, failed>>

\* The prompt is stored and the workflow runs, unless it was stopped.
Launch(f) ==
    /\ pc[f] = "launch"
    /\ IF cancelled
       THEN Return(f) /\ UNCHANGED <<status, last>>
       ELSE /\ status' = "Busy"
            /\ last' = last + 1
            /\ Proceed(f, "validate")
    /\ UNCHANGED <<cancelled, asked, first, record, runtime, emitted, bounds>>

\* cancel_workflow pauses, terminate_session goes Idle.  Both take the expected
\* response id and tell the frontend, which may have reported an error by then.
\* Neither looks at the compaction.
Stop ==
    /\ status = "Busy" \/ \E g \in Futures : pc[g] = "launch"
    /\ cancelled' = TRUE
    /\ status' \in {"Paused", "Idle"}
    /\ asked' \in IF asked = "none" THEN {"none"} ELSE {"none", "late"}
    /\ UNCHANGED <<first, last, record, runtime, emitted, locals, bounds>>

\* reset_session: cancel, Idle ...
Reset(f) ==
    /\ Free(f) /\ last > first
    /\ cancelled' = TRUE /\ status' = "Idle"
    /\ Goto(f, "wipe")
    /\ UNCHANGED <<asked, first, last, record, runtime, emitted, to, plan, after, bounds>>

\* ... AgentSession::clear ...
Wipe(f) ==
    /\ pc[f] = "wipe"
    /\ first' = last /\ record' = NoMessage
    /\ asked' = IF asked = "none" THEN "none" ELSE "late"
    /\ ClearThen(f, "again")
    /\ UNCHANGED <<status, cancelled, last, runtime, emitted, to, plan, bounds>>

\* ... and the status once more.
ResetAgain(f) ==
    /\ pc[f] = "again"
    /\ cancelled' = TRUE /\ status' = "Idle"
    /\ Return(f)
    /\ UNCHANGED <<asked, first, last, record, runtime, emitted, bounds>>
-----------------------------------------------------------------------------
(* request_llm_completion_with_recovery.                                     *)

\* settle_session_and_finalize_error.
FailWorkflow(f) == status' = "Error" /\ Return(f)

\* validate_session_status.
Validate(f) ==
    /\ pc[f] = "validate"
    /\ IF status = "Busy" /\ ~cancelled
       THEN Goto(f, "prepare") /\ UNCHANGED <<status, to, plan, after>>
       ELSE FailWorkflow(f)
    /\ UNCHANGED <<cancelled, asked, first, last, record, runtime, emitted, bounds>>

\* inject_compact_summary drops a summary whose boundary is gone; the request
\* fits and is sent under a new response id.
SendRequest(f) ==
    /\ pc[f] = "prepare"
    /\ record' = IF record \in Present THEN record ELSE NoMessage
    /\ asked' = "expected"
    /\ Return(f)
    /\ UNCHANGED <<status, cancelled, first, last, runtime, emitted, bounds>>

\* The request is over budget and nothing can be compacted: a
\* ContextLimitError, which handle_llm_error_with_outcome answers with one more
\* attempt; or nothing can be sent at all.
NothingToCompact(f) ==
    /\ pc[f] \in {"prepare", "recover", "compact"}
    /\ \/ pc[f] = "prepare" /\ Goto(f, "recover") /\ UNCHANGED <<status, to, plan, after>>
       \/ pc[f] # "compact" /\ FailWorkflow(f)
       \/ pc[f] = "compact" /\ Return(f) /\ UNCHANGED status
    /\ record' = IF pc[f] = "prepare" /\ record \notin Present THEN NoMessage ELSE record
    /\ UNCHANGED <<cancelled, asked, first, last, runtime, emitted, bounds>>

\* Mutant: a request over budget starts from the lowest rung again.
SelectSplitRestarts(f) ==
    /\ pc[f] \in {"prepare", "recover", "compact"}
    /\ record' = IF pc[f] = "prepare" /\ record \notin Present THEN NoMessage ELSE record
    /\ \E b \in Present :
        /\ b > record'
        /\ to' = [to EXCEPT ![f] = b]
        /\ plan' = [plan EXCEPT ![f] = 0]
    /\ after' = [after EXCEPT ![f] = IF pc[f] = "compact" THEN "return" ELSE "fail"]
    /\ Goto(f, "begin")
    /\ UNCHANGED <<session, runtime, emitted, bounds>>

\* Mutant: a split that an existing summary covers is taken.
SelectSplitAgain(f) ==
    /\ pc[f] \in {"prepare", "recover", "compact"}
    /\ record' = IF pc[f] = "prepare" /\ record \notin Present THEN NoMessage ELSE record
    /\ \E b \in Present, r \in Rungs :
        /\ r >= rung
        /\ to' = [to EXCEPT ![f] = b]
        /\ plan' = [plan EXCEPT ![f] = r]
    /\ after' = [after EXCEPT ![f] = IF pc[f] = "compact" THEN "return" ELSE "fail"]
    /\ Goto(f, "begin")
    /\ UNCHANGED <<session, runtime, emitted, bounds>>

\* A split with messages the summary does not cover yet; the ladder is climbed
\* locally until the compaction input fits.
SelectSplit(f) ==
    /\ pc[f] \in {"prepare", "recover", "compact"}
    /\ record' = IF pc[f] = "prepare" /\ record \notin Present THEN NoMessage ELSE record
    /\ \E b \in Present, r \in Rungs :
        /\ b > record' /\ r >= rung
        /\ to' = [to EXCEPT ![f] = b]
        /\ plan' = [plan EXCEPT ![f] = r]
    /\ after' = [after EXCEPT ![f] = IF pc[f] = "compact" THEN "return" ELSE "fail"]
    /\ Goto(f, "begin")
    /\ UNCHANGED <<session, runtime, emitted, bounds>>

\* try_begin.
TryBegin(f) ==
    /\ pc[f] = "begin"
    /\ IF phase = "idle"
       THEN /\ phase' = IF Wakes(f) THEN "preflight" ELSE "manual"
            /\ retries' = 0 /\ request' = NoMessage
            /\ crossed' = (crossed \/ \E g \in Futures : pc[g] \in Finishing)
            /\ Goto(f, "publish")
            /\ UNCHANGED <<to, plan, after>>
       ELSE /\ IF Wakes(f) THEN Goto(f, "arm") /\ UNCHANGED <<to, plan, after>>
                           ELSE Return(f)
            /\ UNCHANGED <<phase, retries, request, crossed>>
    /\ UNCHANGED <<session, record, rung, emitted, troubles, overtaken, failed>>

\* Mutant: the manual compaction is reused without being promoted.
ArmReuses(f) ==
    /\ pc[f] = "arm"
    /\ IF phase = "idle" THEN Goto(f, "fail") /\ UNCHANGED <<to, plan, after>>
                         ELSE Return(f)
    /\ UNCHANGED <<session, record, runtime, emitted, bounds>>

\* arm_resume_completion: a compaction that is over by now is an error.
Arm(f) ==
    /\ pc[f] = "arm"
    /\ IF phase = "idle"
       THEN Goto(f, "fail") /\ UNCHANGED <<phase, to, plan, after>>
       ELSE phase' = "preflight" /\ Return(f)
    /\ UNCHANGED <<session, record, request, rung, retries, emitted, bounds>>

\* set_recovery_progress, set_current_request, emit_compact_request: the
\* workflow is parked.
Publish(f) ==
    /\ pc[f] = "publish"
    /\ rung' = plan[f] /\ request' = to[f]
    /\ \/ Emit(to[f]) /\ Return(f) /\ UNCHANGED troubles
       \/ Trouble /\ ClearThen(f, after[f]) /\ UNCHANGED <<emitted, to, plan>>
    /\ UNCHANGED <<session, record, phase, retries, crossed, overtaken, failed>>

Fail(f) ==
    /\ pc[f] = "fail"
    /\ FailWorkflow(f)
    /\ UNCHANGED <<cancelled, asked, first, last, record, runtime, emitted, bounds>>
-----------------------------------------------------------------------------
(* The LLM's answer.                                                         *)

\* A final answer ends the workflow, tool calls lead to the next request; an
\* answer that is late or for a session that was stopped is dropped, an error is
\* not.
LlmAnswer(f) ==
    /\ Free(f) /\ asked # "none"
    /\ asked' = "none"
    /\ \/ status' = "Error" /\ UNCHANGED <<last, pc>>
       \/ /\ asked = "expected" /\ status = "Busy" /\ ~cancelled
          /\ \/ status' = "Idle" /\ UNCHANGED <<last, pc>>
             \/ last < MaxMessages /\ last' = last + 1 /\ Goto(f, "validate") /\ UNCHANGED status
       \/ (asked = "late" \/ cancelled \/ status # "Busy") /\ UNCHANGED <<status, last, pc>>
    /\ UNCHANGED <<cancelled, first, record, runtime, emitted, to, plan, after, bounds>>

\* The provider found the request too long, whatever became of the session.
LlmTooLong(f) ==
    /\ Free(f) /\ asked # "none"
    /\ asked' = "none"
    /\ Goto(f, "recover")
    /\ UNCHANGED <<status, cancelled, first, last, record, runtime, emitted, to, plan, after, bounds>>
-----------------------------------------------------------------------------
(* compactSessionContext.                                                    *)

\* Only a session that is not Busy is compacted, as far as this check knows.
CompactSession(f) ==
    /\ Free(f) /\ status # "Busy"
    /\ Trouble
    /\ Goto(f, "compact")
    /\ UNCHANGED <<session, record, runtime, emitted, to, plan, after, crossed, overtaken, failed>>
-----------------------------------------------------------------------------
(* handle_compact_response.                                                  *)

\* The frontend has a summary of the messages up to b.
Respond(f, b) ==
    /\ Free(f) /\ emitted[b] > 0
    /\ emitted' = [emitted EXCEPT ![b] = @ - 1]
    /\ to' = [to EXCEPT ![f] = b]
    /\ after' = [after EXCEPT ![f] = "errorRead"]
    /\ Goto(f, "accept")
    /\ UNCHANGED <<session, record, runtime, plan, bounds>>

\* An answer that is not for the current request is ignored.
Accept(f) ==
    /\ pc[f] = "accept"
    /\ IF request # to[f]
       THEN Return(f)
       ELSE /\ Goto(f, "persist") \/ Goto(f, "invalid")
            /\ UNCHANGED <<to, plan, after>>
    /\ UNCHANGED <<session, record, runtime, emitted, bounds>>

\* Mutant: one retry too many.
RetrySummaryOneMore(f) ==
    /\ pc[f] = "invalid"
    /\ IF phase = "preflight" /\ request # NoMessage /\ retries <= MaxSummaryRetries
       THEN /\ retries' = retries + 1
            /\ \/ Emit(request) /\ Return(f) /\ UNCHANGED troubles
               \/ Trouble /\ Proceed(f, after[f]) /\ UNCHANGED emitted
       ELSE Goto(f, "persist") /\ UNCHANGED <<retries, emitted, to, plan, after, troubles>>
    /\ UNCHANGED <<session, record, phase, request, rung, crossed, overtaken, failed>>

\* retry_invalid_compact_summary_if_possible; otherwise the hard fallback
\* summary is stored in its place.
RetrySummary(f) ==
    /\ pc[f] = "invalid"
    /\ IF phase = "preflight" /\ request # NoMessage /\ retries < MaxSummaryRetries
       THEN /\ retries' = retries + 1
            /\ \/ Emit(request) /\ Return(f) /\ UNCHANGED troubles
               \/ Trouble /\ Proceed(f, after[f]) /\ UNCHANGED emitted
       ELSE Goto(f, "persist") /\ UNCHANGED <<retries, emitted, to, plan, after, troubles>>
    /\ UNCHANGED <<session, record, phase, request, rung, crossed, overtaken, failed>>

\* save_compact_context.  A failure goes back to the frontend, which reports it
\* as an error; the failure of an error report ends there.
Persist(f) ==
    /\ pc[f] = "persist"
    /\ \/ record' = to[f] /\ Proceed(f, "complete") /\ UNCHANGED troubles
       \/ Trouble /\ Proceed(f, after[f]) /\ UNCHANGED record
    /\ UNCHANGED <<session, runtime, emitted, crossed, overtaken, failed>>

\* complete_success: the counters and the request ...
Complete(f) ==
    /\ pc[f] = "complete"
    /\ rung' = 0 /\ retries' = 0 /\ request' = NoMessage
    /\ Goto(f, "settle")
    /\ UNCHANGED <<session, record, phase, emitted, to, plan, after, bounds>>

\* Mutant: a workflow is woken up whatever the compaction was for.
SettleWakes(f) ==
    /\ pc[f] = "settle"
    /\ phase' = "idle"
    /\ Proceed(f, "validate")
    /\ UNCHANGED <<session, record, request, rung, retries, emitted, bounds>>

\* ... then the phase is swapped for Idle, and whoever finds it in flight for
\* a workflow spawns the request again.
Settle(f) ==
    /\ pc[f] = "settle"
    /\ phase' = "idle"
    /\ Proceed(f, IF phase = "preflight" THEN "validate" ELSE "done")
    /\ UNCHANGED <<session, record, request, rung, retries, emitted, bounds>>
-----------------------------------------------------------------------------
(* handle_compact_error: the report names no boundary.                       *)

\* The frontend has no summary.
ReportError(f, b) ==
    /\ Free(f) /\ emitted[b] > 0
    /\ emitted' = [emitted EXCEPT ![b] = @ - 1]
    /\ failed' = TRUE
    /\ Goto(f, "errorRead")
    /\ UNCHANGED <<session, record, runtime, to, plan, after, troubles, crossed, overtaken>>

\* The snapshot decides: the input was too long and the ladder has room; the
\* hard fallback; or no workflow is parked.
ErrorTooLong(f) ==
    /\ pc[f] = "errorRead" /\ phase = "preflight" /\ rung < DegradedTools
    /\ rung' = rung + 1
    /\ ClearThen(f, "validate")
    /\ UNCHANGED <<session, record, phase, request, retries, emitted, to, plan, bounds>>

ErrorFallback(f) ==
    /\ pc[f] = "errorRead" /\ phase = "preflight" /\ request # NoMessage
    /\ to' = [to EXCEPT ![f] = request]
    /\ after' = [after EXCEPT ![f] = "return"]
    /\ Goto(f, "persist")
    /\ UNCHANGED <<session, record, runtime, emitted, plan, bounds>>

ErrorOther(f) ==
    /\ pc[f] = "errorRead" /\ (phase # "preflight" \/ request = NoMessage)
    /\ rung' = 0
    /\ Goto(f, "errorState")
    /\ UNCHANGED <<session, record, phase, request, retries, emitted, to, plan, after, bounds>>

\* handle_compact_error_state: a second snapshot; the runtime state is cleared
\* and a workflow that was parked fails.
ErrorState(f) ==
    /\ pc[f] = "errorState"
    /\ ClearThen(f, IF phase = "preflight" THEN "fail" ELSE "return")
    /\ UNCHANGED <<session, record, runtime, emitted, to, plan, bounds>>

ErrorReturn(f) ==
    /\ pc[f] = "return"
    /\ Return(f)
    /\ UNCHANGED <<session, record, runtime, emitted, bounds>>
-----------------------------------------------------------------------------
Local(f) ==
    \/ ClearPhase(f) \/ ClearRest(f) \/ Launch(f) \/ Wipe(f) \/ ResetAgain(f)
    \/ Validate(f) \/ SendRequest(f) \/ NothingToCompact(f) \/ SelectSplit(f)
    \/ TryBegin(f) \/ Arm(f) \/ Publish(f) \/ Fail(f)
    \/ Accept(f) \/ RetrySummary(f) \/ Persist(f) \/ Complete(f) \/ Settle(f)
    \/ ErrorTooLong(f) \/ ErrorFallback(f) \/ ErrorOther(f) \/ ErrorState(f) \/ ErrorReturn(f)
Llm(f) == LlmAnswer(f) \/ LlmTooLong(f)
Frontend(f) == \E b \in Messages : Respond(f, b) \/ ReportError(f, b)
Client(f) == Start(f) \/ Reset(f) \/ CompactSession(f)

Next == Stop \/ \E f \in Futures : Local(f) \/ Llm(f) \/ Frontend(f) \/ Client(f)
Spec == Init /\ [][Next]_vars

\* A future that is ready is polled; the provider answers, or the frontend
\* reports that it did not.
FairSpec ==
    /\ Spec
    /\ \A f \in Futures : WF_vars(Local(f))
    /\ WF_vars(\E f \in Futures : Llm(f))
    /\ WF_vars(\E f \in Futures : Frontend(f))
-----------------------------------------------------------------------------
Points == {"done", "clearPhase", "clearRest", "launch", "wipe", "again", "validate", "prepare",
           "recover", "compact", "begin", "arm", "publish", "fail", "return", "accept", "invalid",
           "persist", "complete", "settle", "errorRead", "errorState"}

\* Every variable has its type.
TypeOK ==
    /\ status \in Statuses /\ cancelled \in BOOLEAN /\ asked \in {"none", "expected", "late"}
    /\ first \in 0..MaxMessages /\ last \in 0..MaxMessages
    /\ record \in 0..MaxMessages
    /\ phase \in Phases /\ request \in 0..MaxMessages
    /\ rung \in Rungs /\ retries \in 0..MaxSummaryRetries
    /\ emitted \in [Messages -> Nat]
    /\ pc \in [Futures -> Points] /\ after \in [Futures -> Points]
    /\ to \in [Futures -> 0..MaxMessages] /\ plan \in [Futures -> Rungs]
    /\ troubles \in 0..MaxTroubles /\ crossed \in BOOLEAN /\ overtaken \in BOOLEAN /\ failed \in BOOLEAN

\* Two of these met: another session's compaction, a prompt that overtakes a
\* stopped workflow, a failing write or event, a failing summary; or one
\* compaction began in the middle of the end of another.
Excused == crossed \/ troubles + (IF failed THEN 1 ELSE 0) > 1

\* A Busy session that nothing will ever wake up.
Stranded ==
    /\ status = "Busy" /\ asked = "none"
    /\ \A f \in Futures : Free(f)
    /\ \A b \in Messages : emitted[b] = 0

\* No single failure, and no compaction of another session alone, strands a
\* parked workflow: the promotion of a compaction, the ladder, the retries and
\* the hard fallback always leave somebody who wakes it up
\* (trigger.rs:429-454, recovery.rs:80-143, persistence.rs:141-255).
NeverStranded == Stranded => Excused

\* Futures that will send the next LLM request of the workflow.
Loops == {f \in Futures : pc[f] \in {"validate", "prepare", "recover", "begin", "arm", "publish"}
                             /\ after[f] # "return"}

\* A workflow is woken up once: it never runs twice, and never while its LLM
\* request is out (state.rs:422-432).
OneLoop == Cardinality(Loops) + (IF asked = "expected" THEN 1 ELSE 0) <= 1 \/ overtaken \/ Excused

\* The summary only ever covers more messages, unless its boundary is gone: an
\* answer that is late, repeated or a fallback does not bring an older one back
\* (compact/mod.rs:173-196).
SummaryGrows ==
    [][record' >= record \/ (record' = NoMessage /\ (record \notin Present \/ first' = last)) \/ troubles > 0]_vars

\* A workflow comes to an end although every request of it may be over budget
\* and every answer of the frontend an error or an invalid summary
\* (docs/specs/message-compaction.md:303-321).
ParkedEnds == status = "Busy" ~> status # "Busy" \/ Excused
=============================================================================
