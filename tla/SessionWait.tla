----------------------------- MODULE SessionWait -----------------------------
(***************************************************************************)
(* Waiting for delegated sessions: checkSession(wait=true) runs             *)
(* `wait_until_session_terminal` (mcp/builtin/agent/utils.rs), a loop that  *)
(* looks at the caller's cancel flag, reads the target's row, and sleeps    *)
(* until the session bus (agent/session_bus.rs) announces a status change   *)
(* of the target or of the caller, or a heartbeat passes.  The bus is a     *)
(* tokio Notify per session: notify_waiters wakes who is waiting at that    *)
(* moment and keeps nothing for who comes later.                            *)
(*                                                                         *)
(* The permits a wait suspends are in SessionGate, the tool batch it is     *)
(* part of in ToolBatch.  Status updates are seen here at the two moments   *)
(* that matter to a wait: the row is written, then the change announced.    *)
(* Queued and Provisioning look like Busy to a wait.                        *)
(***************************************************************************)
EXTENDS Naturals, FiniteSets

CONSTANTS
    Sessions,
    Parent,        \* [session -> parent_session_id, or NoParent]
    NoParent,
    Stops,         \* the stop operations the user may call
    MayFail        \* whether repository calls may fail

ASSUME WaitAssumption ==
    /\ NoParent \notin Sessions
    /\ Parent \in [Sessions -> Sessions \cup {NoParent}]
    /\ Stops \subseteq {"cancel", "terminate"} /\ MayFail \in BOOLEAN

\* A session is created after its parent, and sessions are finitely many: among
\* any of them one, the youngest, is nobody's parent.
ASSUME Youngest ==
    \A group \in (SUBSET Sessions) \ {{}} : \E s \in group : \A x \in group : Parent[x] # s

Resting == {"idle", "paused", "error"}
Statuses == Resting \cup {"busy"}

VARIABLES
    row,       \* [session -> status in the sessions table]
    flag,      \* [session -> cancel_pending]
    wait,      \* [session -> its call of wait_until_session_terminal]
    update,    \* [session -> who is between writing the row and announcing it]
    stop       \* [session -> await point of a stop operation]

vars == <<row, flag, wait, update, stop>>

NoWait == [pc |-> "none", target |-> NoParent, seen |-> "busy"]

Init ==
    /\ row = [s \in Sessions |-> "busy"]
    /\ flag = [s \in Sessions |-> FALSE]
    /\ wait = [s \in Sessions |-> NoWait]
    /\ update = [s \in Sessions |-> "none"]
    /\ stop = [s \in Sessions |-> "none"]

\* The sessions above c: every set that holds the parent of c and the parents
\* of its members has them all.
Above(c, up) == \A x \in up \cup {c} : Parent[x] \in up \cup {NoParent}
Lineage(c) == {s \in Sessions : \A up \in SUBSET Sessions : Above(c, up) => s \in up}

\* Mutant: the lineage is walked from either end.
Related(c, s) == s \in Lineage(c) \/ c \in Lineage(s)

\* load_accessible_delegated_session: c descends from s.
Descends(c, s) == s \in Lineage(c)

\* is_wait_complete_status.
IsWaitComplete(status) == status \in Resting
-----------------------------------------------------------------------------
(* wait_until_session_terminal.                                              *)

\* checkSession(wait=true): a paused target is reported at once.
BeginWait(s, c) ==
    /\ wait[s].pc = "none" /\ row[s] = "busy" /\ ~flag[s]
    /\ Descends(c, s) /\ row[c] # "paused"
    /\ wait' = [wait EXCEPT ![s] = [pc |-> "check", target |-> c, seen |-> "busy"]]
    /\ UNCHANGED <<row, flag, update, stop>>

\* Mutant: the flag is not looked at.
CheckFlagNever(s) ==
    /\ wait[s].pc = "check"
    /\ wait' = [wait EXCEPT ![s].pc = "fetch"]
    /\ UNCHANGED <<row, flag, update, stop>>

\* The caller's cancel flag interrupts the wait.
CheckFlag(s) ==
    /\ wait[s].pc = "check"
    /\ wait' = [wait EXCEPT ![s] = IF flag[s] THEN NoWait ELSE [@ EXCEPT !.pc = "fetch"]]
    /\ UNCHANGED <<row, flag, update, stop>>

\* fetch_session_value reads the row.
Fetch(s) ==
    /\ wait[s].pc = "fetch"
    /\ \/ wait' = [wait EXCEPT ![s] = [pc |-> "fetched", target |-> @.target, seen |-> row[@.target]]]
       \/ MayFail /\ wait' = [wait EXCEPT ![s] = NoWait]
    /\ UNCHANGED <<row, flag, update, stop>>

\* What was read ends the wait, or it registers with both notifiers.
Sleep(s) ==
    /\ wait[s].pc = "fetched"
    /\ wait' = [wait EXCEPT ![s] =
           IF IsWaitComplete(@.seen) THEN NoWait ELSE [@ EXCEPT !.pc = "sleep"]]
    /\ UNCHANGED <<row, flag, update, stop>>

\* The limit of the call, if it has one, has passed.
TimeOut(s) ==
    /\ wait[s].pc = "fetched" /\ ~IsWaitComplete(wait[s].seen)
    /\ wait' = [wait EXCEPT ![s] = NoWait]
    /\ UNCHANGED <<row, flag, update, stop>>

\* Mutant: a wait without a limit sleeps until it is notified.
NoHeartbeat(s) == FALSE /\ UNCHANGED vars

\* sleep(min(remaining, HEARTBEAT)).
Heartbeat(s) ==
    /\ wait[s].pc = "sleep"
    /\ wait' = [wait EXCEPT ![s].pc = "check"]
    /\ UNCHANGED <<row, flag, update, stop>>

\* notify_status_change: the waits asleep on x, as target or as caller.
Notified(x) ==
    [s \in Sessions |->
        IF wait[s].pc = "sleep" /\ x \in {s, wait[s].target}
        THEN [wait[s] EXCEPT !.pc = "check"] ELSE wait[s]]
-----------------------------------------------------------------------------
(* update_session_status: the transition lock admits one update at a time.   *)

Persist(s, status, who) ==
    /\ update[s] = "none"
    /\ row' = [row EXCEPT ![s] = status]
    /\ update' = [update EXCEPT ![s] = who]

\* The workflow of s ends: not while one of its tools waits, nor after a cancel
\* that only the end of the batch may consume.  The user may pause it, and a
\* late LLM error may end it, at any time.
Finish(s, status) ==
    /\ row[s] = "busy" /\ status \in Resting
    /\ status = "idle" => wait[s].pc = "none" /\ ~flag[s]
    /\ Persist(s, status, "work")
    /\ UNCHANGED <<flag, wait, stop>>

\* A message or a resume: reset_session_execution_state, then Busy.
Start(s) ==
    /\ row[s] # "busy"
    /\ Persist(s, "busy", "work")
    /\ flag' = [flag EXCEPT ![s] = FALSE]
    /\ UNCHANGED <<wait, stop>>

\* Mutant: the stop operation that asked for the update is forgotten.
AnnounceForgetsStop(s) ==
    /\ update[s] # "none"
    /\ wait' = Notified(s)
    /\ update' = [update EXCEPT ![s] = "none"]
    /\ UNCHANGED <<row, flag, stop>>

\* The change is committed to memory and announced on the bus; a stop operation
\* that asked for it goes on.
Announce(s) ==
    /\ update[s] # "none"
    /\ wait' = Notified(s)
    /\ update' = [update EXCEPT ![s] = "none"]
    /\ stop' = [stop EXCEPT ![s] = IF update[s] = "stop" THEN "reset" ELSE @]
    /\ UNCHANGED <<row, flag>>
-----------------------------------------------------------------------------
(* cancel_workflow and terminate_session of the session s.                   *)

\* Cancel reads the status and whether a batch is pending, which it is while a
\* tool of the session waits; at rest there is nothing to cancel.
CancelRead(s) ==
    /\ stop[s] = "none" /\ "cancel" \in Stops /\ row[s] = "busy"
    /\ \/ stop' = [stop EXCEPT ![s] = "signal"]
       \/ wait[s].pc = "none" /\ stop' = [stop EXCEPT ![s] = "signalPause"]
    /\ UNCHANGED <<row, flag, wait, update>>

CancelSignal(s) ==
    /\ stop[s] \in {"signal", "signalPause"}
    /\ flag' = [flag EXCEPT ![s] = TRUE]
    /\ stop' = [stop EXCEPT ![s] = IF @ = "signal" THEN "notify" ELSE "notifyPause"]
    /\ UNCHANGED <<row, wait, update>>

\* The session's own waits are woken; the flag stays for the end of the batch.
CancelNotify(s) ==
    /\ stop[s] \in {"notify", "notifyPause"}
    /\ wait' = Notified(s)
    /\ stop' = [stop EXCEPT ![s] = IF @ = "notify" THEN "none" ELSE "pause"]
    /\ UNCHANGED <<row, flag, update>>

\* Terminate raises the flag and destroys the proxy, without a notification.
Terminate(s) ==
    /\ stop[s] = "none" /\ "terminate" \in Stops
    /\ flag' = [flag EXCEPT ![s] = TRUE]
    /\ stop' = [stop EXCEPT ![s] = "idle"]
    /\ UNCHANGED <<row, wait, update>>

\* Both write a status; terminate ignores a failure, cancel returns it.
StopRest(s) ==
    /\ stop[s] \in {"pause", "idle"}
    /\ \/ /\ Persist(s, IF stop[s] = "pause" THEN "paused" ELSE "idle", "stop")
          /\ stop' = [stop EXCEPT ![s] = "announce"]
       \/ /\ MayFail
          /\ stop' = [stop EXCEPT ![s] = IF @ = "pause" THEN "none" ELSE "reset"]
          /\ UNCHANGED <<row, update>>
    /\ UNCHANGED <<flag, wait>>

\* The flag is lowered, so that a later workflow does not look cancelled.
StopReset(s) ==
    /\ stop[s] = "reset"
    /\ flag' = [flag EXCEPT ![s] = FALSE]
    /\ stop' = [stop EXCEPT ![s] = "none"]
    /\ UNCHANGED <<row, wait, update>>
-----------------------------------------------------------------------------
WaitStep(s) == CheckFlag(s) \/ Fetch(s) \/ Sleep(s) \/ Heartbeat(s)

Next ==
    \E s \in Sessions :
        \/ \E c \in Sessions : BeginWait(s, c)
        \/ WaitStep(s) \/ TimeOut(s)
        \/ \E status \in Resting : Finish(s, status)
        \/ Start(s) \/ Announce(s)
        \/ CancelRead(s) \/ CancelSignal(s) \/ CancelNotify(s)
        \/ Terminate(s) \/ StopRest(s) \/ StopReset(s)

Spec == Init /\ [][Next]_vars

\* A ready future is polled and a timer fires; nothing is assumed of the
\* sessions that are waited for.
FairSpec == Spec /\ \A s \in Sessions : WF_vars(WaitStep(s)) /\ WF_vars(Announce(s))
-----------------------------------------------------------------------------
(* Properties.                                                              *)

TypeOK ==
    /\ row \in [Sessions -> Statuses] /\ flag \in [Sessions -> BOOLEAN]
    /\ wait \in [Sessions -> [pc : {"none", "check", "fetch", "fetched", "sleep"},
                              target : Sessions \cup {NoParent}, seen : Statuses]]
    /\ \A s \in Sessions : wait[s].pc # "none" =>
           wait[s].target \in Sessions /\ Descends(wait[s].target, s)
    /\ update \in [Sessions -> {"none", "work", "stop"}]
    /\ stop \in [Sessions -> {"none", "signal", "signalPause", "notify", "notifyPause",
                              "pause", "idle", "announce", "reset"}]
    /\ \A s \in Sessions : update[s] = "stop" <=> stop[s] = "announce"

\* No wakeup is lost for good: a wait without a limit goes on for ever only if
\* its target keeps working or starts again and again.  The notification that
\* comes between the read of the row and the registration is made up for by the
\* heartbeat (utils.rs:528-557).
WaitEnds ==
    \A s, c \in Sessions :
        <>[](wait[s].target = c /\ wait[s].pc # "none") => []<>(row[c] = "busy")

\* A cancel that stays in force ends the caller's wait, whatever its target does
\* (utils.rs:512-519, cancel.rs:245-246).
CancelEndsWait ==
    \A s \in Sessions :
        (wait[s].pc # "none" /\ flag[s]) ~> (wait[s].pc = "none" \/ ~flag[s])

\* Nobody waits for a session that waits for it, directly or around a corner:
\* only descendants can be waited for (handlers.rs:222-240).  With a cycle every
\* session of it would wait for all the others.
NoWaitCycle ==
    \A group \in (SUBSET Sessions) \ {{}} :
        \E s \in group : wait[s].pc = "none" \/ wait[s].target \notin group
=============================================================================
