---------------------------- MODULE SessionReopen ----------------------------
(***************************************************************************)
(* What is left of the prompts of one session when the application stops,   *)
(* and what is read back from the database afterwards: recovery at start-up *)
(* (agent/lifecycle/recovery.rs), the message cache that the first command   *)
(* loads (agent/lifecycle/cache.rs) with the hydration of the waiting queue  *)
(* (agent/pending_queue.rs), and opening the session in the interface        *)
(* (commands/agent_commands/session_commands.rs), which happens at any time  *)
(* and tidies up the same index.                                            *)
(*                                                                         *)
(* A future is the start_workflow call of a prompt or a resume_workflow      *)
(* call; it loads the cache if it must and may become the workflow loop.     *)
(* run is the await point it is at.  Nothing fails here but the application  *)
(* itself: PromptQueue has failing writes, cancels, errors and the race      *)
(* between the routing of a prompt and the end of the loop.                  *)
(***************************************************************************)
EXTENDS Naturals, Sequences, SequencesExt, Queues

CONSTANTS
    Prompts,     \* user messages, each sent once
    Resumers,    \* bound: resume_workflow calls
    OpenWindow,  \* initial_message_limit: messages an open looks at
    MaxCrashes,  \* bound: times the application stops
    MaxOpens,    \* bound: times the session is opened
    MaxPauses,   \* bound: times the workflow is paused
    MaxBatches,  \* bound: answers with tool calls
    Nobody

Futures == Prompts \cup Resumers

ASSUME ReopenAssumption ==
    /\ OpenWindow \in Nat \ {0}
    /\ MaxCrashes \in Nat /\ MaxOpens \in Nat /\ MaxPauses \in Nat /\ MaxBatches \in Nat
    /\ Prompts \cap Resumers = {}
    /\ Nobody \notin Futures
    /\ {"answer", "tool"} \cap Prompts = {}

VARIABLES
    \* The database.
    log,       \* the messages table in rowid order
    index,     \* the pending_queue table in queue_seq order
    saved,     \* the status in the sessions table
    \* Memory.
    up,        \* the application runs
    live,      \* the session is in active_sessions
    status,    \* metadata.status
    loaded,    \* cache_initialized
    stack,     \* session.messages
    waiting,   \* pending_events
    expected,  \* the loop whose answer expected_response_id admits
    latch,     \* the load that holds the lock of session.messages
    run, slice, found, hand,         \* local variables of the futures
    open, mood, view, protect,       \* local variables of agent_open_session
    crashes, opens, pauses, batches, \* counters of the bounds
    accepted,  \* history: prompts whose call succeeded
    sent,      \* history: prompts a request has carried to the LLM
    missed,    \* history: prompts a claim took before their call had succeeded, or passed over
    raced      \* history: the cache was loaded although it was loaded

disk    == <<log, index, saved>>
session == <<live, status, loaded, stack, waiting, expected, latch>>
locals  == <<run, slice, found, hand>>
opening == <<open, mood, view, protect>>
bounds  == <<crashes, opens, pauses, batches>>
history == <<accepted, sent, missed, raced>>
vars    == <<disk, up, session, locals, opening, bounds, history>>

\* A message has an id, the prompt's own or the kind of the LLM's side, and
\* the prompts whose text it holds.
Message(id, text) == [id |-> id, text |-> text]
Prompt(p) == Message(p, {p})
Answer == Message("answer", {})
Result == Message("tool", {})
Messages == [id : Prompts \cup {"answer", "tool"}, text : SUBSET Prompts]

NoneFound == [waiters |-> <<>>, stale |-> {}]

Init ==
    /\ log = <<>> /\ index = <<>> /\ saved = "Idle"
    /\ up = TRUE /\ live = TRUE /\ status = "Idle" /\ loaded = FALSE
    /\ stack = <<>> /\ waiting = <<>> /\ expected = Nobody /\ latch = Nobody
    /\ run = [f \in Futures |-> "ready"]
    /\ slice = [f \in Futures |-> <<>>]
    /\ found = [f \in Futures |-> NoneFound]
    /\ hand = [f \in Futures |-> <<>>]
    /\ open = "none" /\ mood = "Idle" /\ view = <<>> /\ protect = {}
    /\ crashes = 0 /\ opens = 0 /\ pauses = 0 /\ batches = 0
    /\ accepted = {} /\ sent = {} /\ missed = {} /\ raced = FALSE
-----------------------------------------------------------------------------
Goto(f, l) == run' = [run EXCEPT ![f] = l]

Ids(messages) == {m.id : m \in ToSet(messages)}
Texts(messages) == UNION {m.text : m \in ToSet(messages)}
Without(messages, ids) == Kept(messages, {m \in ToSet(messages) : m.id \notin ids})

\* What the rows of the given prompts say.
Said(ids) == UNION {m.text : m \in {r \in ToSet(log) : r.id \in ids}}

\* The row of prompt p.
RowOf(p) == CHOOSE m \in ToSet(log) : m.id = p

\* update_session_status, row and memory.  It takes the lock of
\* active_sessions, which a load holds for reading.
SetStatus(s) == latch = Nobody /\ status' = s /\ saved' = s

\* Mutant: the last message of any role.
TipOfAnyRole(messages) ==
    IF messages # <<>> THEN {messages[Len(messages)].id} ELSE {}

\* incomplete_turn_user_id.  Recovery messages are not modelled: it skips them.
Tip(messages) ==
    IF messages # <<>> /\ messages[Len(messages)].id \in Prompts
      THEN {messages[Len(messages)].id} ELSE {}

\* The prompts an open or a hydration protects besides the active stack.
TipAtRest(s, messages) == IF s \in {"Idle", "Paused"} THEN Tip(messages) ELSE {}

\* classify_pending_queue_ids: the LLM has answered after it, or it is
\* protected.
Stale(messages, kept) ==
    {p \in ToSet(index) :
        \/ p \in kept
        \/ \E i, j \in DOMAIN messages : i < j /\ messages[i].id = p /\ messages[j].id = "answer"}
-----------------------------------------------------------------------------
(* ensure_cache_initialized, init_session_with_messages.                     *)

\* A command begins.  Whether the cache is loaded is asked under a lock that is
\* released before the cache is.
Begin(f, next) ==
    /\ up /\ live /\ run[f] = "ready"
    /\ Goto(f, IF loaded THEN next ELSE "slice")
    /\ UNCHANGED <<disk, up, session, slice, found, hand, opening, bounds, history>>

Send(p) == p \in Prompts /\ Begin(p, "route")
Resume(r) == r \in Resumers /\ Begin(r, "queue")

\* get_recent_slice, with a window that covers the transcript.
ReadSlice(f) ==
    /\ run[f] = "slice"
    /\ slice' = [slice EXCEPT ![f] = log]
    /\ Goto(f, "install")
    /\ UNCHANGED <<disk, up, session, found, hand, opening, bounds, history>>

\* Under the lock the messages are replaced, and hydrate_pending_queue_into_session
\* compares them with the index.
Install(f) ==
    LET stale == Stale(slice[f], TipAtRest(status, slice[f]))
    IN  /\ run[f] = "install" /\ latch = Nobody
        /\ latch' = f
        /\ stack' = slice[f]
        /\ slice' = [slice EXCEPT ![f] = <<>>]
        /\ found' = [found EXCEPT ![f] =
              [waiters |-> Kept(index, Prompts \ stale), stale |-> stale]]
        /\ raced' = (raced \/ loaded)
        /\ Goto(f, "purge")
        /\ UNCHANGED <<disk, up, live, status, loaded, waiting, expected, hand, opening, bounds, accepted, sent, missed>>

\* purge_stale_pending_index_rows.
PurgeIndex(f) ==
    /\ run[f] = "purge"
    /\ index' = Kept(index, Prompts \ found[f].stale)
    /\ Goto(f, "rebuild")
    /\ UNCHANGED <<log, saved, up, session, slice, found, hand, opening, bounds, history>>

\* Mutant: pending_events is cleared last.
RebuildCleared(f) ==
    /\ run[f] = "rebuild"
    /\ waiting' = <<>>
    /\ stack' = Without(stack, ToSet(found[f].waiters))
    /\ loaded' = TRUE /\ latch' = Nobody
    /\ found' = [found EXCEPT ![f] = NoneFound]
    /\ Goto(f, IF f \in Prompts THEN "route" ELSE "queue")
    /\ UNCHANGED <<disk, up, live, status, expected, slice, hand, opening, bounds, history>>

\* Mutant: the waiters stay in the messages.
RebuildKeepsStack(f) ==
    /\ run[f] = "rebuild"
    /\ waiting' = found[f].waiters
    /\ loaded' = TRUE /\ latch' = Nobody
    /\ found' = [found EXCEPT ![f] = NoneFound]
    /\ Goto(f, IF f \in Prompts THEN "route" ELSE "queue")
    /\ UNCHANGED <<disk, up, live, status, stack, expected, slice, hand, opening, bounds, history>>

\* The waiters leave the messages for pending_events.
Rebuild(f) ==
    /\ run[f] = "rebuild"
    /\ waiting' = found[f].waiters
    /\ stack' = Without(stack, ToSet(found[f].waiters))
    /\ loaded' = TRUE /\ latch' = Nobody
    /\ found' = [found EXCEPT ![f] = NoneFound]
    /\ Goto(f, IF f \in Prompts THEN "route" ELSE "queue")
    /\ UNCHANGED <<disk, up, live, status, expected, slice, hand, opening, bounds, history>>
-----------------------------------------------------------------------------
(* start_workflow and resume_workflow.                                      *)

\* A prompt waits while the session is busy, or starts the workflow.
Route(p) ==
    /\ run[p] = "route" /\ latch = Nobody
    /\ \/ /\ status \in {"Busy", "Queued"}
          /\ waiting' = Append(waiting, p)
          /\ Goto(p, "insertRow") /\ UNCHANGED <<saved, status>>
       \/ /\ status \notin {"Busy", "Queued"}
          /\ SetStatus("Queued")
          /\ Goto(p, "append") /\ UNCHANGED waiting
    /\ UNCHANGED <<log, index, up, live, loaded, stack, expected, latch, slice, found, hand, opening, bounds, history>>

InsertRow(p) ==
    /\ run[p] = "insertRow"
    /\ log' = Append(log, Prompt(p))
    /\ Goto(p, "insertIndex")
    /\ UNCHANGED <<index, saved, up, session, slice, found, hand, opening, bounds, history>>

\* The index row references the message; when a merge has deleted it the call
\* is undone.
InsertIndex(p) ==
    /\ run[p] = "insertIndex"
    /\ \/ /\ p \in Ids(log)
          /\ index' = Append(index, p)
          /\ accepted' = accepted \cup {p}
          /\ UNCHANGED waiting
       \/ /\ p \notin Ids(log)
          /\ waiting' = Kept(waiting, Prompts \ {p})
          /\ UNCHANGED <<index, accepted>>
    /\ Goto(p, "end")
    /\ UNCHANGED <<log, saved, up, live, status, loaded, stack, expected, latch, slice, found, hand,
                   opening, bounds, sent, missed, raced>>

\* append_user_message_to_session: the cache, then the table.
AppendPrompt(p) ==
    /\ run[p] = "append" /\ latch = Nobody
    /\ stack' = Append(stack, Prompt(p))
    /\ Goto(p, "persist")
    /\ UNCHANGED <<disk, up, live, status, loaded, waiting, expected, latch, slice, found, hand, opening, bounds, history>>

Persist(p) ==
    /\ run[p] = "persist"
    /\ log' = Append(log, Prompt(p))
    /\ accepted' = accepted \cup {p}
    /\ Goto(p, "place")
    /\ UNCHANGED <<index, saved, up, session, slice, found, hand, opening, bounds, sent, missed, raced>>

QueueResume(r) ==
    /\ run[r] = "queue"
    /\ SetStatus("Queued")
    /\ Goto(r, "place")
    /\ UNCHANGED <<log, index, up, live, loaded, stack, waiting, expected, latch, slice, found, hand, opening, bounds, history>>

\* The background task, unless the session was paused meanwhile.
Place(f) ==
    /\ run[f] = "place" /\ latch = Nobody
    /\ \/ status = "Queued" /\ SetStatus("Busy") /\ Goto(f, "claim")
       \/ status # "Queued" /\ Goto(f, "end") /\ UNCHANGED <<status, saved>>
    /\ UNCHANGED <<log, index, up, live, loaded, stack, waiting, expected, latch, slice, found, hand, opening, bounds, history>>
-----------------------------------------------------------------------------
(* The workflow loop: claim, request, answer.                               *)

\* validate_session_status, then claim_all_pending_messages drains the queue.
Claim(f) ==
    /\ run[f] = "claim"
    /\ \/ /\ status = "Busy"
          /\ waiting' = <<>>
          /\ hand' = [hand EXCEPT ![f] = waiting]
          /\ missed' = missed \cup (ToSet(waiting) \ accepted)
          /\ Goto(f, CASE waiting = <<>> -> "emit" [] Len(waiting) = 1 -> "takeIndex" [] OTHER -> "merge")
       \/ status # "Busy" /\ Goto(f, "fail") /\ UNCHANGED <<waiting, hand, missed>>
    /\ UNCHANGED <<disk, up, live, status, loaded, stack, expected, latch, slice, found, opening, bounds,
                   accepted, sent, raced>>

\* Mutant: the index row of a single claim stays.
TakeIndexKeepsRow(f) ==
    LET p == Head(hand[f]) IN
    /\ run[f] = "takeIndex"
    /\ p \in ToSet(index) /\ Goto(f, "push")
    /\ UNCHANGED <<disk, up, session, slice, found, hand, opening, bounds, history>>

\* promote_pending_message_id: without its index row a prompt is missed, and what
\* was merged into it.
TakeIndex(f) ==
    LET p == Head(hand[f]) IN
    /\ run[f] = "takeIndex"
    /\ \/ /\ p \in ToSet(index)
          /\ index' = Kept(index, Prompts \ {p})
          /\ Goto(f, "push") /\ UNCHANGED <<hand, missed>>
       \/ /\ p \notin ToSet(index)
          /\ hand' = [hand EXCEPT ![f] = <<>>]
          /\ missed' = missed \cup {p} \cup Said({p})
          /\ Goto(f, "emit") /\ UNCHANGED index
    /\ UNCHANGED <<log, saved, up, session, slice, found, opening, bounds, accepted, sent, raced>>

\* Several prompts: load their rows, skip those without one and, in one
\* transaction, merge the others into the first one's.
Merge(f) ==
    LET rows == Kept(hand[f], Ids(log))
        keeper == Head(rows)
        text == Said(ToSet(rows))
        left == Without(log, ToSet(Tail(rows)))
    IN  /\ run[f] = "merge"
        /\ hand' = [hand EXCEPT ![f] = rows]
        /\ \/ /\ Len(rows) > 1
              /\ log' = [i \in DOMAIN left |-> IF left[i].id = keeper THEN Message(keeper, text) ELSE left[i]]
              /\ index' = Kept(index, Prompts \ ToSet(rows))
              /\ Goto(f, "push")
           \/ Len(rows) = 1 /\ Goto(f, "takeIndex") /\ UNCHANGED <<log, index>>
           \/ Len(rows) = 0 /\ Goto(f, "emit") /\ UNCHANGED <<log, index>>
        /\ UNCHANGED <<saved, up, session, slice, found, opening, bounds, history>>

\* The claimed message reaches the stack, unless it is there or its row is gone.
Push(f) ==
    LET p == Head(hand[f]) IN
    /\ run[f] = "push" /\ latch = Nobody
    /\ stack' = IF p \in Ids(log) \ Ids(stack) THEN Append(stack, RowOf(p)) ELSE stack
    /\ hand' = [hand EXCEPT ![f] = <<>>]
    /\ Goto(f, "emit")
    /\ UNCHANGED <<disk, up, live, status, loaded, waiting, expected, latch, slice, found, opening, bounds, history>>

\* The request carries the stack.
Emit(f) ==
    /\ run[f] = "emit" /\ latch = Nobody
    /\ expected' = f
    /\ sent' = sent \cup Texts(stack)
    /\ Goto(f, "answer")
    /\ UNCHANGED <<disk, up, live, status, loaded, stack, waiting, latch, slice, found, hand, opening, bounds,
                   accepted, missed, raced>>

\* handle_llm_response: an admitted answer is cached first; it is final or has
\* tool calls.
Receive(f) ==
    /\ run[f] = "answer" /\ latch = Nobody
    /\ \/ /\ status = "Busy" /\ expected = f
          /\ expected' = Nobody
          /\ stack' = Append(stack, Answer)
          /\ \/ Goto(f, "final") /\ UNCHANGED batches
             \/ batches < MaxBatches /\ batches' = batches + 1 /\ Goto(f, "storeTools")
       \/ ~(status = "Busy" /\ expected = f) /\ Goto(f, "end") /\ UNCHANGED <<expected, stack, batches>>
    /\ UNCHANGED <<disk, up, live, status, loaded, waiting, latch, slice, found, hand, opening,
                   crashes, opens, pauses, history>>

StoreTools(f) ==
    /\ run[f] = "storeTools"
    /\ log' = Append(log, Answer)
    /\ Goto(f, "busy")
    /\ UNCHANGED <<index, saved, up, session, slice, found, hand, opening, bounds, history>>

\* The status is written again, and the tools run.
MarkBusy(f) ==
    /\ run[f] = "busy"
    /\ SetStatus("Busy")
    /\ Goto(f, "tools")
    /\ UNCHANGED <<log, index, up, live, loaded, stack, waiting, expected, latch, slice, found, hand, opening, bounds, history>>

\* The result of the batch reaches cache and table; the loop goes on unless the
\* session was paused (continue_workflow_after_tool).
Tools(f) ==
    /\ run[f] = "tools" /\ latch = Nobody
    /\ stack' = Append(stack, Result) /\ log' = Append(log, Result)
    /\ Goto(f, IF status = "Busy" THEN "claim" ELSE "end")
    /\ UNCHANGED <<index, saved, up, live, status, loaded, waiting, expected, latch, slice, found, hand, opening, bounds, history>>

\* The final answer is stored, and the queue scanned.
Final(f) ==
    /\ run[f] = "final"
    /\ log' = Append(log, Answer)
    /\ Goto(f, IF waiting # <<>> THEN "claim" ELSE "idle")
    /\ UNCHANGED <<index, saved, up, session, slice, found, hand, opening, bounds, history>>

\* transition_to_terminal_status_and_emit; the error of a turn that is not
\* allowed.
Settle(f) ==
    /\ \/ run[f] = "idle" /\ SetStatus("Idle")
       \/ run[f] = "fail" /\ SetStatus("Error")
    /\ Goto(f, "end")
    /\ UNCHANGED <<log, index, up, live, loaded, stack, waiting, expected, latch, slice, found, hand, opening, bounds, history>>

\* pause_workflow.
Pause ==
    /\ up /\ live /\ status = "Busy" /\ pauses < MaxPauses
    /\ SetStatus("Paused")
    /\ pauses' = pauses + 1
    /\ UNCHANGED <<log, index, up, live, loaded, stack, waiting, expected, latch, locals, opening, crashes, opens, batches, history>>
-----------------------------------------------------------------------------
(* agent_open_session.                                                      *)

\* The metadata is copied; a session that is not live is made so
\* (resume_session).
OpenStart ==
    /\ up /\ open = "none" /\ opens < MaxOpens /\ latch = Nobody
    /\ opens' = opens + 1
    /\ live' = TRUE
    /\ status' = IF live THEN status ELSE saved
    /\ mood' = status'
    /\ open' = "slice"
    /\ UNCHANGED <<disk, up, loaded, stack, waiting, expected, latch, locals, view, protect, crashes, pauses, batches, history>>

OpenSlice ==
    /\ open = "slice"
    /\ view' = SubSeq(log, IF Len(log) > OpenWindow THEN Len(log) - OpenWindow + 1 ELSE 1, Len(log))
    /\ open' = "protect"
    /\ UNCHANGED <<disk, up, session, locals, mood, protect, bounds, history>>

\* What is on the active stack is protected, and the last prompt of a session
\* that was at rest.
OpenProtect ==
    /\ open = "protect" /\ latch = Nobody
    /\ protect' = (Ids(stack) \cap Prompts) \cup TipAtRest(mood, view)
    /\ open' = "list"
    /\ UNCHANGED <<disk, up, session, locals, mood, view, bounds, history>>

\* strip_pending_queue_messages_with_protect: classify the index rows ...
OpenList ==
    /\ open = "list"
    /\ protect' = Stale(view, protect)
    /\ view' = <<>>
    /\ open' = "purge"
    /\ UNCHANGED <<disk, up, session, locals, mood, bounds, history>>

\* ... and purge the stale ones.
OpenPurge ==
    /\ open = "purge"
    /\ index' = Kept(index, Prompts \ protect)
    /\ protect' = {} /\ mood' = "Idle" /\ open' = "none"
    /\ UNCHANGED <<log, saved, up, session, locals, view, bounds, history>>
-----------------------------------------------------------------------------
(* The application stops and starts again.                                  *)

\* Memory is gone, and with it every future.
Crash ==
    /\ up /\ crashes < MaxCrashes
    /\ crashes' = crashes + 1
    /\ up' = FALSE /\ live' = FALSE /\ loaded' = FALSE
    /\ status' = saved
    /\ stack' = <<>> /\ waiting' = <<>> /\ expected' = Nobody /\ latch' = Nobody
    /\ run' = [f \in Futures |-> IF run[f] = "ready" THEN "ready" ELSE "end"]
    /\ slice' = [f \in Futures |-> <<>>]
    /\ found' = [f \in Futures |-> NoneFound]
    /\ hand' = [f \in Futures |-> <<>>]
    /\ open' = "none" /\ mood' = "Idle" /\ view' = <<>> /\ protect' = {}
    /\ UNCHANGED <<disk, opens, pauses, batches, history>>

\* recover_sessions: what was busy is paused, what was queued is idle; both are
\* live again.
Recover ==
    /\ ~up
    /\ up' = TRUE
    /\ live' = (saved \in {"Busy", "Queued"})
    /\ saved' = CASE saved = "Busy" -> "Paused" [] saved = "Queued" -> "Idle" [] OTHER -> saved
    /\ status' = saved'
    /\ UNCHANGED <<log, index, loaded, stack, waiting, expected, latch, locals, opening, bounds, history>>
-----------------------------------------------------------------------------
Load(f) == ReadSlice(f) \/ Install(f) \/ PurgeIndex(f) \/ Rebuild(f)

Enter(p) == Send(p) \/ Route(p) \/ InsertRow(p) \/ InsertIndex(p) \/ AppendPrompt(p) \/ Persist(p)

Loop(f) ==
    \/ Place(f) \/ Claim(f) \/ TakeIndex(f) \/ Merge(f) \/ Push(f) \/ Emit(f)
    \/ Receive(f) \/ StoreTools(f) \/ MarkBusy(f) \/ Tools(f) \/ Final(f) \/ Settle(f)

Open == OpenStart \/ OpenSlice \/ OpenProtect \/ OpenList \/ OpenPurge

Next ==
    \/ \E f \in Futures : Load(f) \/ Loop(f)
    \/ \E p \in Prompts : Enter(p)
    \/ \E r \in Resumers : Resume(r) \/ QueueResume(r)
    \/ Pause \/ Open \/ Crash \/ Recover

Spec == Init /\ [][Next]_vars
-----------------------------------------------------------------------------
(* Properties.                                                              *)

FoundSets == [waiters : Seq(Prompts), stale : SUBSET Prompts]

\* Type invariant: tables, cache and queue are sequences, every future is at one
\* of its await points.
TypeOK ==
    /\ log \in Seq(Messages) /\ index \in Seq(Prompts)
    /\ saved \in {"Idle", "Queued", "Busy", "Paused", "Error"}
    /\ status \in {"Idle", "Queued", "Busy", "Paused", "Error"}
    /\ up \in BOOLEAN /\ live \in BOOLEAN /\ loaded \in BOOLEAN /\ raced \in BOOLEAN
    /\ stack \in Seq(Messages) /\ waiting \in Seq(Prompts)
    /\ expected \in Futures \cup {Nobody} /\ latch \in Futures \cup {Nobody}
    /\ run \in [Futures ->
          {"ready", "slice", "install", "purge", "rebuild", "route", "insertRow", "insertIndex", "append",
           "persist", "queue", "place", "claim", "takeIndex", "merge", "push", "emit", "answer", "storeTools",
           "busy", "tools", "final", "idle", "fail", "end"}]
    /\ slice \in [Futures -> Seq(Messages)] /\ found \in [Futures -> FoundSets]
    /\ hand \in [Futures -> Seq(Prompts)]
    /\ open \in {"none", "slice", "protect", "list", "purge"}
    /\ mood \in {"Idle", "Queued", "Busy", "Paused", "Error"}
    /\ view \in Seq(Messages) /\ protect \subseteq Prompts
    /\ crashes \in 0..MaxCrashes /\ opens \in 0..MaxOpens
    /\ pauses \in 0..MaxPauses /\ batches \in 0..MaxBatches
    /\ accepted \subseteq Prompts /\ sent \subseteq Prompts /\ missed \subseteq Prompts

\* Prompts a loop has drained.
InHand == UNION {ToSet(hand[f]) : f \in Futures}

\* An accepted prompt is on the active stack, waits or is being claimed as soon
\* as the cache is loaded, and is in the messages table until then, whenever the
\* application stopped (cache.rs, pending_queue.rs:754).  Not so a prompt that a
\* claim took too early or passed over, nor anything once two commands have
\* loaded the cache at the same time.
NoneForgotten ==
    /\ accepted \subseteq Texts(log)
    /\ loaded /\ ~raced => accepted \ missed \subseteq Texts(stack) \cup Said(ToSet(waiting) \cup InHand)

\* A prompt is at one place: no part of the active stack repeats it, and what is
\* on the stack does not wait as well, in whichever order prompts are loaded,
\* restored, claimed and merged (pending_queue.rs:745-753), unless two commands have
\* loaded the cache at the same time.
OnePlace ==
    ~raced =>
        /\ \A i, j \in DOMAIN stack : i # j => stack[i].text \cap stack[j].text = {}
        /\ Texts(stack) \cap Said(ToSet(waiting) \cup InHand) = {}

\* A prompt the LLM has been given does not wait again, and no index row of it is
\* left from which a restart would let it wait, so that no claim promotes it a
\* second time (pending_queue.rs:622-624).
\* Not so a prompt that a claim took before its index row was there, nor when
\* two commands have loaded the cache at the same time.
SentNeverWaits == ~raced => sent \cap (ToSet(waiting) \cup ToSet(index)) \subseteq missed

\* A prompt that waits is claimed at the start of an LLM turn
\* (pending_queue.rs:7-8): no claim passes over a prompt whose call has
\* succeeded.
WaitersAreClaimed == [][\A p \in missed' \ missed : p \notin accepted]_vars
=============================================================================
