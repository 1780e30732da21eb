----------------------------- MODULE PromptQueue -----------------------------
(***************************************************************************)
(* The prompts of one session: the waiting queue (pending_events in memory, *)
(* the pending_queue index and the messages table in the database), the     *)
(* active message stack, and the workflow loop that claims waiting prompts   *)
(* at the start of every LLM turn (agent/pending_queue.rs, workflow/start.rs,*)
(* workflow/finish.rs).                                                     *)
(*                                                                         *)
(* Every prompt p has its start_workflow call, which either queues p or      *)
(* starts the workflow and goes on as its loop; run[p] is the await point    *)
(* that future is at.  A user may cancel a waiting prompt (cancel[p]) and    *)
(* the session may be terminated (stop).  Status changes are single steps    *)
(* and succeed here: SessionGate models how they are made.                   *)
(***************************************************************************)
EXTENDS Naturals, Sequences, SequencesExt, Queues

CONSTANTS
    Prompts,        \* user messages, each sent once
    ClaimBatch,     \* MAX_PENDING_CLAIM_BATCH
    MaxFaults,      \* bound: how many database operations fail
    MayCancel,      \* whether the user may cancel waiting prompts
    MayTerminate,   \* whether the session may be terminated (once)
    Nobody

ASSUME QueueAssumption ==
    /\ ClaimBatch \in Nat \ {0}
    /\ MaxFaults \in Nat
    /\ MayCancel \in BOOLEAN /\ MayTerminate \in BOOLEAN
    /\ Nobody \notin Prompts

VARIABLES
    status,     \* metadata.status
    cancelled,  \* cancel_pending and the cancelled token of a terminate under way
    waiting,    \* pending_events: the ids of waiting prompts, in FIFO order
    row,        \* [prompt -> text of its messages row; <<>> when there is none]
    seq,        \* [prompt -> queue_seq of its pending_queue row; 0 when none]
    stack,      \* session.messages: the user messages, [id, text]
    expected,   \* the loop whose LLM answer expected_response_id admits
    run,        \* [prompt -> await point of its start_workflow call or loop]
    reply,      \* [prompt -> what start_workflow returned, "none" before]
    hand,       \* [prompt -> claim_ids: message ids its loop drained and not yet settled]
    fetched,    \* [prompt -> fetched_messages: the ones of them that have a row]
    text,       \* [prompt -> the text its loop is about to push]
    saved,      \* [prompt -> the queue_seq its enqueue computed, or that remove_returning gave its claim]
    cancel,     \* [prompt -> await point of cancel_pending_message]
    stop,       \* await point of terminate_session's discard
    drop, protect,  \* its message_ids (then delete_set) and protected_ids
    faults,     \* database failures so far
    queued,     \* history: prompts in the order they entered pending_events
    overtaken   \* history: a loop claimed prompts while another one held a remainder

store == <<waiting, row, seq, stack>>
loop  == <<hand, fetched, text, saved>>
stopping == <<stop, drop, protect>>
vars  == <<status, cancelled, store, expected, run, reply, loop, cancel, stopping, faults, queued, overtaken>>

RunPcs == {"decide", "enqueue", "insertRow", "nextSeq", "insertIndex", "undoRow", "undoMemory",
           "start", "append", "persist", "place", "validate", "claim", "split", "load",
           "takeIndex", "loadOne", "restoreIndex", "giveBack", "merge", "push", "emit",
           "answer", "storeTools", "tools", "final", "store", "rescan", "scan1", "scan2",
           "idle", "error", "errorAgain", "end"}

\* The text of a message is the sequence of the prompts merged into it.
Init ==
    /\ status = "Idle" /\ cancelled = FALSE
    /\ waiting = <<>> /\ stack = <<>> /\ queued = <<>>
    /\ row = [p \in Prompts |-> <<>>]
    /\ seq = [p \in Prompts |-> 0]
    /\ expected = Nobody
    /\ run = [p \in Prompts |-> "decide"]
    /\ reply = [p \in Prompts |-> "none"]
    /\ hand = [p \in Prompts |-> <<>>]
    /\ fetched = [p \in Prompts |-> <<>>]
    /\ text = [p \in Prompts |-> <<>>]
    /\ saved = [p \in Prompts |-> 0]
    /\ cancel = [p \in Prompts |-> "none"]
    /\ stop = "none" /\ drop = {} /\ protect = {}
    /\ faults = 0 /\ overtaken = FALSE
-----------------------------------------------------------------------------
Goto(p, l) == run' = [run EXCEPT ![p] = l]
Reply(p, r) == reply' = [reply EXCEPT ![p] = r]

\* The claim is over: its local variables are gone.
Forget(p) ==
    /\ hand' = [hand EXCEPT ![p] = <<>>] /\ fetched' = [fetched EXCEPT ![p] = <<>>]
    /\ text' = [text EXCEPT ![p] = <<>>] /\ saved' = [saved EXCEPT ![p] = 0]

\* A database operation of the step fails.
Fault == faults < MaxFaults /\ faults' = faults + 1

StackIds == {stack[i].id : i \in DOMAIN stack}
Indexed == {p \in Prompts : seq[p] # 0}

\* next_queue_seq: one more than the largest queue_seq of the table.
NextSeq == 1 + Max({seq[p] : p \in Prompts})

\* The constraints of the pending_queue table: the row it references exists,
\* queue_seq is unique.
MayInsert(m, n) == row[m] # <<>> /\ \A q \in Prompts : seq[q] # n

\* restore_front_pending_messages: ids back at the front, unless they wait.
RestoredFront(ids) == Kept(ids, Prompts \ ToSet(waiting)) \o waiting

\* Rows that are deleted take their index rows with them (ON DELETE CASCADE).
DeleteRows(P) ==
    /\ row' = [p \in Prompts |-> IF p \in P THEN <<>> ELSE row[p]]
    /\ seq' = [p \in Prompts |-> IF p \in P THEN 0 ELSE seq[p]]
-----------------------------------------------------------------------------
(* start_workflow: queue the prompt or start the loop.                       *)

\* The user sends p.  The routing decision: the lock is released before it is
\* acted on.
Decide(p) ==
    /\ run[p] = "decide"
    /\ Goto(p, IF status \in {"Busy", "Queued"} THEN "enqueue" ELSE "start")
    /\ UNCHANGED <<status, cancelled, store, expected, reply, loop, cancel, stopping, faults, queued, overtaken>>

\* enqueue_pending_user_message: memory first ...
Enqueue(p) ==
    /\ run[p] = "enqueue"
    /\ waiting' = Append(waiting, p)
    /\ queued' = Append(queued, p)
    /\ Goto(p, "insertRow")
    /\ UNCHANGED <<status, cancelled, row, seq, stack, expected, reply, loop, cancel, stopping, faults, overtaken>>

\* ... then the messages row (an upsert and the session's timestamp: when the
\* second statement fails the row stays) ...
InsertRow(p) ==
    /\ run[p] = "insertRow"
    /\ \/ row' = [row EXCEPT ![p] = <<p>>] /\ Goto(p, "nextSeq") /\ UNCHANGED faults
       \/ Fault /\ row' \in {row, [row EXCEPT ![p] = <<p>>]} /\ Goto(p, "undoMemory")
    /\ UNCHANGED <<status, cancelled, waiting, seq, stack, expected, reply, loop, cancel, stopping, queued, overtaken>>

\* ... then next_queue_seq is computed ...
ComputeSeq(p) ==
    /\ run[p] = "nextSeq"
    /\ \/ saved' = [saved EXCEPT ![p] = NextSeq] /\ Goto(p, "insertIndex") /\ UNCHANGED faults
       \/ Fault /\ Goto(p, "undoRow") /\ UNCHANGED saved
    /\ UNCHANGED <<status, cancelled, store, expected, reply, hand, fetched, text, cancel, stopping, queued, overtaken>>

\* ... and the index row inserted, if the messages row exists and nobody took
\* the number.  A failure to load the list for the interface afterwards is
\* returned as an error although the prompt is queued.
InsertIndex(p) ==
    LET allowed == MayInsert(p, saved[p]) IN
    /\ run[p] = "insertIndex"
    /\ saved' = [saved EXCEPT ![p] = 0]
    /\ \/ /\ allowed
          /\ seq' = [seq EXCEPT ![p] = saved[p]]
          /\ Goto(p, "end")
          /\ (Reply(p, "ok") /\ UNCHANGED faults) \/ (Reply(p, "error") /\ Fault)
       \/ ~allowed /\ Goto(p, "undoRow") /\ UNCHANGED <<seq, reply, faults>>
       \/ Fault /\ Goto(p, "undoRow") /\ UNCHANGED <<seq, reply>>
    /\ UNCHANGED <<status, cancelled, waiting, row, stack, expected, hand, fetched, text, cancel, stopping, queued, overtaken>>

UndoRow(p) ==
    /\ run[p] = "undoRow"
    /\ \/ DeleteRows({p}) /\ UNCHANGED faults
       \/ Fault /\ UNCHANGED <<row, seq>>
    /\ Goto(p, "undoMemory")
    /\ UNCHANGED <<status, cancelled, waiting, stack, expected, reply, loop, cancel, stopping, queued, overtaken>>

UndoMemory(p) ==
    /\ run[p] = "undoMemory"
    /\ waiting' = Kept(waiting, Prompts \ {p})
    /\ Reply(p, "error") /\ Goto(p, "end")
    /\ UNCHANGED <<status, cancelled, row, seq, stack, expected, loop, cancel, stopping, faults, queued, overtaken>>

\* The session is at rest: a fresh token, Queued, then
\* append_user_message_to_session.
Start(p) ==
    /\ run[p] = "start"
    /\ status' = "Queued" /\ cancelled' = FALSE
    /\ Goto(p, "append")
    /\ UNCHANGED <<store, expected, reply, loop, cancel, stopping, faults, queued, overtaken>>

AppendPrompt(p) ==
    /\ run[p] = "append"
    /\ stack' = Append(stack, [id |-> p, text |-> <<p>>])
    /\ Goto(p, "persist")
    /\ UNCHANGED <<status, cancelled, waiting, row, seq, expected, reply, loop, cancel, stopping, faults, queued, overtaken>>

Persist(p) ==
    /\ run[p] = "persist"
    /\ \/ row' = [row EXCEPT ![p] = <<p>>] /\ Reply(p, "ok") /\ Goto(p, "place") /\ UNCHANGED faults
       \/ Fault /\ row' \in {row, [row EXCEPT ![p] = <<p>>]} /\ Reply(p, "error") /\ Goto(p, "end")
    /\ UNCHANGED <<status, cancelled, waiting, seq, stack, expected, loop, cancel, stopping, queued, overtaken>>

\* The background task: Busy, unless the session was cancelled or left Queued
\* meanwhile; then the proxy has to get ready.
Place(p) ==
    /\ run[p] = "place"
    /\ \/ /\ status = "Queued" /\ ~cancelled
          /\ status' = "Busy"
          /\ Goto(p, "validate") \/ Goto(p, "error")
       \/ /\ status # "Queued" \/ cancelled
          /\ Goto(p, "end") /\ UNCHANGED status
    /\ UNCHANGED <<cancelled, store, expected, reply, loop, cancel, stopping, faults, queued, overtaken>>
-----------------------------------------------------------------------------
(* request_llm_completion: claim_all_pending_messages.                       *)

\* validate_session_status; an error leads to the Error status.
Validate(p) ==
    /\ run[p] = "validate"
    /\ Goto(p, IF status = "Busy" /\ ~cancelled THEN "claim" ELSE "error")
    /\ UNCHANGED <<status, cancelled, store, expected, reply, loop, cancel, stopping, faults, queued, overtaken>>

\* The await point that follows when ids are left to claim.
ClaimStep(ids) == IF Len(ids) = 1 THEN "takeIndex" ELSE "load"

\* Drain everything that waits.
Claim(p) ==
    /\ run[p] = "claim"
    /\ waiting' = <<>>
    /\ hand' = [hand EXCEPT ![p] = waiting]
    /\ Goto(p, IF waiting = <<>> THEN "emit"
               ELSE IF Len(waiting) > ClaimBatch THEN "split" ELSE ClaimStep(waiting))
    /\ overtaken' = (overtaken \/ (waiting # <<>> /\ \E q \in Prompts : run[q] = "split"))
    /\ UNCHANGED <<status, cancelled, row, seq, stack, expected, reply, fetched, text, saved, cancel, stopping, faults, queued>>

\* Mutant: the two halves of the batch are swapped.
SplitSwapped(p) ==
    LET head == SubSeq(hand[p], 1, ClaimBatch)
        tail == SubSeq(hand[p], ClaimBatch + 1, Len(hand[p]))
    IN  /\ run[p] = "split"
        /\ waiting' = RestoredFront(head)
        /\ hand' = [hand EXCEPT ![p] = tail]
        /\ Goto(p, ClaimStep(tail))
        /\ UNCHANGED <<status, cancelled, row, seq, stack, expected, reply, fetched, text, saved, cancel, stopping, faults, queued, overtaken>>

\* More than a batch: the remainder goes back to the front.
Split(p) ==
    LET claimed == SubSeq(hand[p], 1, ClaimBatch)
        remainder == SubSeq(hand[p], ClaimBatch + 1, Len(hand[p]))
    IN  /\ run[p] = "split"
        /\ waiting' = RestoredFront(remainder)
        /\ hand' = [hand EXCEPT ![p] = claimed]
        /\ Goto(p, ClaimStep(claimed))
        /\ UNCHANGED <<status, cancelled, row, seq, stack, expected, reply, fetched, text, saved, cancel, stopping, faults, queued, overtaken>>

\* promote_pending_message_id, for a single prompt: take its index row ...
TakeIndex(p) ==
    LET m == Head(hand[p]) IN
    /\ run[p] = "takeIndex"
    /\ \/ /\ seq[m] # 0
          /\ seq' = [seq EXCEPT ![m] = 0]
          /\ saved' = [saved EXCEPT ![p] = seq[m]]
          /\ Goto(p, "loadOne") /\ UNCHANGED <<hand, fetched, text, faults>>
       \/ seq[m] = 0 /\ Forget(p) /\ Goto(p, "emit") /\ UNCHANGED <<seq, faults>>
       \/ Fault /\ Goto(p, "giveBack") /\ UNCHANGED <<seq, loop>>
    /\ UNCHANGED <<status, cancelled, waiting, row, stack, expected, reply, cancel, stopping, queued, overtaken>>

\* ... and load its row; a prompt without one is skipped.
LoadOne(p) ==
    LET m == Head(hand[p]) IN
    /\ run[p] = "loadOne"
    /\ \/ /\ row[m] # <<>>
          /\ text' = [text EXCEPT ![p] = row[m]]
          /\ Goto(p, "push") /\ UNCHANGED <<hand, fetched, saved, faults>>
       \/ row[m] = <<>> /\ Forget(p) /\ Goto(p, "emit") /\ UNCHANGED faults
       \/ Fault /\ Goto(p, "restoreIndex") /\ UNCHANGED loop
    /\ UNCHANGED <<status, cancelled, store, expected, reply, cancel, stopping, queued, overtaken>>

\* restore_index_entry with the queue_seq it had; a failure is only logged.
RestoreIndex(p) ==
    LET m == Head(hand[p])
        allowed == MayInsert(m, saved[p])
    IN  /\ run[p] = "restoreIndex"
        /\ \/ allowed /\ seq' = [seq EXCEPT ![m] = saved[p]] /\ UNCHANGED faults
           \/ ~allowed /\ UNCHANGED <<seq, faults>>
           \/ Fault /\ UNCHANGED seq
        /\ Goto(p, "giveBack")
        /\ UNCHANGED <<status, cancelled, waiting, row, stack, expected, reply, loop, cancel, stopping, queued, overtaken>>

\* Several prompts: load their rows; the ones without a row are dropped.
Load(p) ==
    LET found == Kept(hand[p], {m \in Prompts : row[m] # <<>>})
    IN  /\ run[p] = "load"
        /\ \/ /\ Len(found) > 1
              /\ text' = [text EXCEPT ![p] = FlattenSeq([i \in DOMAIN found |-> row[found[i]]])]
              /\ fetched' = [fetched EXCEPT ![p] = found]
              /\ Goto(p, "merge") /\ UNCHANGED <<hand, saved, faults>>
           \/ /\ Len(found) = 1
              /\ hand' = [hand EXCEPT ![p] = found]
              /\ Goto(p, "takeIndex") /\ UNCHANGED <<fetched, text, saved, faults>>
           \/ /\ found = <<>> /\ Forget(p)
              /\ (Goto(p, "emit") /\ UNCHANGED faults) \/ (Goto(p, "error") /\ Fault)
           \/ Fault /\ Goto(p, "giveBack") /\ UNCHANGED loop
        /\ UNCHANGED <<status, cancelled, store, expected, reply, cancel, stopping, queued, overtaken>>

\* Mutant: the absorbed rows are deleted, the keeper's row is not rewritten.
MergeKeepsOldRow(p) ==
    /\ run[p] = "merge"
    /\ LET claimed == ToSet(fetched[p]) IN
          /\ row' = [m \in Prompts |-> IF m \in claimed \ {Head(fetched[p])} THEN <<>> ELSE row[m]]
          /\ seq' = [m \in Prompts |-> IF m \in claimed THEN 0 ELSE seq[m]]
    /\ hand' = [hand EXCEPT ![p] = fetched[p]]
    /\ Goto(p, "push")
    /\ UNCHANGED <<status, cancelled, waiting, stack, expected, reply, fetched, text, saved, cancel, stopping, faults, queued, overtaken>>

\* commit_merged_claim, one transaction: the first prompt's row takes the
\* merged text, the absorbed rows and all index rows go.
Merge(p) ==
    LET keeper == Head(fetched[p])
        claimed == ToSet(fetched[p])
    IN  /\ run[p] = "merge"
        /\ \/ /\ row' = [m \in Prompts |-> IF m = keeper THEN text[p]
                                            ELSE IF m \in claimed THEN <<>> ELSE row[m]]
              /\ seq' = [m \in Prompts |-> IF m \in claimed THEN 0 ELSE seq[m]]
              /\ hand' = [hand EXCEPT ![p] = fetched[p]]
              /\ Goto(p, "push")
              /\ UNCHANGED faults
           \/ Fault /\ Goto(p, "giveBack") /\ UNCHANGED <<row, seq, hand>>
        /\ UNCHANGED <<status, cancelled, waiting, stack, expected, reply, fetched, text, saved, cancel, stopping, queued, overtaken>>

\* Mutant: a failed claim does not give the prompts back.
GiveBackNothing(p) ==
    /\ run[p] = "giveBack"
    /\ Forget(p)
    /\ Goto(p, "error")
    /\ UNCHANGED <<status, cancelled, store, expected, reply, cancel, stopping, faults, queued, overtaken>>

\* The claim failed: its ids go back to the front and the request fails.
GiveBack(p) ==
    /\ run[p] = "giveBack"
    /\ waiting' = RestoredFront(hand[p])
    /\ Forget(p)
    /\ Goto(p, "error")
    /\ UNCHANGED <<status, cancelled, row, seq, stack, expected, reply, cancel, stopping, faults, queued, overtaken>>

\* push_message_to_session_cache, unless the id is on the stack.  The list of
\* waiting prompts is then loaded for the interface; when that fails the claim
\* returns an error, with the prompt on the stack.
Push(p) ==
    LET m == Head(hand[p]) IN
    /\ run[p] = "push"
    /\ stack' = IF m \in StackIds THEN stack ELSE Append(stack, [id |-> m, text |-> text[p]])
    /\ Forget(p)
    /\ \/ Goto(p, "emit") /\ UNCHANGED faults
       \/ Goto(p, "error") /\ Fault
    /\ UNCHANGED <<status, cancelled, waiting, row, seq, expected, reply, cancel, stopping, queued, overtaken>>

\* The request goes out, the status is not read again; preparing it (prompt,
\* token limit, empty context) may fail.
Emit(p) ==
    /\ run[p] = "emit"
    /\ \/ expected' = p /\ Goto(p, "answer")
       \/ UNCHANGED expected /\ Goto(p, "error")
    /\ UNCHANGED <<status, cancelled, store, reply, loop, cancel, stopping, faults, queued, overtaken>>
-----------------------------------------------------------------------------
(* handle_llm_response and settlement.                                      *)

\* Admission: the final answer or the tool calls the loop waits for; tool calls
\* that reach the session at rest, whichever request they answer.  Anything else
\* is rejected.
Answer(p) ==
    LET admitted == status = "Busy" /\ ~cancelled /\ expected = p
    IN  /\ run[p] = "answer"
        /\ \/ /\ admitted
              /\ expected' = Nobody
              /\ \E l \in {"final", "storeTools", "validate", "error"} : Goto(p, l)
              /\ UNCHANGED status
           \/ /\ status = "Idle" /\ ~cancelled
              /\ status' = "Busy"
              /\ Goto(p, "storeTools") /\ UNCHANGED expected
           \/ ~admitted /\ Goto(p, "end") /\ UNCHANGED <<status, expected>>
        /\ UNCHANGED <<cancelled, store, reply, loop, cancel, stopping, faults, queued, overtaken>>

\* handle_llm_error: the frontend reports that the request failed.  Neither the
\* status nor the response id is read.
AnswerError(p) ==
    /\ run[p] = "answer"
    /\ Goto(p, "error")
    /\ UNCHANGED <<status, cancelled, store, expected, reply, loop, cancel, stopping, faults, queued, overtaken>>

\* Race mitigation, then the tool calls are stored and the status is written
\* again.
StoreTools(p) ==
    /\ run[p] = "storeTools"
    /\ \/ ~cancelled /\ status' = "Busy" /\ Goto(p, "tools") /\ UNCHANGED faults
       \/ cancelled /\ Goto(p, "end") /\ UNCHANGED <<status, faults>>
       \/ Fault /\ Goto(p, "end") /\ UNCHANGED status
    /\ UNCHANGED <<cancelled, store, expected, reply, loop, cancel, stopping, queued, overtaken>>

\* continue_workflow_after_tool: a tool result with a UI resource settles the
\* session, otherwise the next turn is requested.
Tools(p) ==
    /\ run[p] = "tools"
    /\ \/ ~cancelled /\ Goto(p, "scan1")
       \/ ~cancelled /\ status = "Busy" /\ Goto(p, "validate")
       \/ (cancelled \/ status # "Busy") /\ Goto(p, "end")
    /\ UNCHANGED <<status, cancelled, store, expected, reply, loop, cancel, stopping, faults, queued, overtaken>>

\* Race mitigation, then session_has_pending_events.
Final(p) ==
    /\ run[p] = "final"
    /\ Goto(p, IF cancelled THEN "end" ELSE IF waiting # <<>> THEN "store" ELSE "scan1")
    /\ UNCHANGED <<status, cancelled, store, expected, reply, loop, cancel, stopping, faults, queued, overtaken>>

\* Prompts wait: the answer is stored before the loop goes on.
StoreAnswer(p) ==
    /\ run[p] = "store"
    /\ \/ Goto(p, "rescan") /\ UNCHANGED faults
       \/ Fault /\ Goto(p, "end")
    /\ UNCHANGED <<status, cancelled, store, expected, reply, loop, cancel, stopping, queued, overtaken>>

\* continue_workflow_if_pending_events: in handle_llm_response, which asked
\* before and just returns when nothing waits any more; in
\* settle_before_terminal_transition (once the answer is stored) and in
\* settle_session_and_go_idle.
ScanAfter == [rescan |-> "end", scan1 |-> "scan2", scan2 |-> "idle"]
Scan(p) ==
    /\ run[p] \in DOMAIN ScanAfter
    /\ \/ Goto(p, IF waiting # <<>> THEN "validate" ELSE ScanAfter[run[p]]) /\ UNCHANGED faults
       \/ run[p] = "scan1" /\ Fault /\ Goto(p, "error")
    /\ UNCHANGED <<status, cancelled, store, expected, reply, loop, cancel, stopping, queued, overtaken>>

\* Mutant: writes the completion of the workflow as the session's status.
GoIdleCompleted(p) ==
    /\ run[p] = "idle"
    /\ status' = "Completed"
    /\ Goto(p, "end")
    /\ UNCHANGED <<cancelled, store, expected, reply, loop, cancel, stopping, faults, queued, overtaken>>

\* transition_to_terminal_status_and_emit.
GoIdle(p) ==
    /\ run[p] = "idle"
    /\ status' = "Idle"
    /\ Goto(p, "end")
    /\ UNCHANGED <<cancelled, store, expected, reply, loop, cancel, stopping, faults, queued, overtaken>>

\* settle_session_and_finalize_error: waiting prompts are not looked at.  The
\* background task of start_workflow and handle_terminal_persist_failure write
\* Error once more.
GoError(p) ==
    /\ run[p] \in {"error", "errorAgain"}
    /\ status' = "Error"
    /\ Goto(p, "end") \/ (run[p] = "error" /\ Goto(p, "errorAgain"))
    /\ UNCHANGED <<cancelled, store, expected, reply, loop, cancel, stopping, faults, queued, overtaken>>
-----------------------------------------------------------------------------
(* cancel_pending_message.                                                  *)

Cancelling(p, l) == cancel' = [cancel EXCEPT ![p] = l]

\* Mutant: deletes the prompt whether or not the queue still owns it.
CancelTakeAlways(p) ==
    /\ cancel[p] = "none" /\ MayCancel
    /\ Contains(queued, p) /\ run[p] \in {"nextSeq", "insertIndex", "end"}
    /\ waiting' = Kept(waiting, Prompts \ {p})
    /\ Cancelling(p, "delete")
    /\ UNCHANGED <<status, cancelled, row, seq, stack, expected, run, reply, loop, stopping, faults, queued, overtaken>>

\* The user cancels a prompt the interface lists as waiting: take it out of
\* memory first; a prompt that is not there was claimed.
CancelTake(p) ==
    /\ cancel[p] = "none" /\ MayCancel
    /\ Contains(queued, p) /\ run[p] \in {"nextSeq", "insertIndex", "end"}
    /\ waiting' = Kept(waiting, Prompts \ {p})
    /\ Cancelling(p, IF Contains(waiting, p) THEN "delete" ELSE "refused")
    /\ UNCHANGED <<status, cancelled, row, seq, stack, expected, run, reply, loop, stopping, faults, queued, overtaken>>

\* remove_index_and_message, one transaction; without an index row it does
\* nothing.  When it fails the prompt goes back to the front.
CancelDelete(p) ==
    /\ cancel[p] = "delete"
    /\ \/ seq[p] # 0 /\ DeleteRows({p}) /\ Cancelling(p, "cancelled") /\ UNCHANGED <<waiting, faults>>
       \/ seq[p] = 0 /\ Cancelling(p, "deleteRow") /\ UNCHANGED <<waiting, row, seq, faults>>
       \/ Fault /\ waiting' = RestoredFront(<<p>>) /\ Cancelling(p, "refused") /\ UNCHANGED <<row, seq>>
    /\ UNCHANGED <<status, cancelled, stack, expected, run, reply, loop, stopping, queued, overtaken>>

\* The leftover messages row; a failure is only logged.
CancelDeleteRow(p) ==
    /\ cancel[p] = "deleteRow"
    /\ \/ DeleteRows({p}) /\ UNCHANGED faults
       \/ Fault /\ UNCHANGED <<row, seq>>
    /\ Cancelling(p, "cancelled")
    /\ UNCHANGED <<status, cancelled, waiting, stack, expected, run, reply, loop, stopping, queued, overtaken>>
-----------------------------------------------------------------------------
(* terminate_session and discard_all_pending_messages.                       *)

\* The pending answer is given up and the token cancelled ...
Terminate ==
    /\ stop = "none" /\ MayTerminate
    /\ cancelled' = TRUE
    /\ expected' = Nobody
    /\ stop' = "idle"
    /\ UNCHANGED <<status, store, run, reply, loop, cancel, drop, protect, faults, queued, overtaken>>

\* ... then Idle and a fresh token.
TerminateIdle ==
    /\ stop = "idle"
    /\ status' = "Idle" /\ cancelled' = FALSE
    /\ stop' = "drain"
    /\ UNCHANGED <<store, expected, run, reply, loop, cancel, drop, protect, faults, queued, overtaken>>

\* Drain memory and remember what is on the stack.
DiscardDrain ==
    /\ stop = "drain"
    /\ waiting' = <<>>
    /\ drop' = ToSet(waiting)
    /\ protect' = StackIds
    /\ stop' = "list"
    /\ UNCHANGED <<status, cancelled, row, seq, stack, expected, run, reply, loop, cancel, faults, queued, overtaken>>

\* remove_all_for_session: list the index, then delete it.  A failure ends the
\* discard with memory drained and the rows in place.
DiscardList ==
    /\ stop = "list"
    /\ \/ /\ drop' = (drop \cup Indexed) \ protect
          /\ stop' = IF Indexed = {} THEN "delete" ELSE "clear"
          /\ UNCHANGED faults
       \/ Fault /\ stop' = "end" /\ UNCHANGED drop
    /\ UNCHANGED <<status, cancelled, store, expected, run, reply, loop, cancel, protect, queued, overtaken>>

DiscardClear ==
    /\ stop = "clear"
    /\ \/ seq' = [p \in Prompts |-> 0] /\ stop' = "delete" /\ UNCHANGED faults
       \/ Fault /\ stop' = "end" /\ UNCHANGED seq
    /\ UNCHANGED <<status, cancelled, waiting, row, stack, expected, run, reply, loop, cancel, drop, protect, queued, overtaken>>

\* Delete the rows (a failure is only logged), then take them off the stack.
DiscardDelete ==
    /\ stop = "delete"
    /\ \/ DeleteRows(drop) /\ UNCHANGED faults
       \/ Fault /\ \E p \in drop : DeleteRows(drop \ {p})
    /\ stop' = "retain"
    /\ UNCHANGED <<status, cancelled, waiting, stack, expected, run, reply, loop, cancel, drop, protect, queued, overtaken>>

DiscardRetain ==
    /\ stop = "retain"
    /\ stack' = Kept(stack, {m \in ToSet(stack) : m.id \notin drop})
    /\ stop' = "end" /\ protect' = {}
    /\ UNCHANGED <<status, cancelled, waiting, row, seq, expected, run, reply, loop, cancel, drop, faults, queued, overtaken>>
-----------------------------------------------------------------------------
Sender(p) ==
    \/ Decide(p) \/ Enqueue(p) \/ InsertRow(p) \/ ComputeSeq(p)
    \/ InsertIndex(p) \/ UndoRow(p)
    \/ UndoMemory(p) \/ Start(p) \/ AppendPrompt(p) \/ Persist(p) \/ Place(p)

Loop(p) ==
    \/ Validate(p) \/ Claim(p) \/ Split(p) \/ TakeIndex(p) \/ LoadOne(p) \/ RestoreIndex(p)
    \/ Load(p) \/ Merge(p) \/ GiveBack(p) \/ Push(p) \/ Emit(p)
    \/ Answer(p) \/ AnswerError(p) \/ StoreTools(p) \/ Tools(p)
    \/ Final(p) \/ StoreAnswer(p) \/ Scan(p) \/ GoIdle(p) \/ GoError(p)

Canceller(p) == CancelTake(p) \/ CancelDelete(p) \/ CancelDeleteRow(p)

Stopper ==
    \/ Terminate \/ TerminateIdle \/ DiscardDrain \/ DiscardList \/ DiscardClear \/ DiscardDelete \/ DiscardRetain

Next == Stopper \/ \E p \in Prompts : Sender(p) \/ Loop(p) \/ Canceller(p)

Spec == Init /\ [][Next]_vars
-----------------------------------------------------------------------------
(* Properties.                                                              *)

\* Type invariant: queues and texts are sequences of prompts, every future is
\* at one of its await points.
TypeOK ==
    /\ status \in {"Idle", "Queued", "Busy", "Error"} /\ cancelled \in BOOLEAN
    /\ waiting \in Seq(Prompts) /\ queued \in Seq(Prompts)
    /\ row \in [Prompts -> Seq(Prompts)] /\ text \in [Prompts -> Seq(Prompts)]
    /\ hand \in [Prompts -> Seq(Prompts)] /\ fetched \in [Prompts -> Seq(Prompts)]
    /\ seq \in [Prompts -> Nat] /\ saved \in [Prompts -> Nat]
    /\ stack \in Seq([id : Prompts, text : Seq(Prompts)])
    /\ expected \in Prompts \cup {Nobody}
    /\ run \in [Prompts -> RunPcs]
    /\ reply \in [Prompts -> {"none", "ok", "error"}]
    /\ cancel \in [Prompts -> {"none", "delete", "deleteRow", "cancelled", "refused"}]
    /\ stop \in {"none", "idle", "drain", "list", "clear", "delete", "retain", "end"}
    /\ drop \subseteq Prompts /\ protect \subseteq Prompts
    /\ faults \in 0..MaxFaults /\ overtaken \in BOOLEAN

\* Prompts the LLM has been given.
OnStack == UNION {ToSet(stack[i].text) : i \in DOMAIN stack}
\* Prompts that are being cancelled, were cancelled or were discarded.
Withdrawn == {p \in Prompts : cancel[p] \in {"delete", "deleteRow", "cancelled"}} \cup drop

\* Prompts whose text is in a messages row, their own or one they were merged
\* into.
Stored == UNION {ToSet(row[m]) : m \in Prompts}

\* An accepted prompt that is not withdrawn stays in the messages table, where it
\* survives a crash (pending_queue.rs:1, durable FIFO): no step of a claim, of a
\* merge, of a settlement or of another prompt's cancel takes it out
\* (commit_merged_claim is one transaction).  Only when the row of the prompt it
\* was merged into goes, in the undo of that prompt's failed enqueue or in the
\* discard of a terminate, it goes with it.
StoredSurvives ==
    [][\A p \in Stored : reply[p] = "ok" =>
          \/ p \in Stored' \cup Withdrawn'
          \/ \E m \in Prompts : p \in ToSet(row[m]) /\ (run[m] = "undoRow" \/ m \in drop)]_vars

\* A cancel that reported success wins over every claim in flight: the prompt
\* never reaches the LLM (pending_queue.rs:424-428).
CancelWins == \A p \in Prompts : cancel[p] = "cancelled" => p \notin OnStack

\* Prompts a loop has drained.
InHand == UNION {ToSet(hand[p]) : p \in Prompts}

\* Accepted prompts a claim or a cancel may still touch.
Pending == {p \in ToSet(waiting) \cup InHand : reply[p] = "ok"}

\* Prompts a claim skips: a single claim whose index row is gone, and the ones a
\* batch found no row of.
Skipped ==
    {p \in Prompts : \E r \in Prompts :
        \/ run[r] = "takeIndex" /\ seq[p] = 0 /\ hand[r] = <<p>>
        \/ run[r] = "merge" /\ p \in ToSet(hand[r]) \ ToSet(fetched[r])}

\* An accepted prompt that waits goes on waiting, is claimed, or reaches the
\* LLM, whatever fails on the way and whichever loops race for it, unless the
\* user withdraws it, its index row was lost before, or a batch drained it while
\* its enqueue had not written its row yet (the batch drops it: fetched_messages
\* is all that is left of the claim, pending_queue.rs:346-368).
KeptUntilAnswered ==
    [][\A p \in Pending \ Skipped : p \in Pending' \cup OnStack' \cup Withdrawn']_vars

\* p entered pending_events before q.
Before(p, q) == \E i, j \in DOMAIN queued : i < j /\ queued[i] = p /\ queued[j] = q

\* First in, first out: when a claimed prompt reaches the stack no prompt
\* queued before it is left behind in the queue, batch limit, cancels and a
\* terminate or not.  Only a claim that failed, and one whose remainder was on
\* its way back while another loop claimed newer prompts (the drain and the
\* return are two locks, pending_queue.rs:299-315), may put prompts back behind
\* the loop that overtook it.
FifoClaims ==
    [][faults' = 0 /\ ~overtaken' => \A p \in OnStack' \ OnStack, q \in ToSet(waiting') : ~Before(q, p)]_vars
=============================================================================
