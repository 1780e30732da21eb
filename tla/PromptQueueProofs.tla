--------------------------- MODULE PromptQueueProofs ---------------------------
(***************************************************************************)
(* What PromptQueue promises for any set of prompts, any batch size, any     *)
(* number of failures, cancels and a terminate:                             *)
(*   TypeOK             every state is well formed,                         *)
(*   CancelWins         a cancelled prompt never reaches the LLM,           *)
(*   StoredSurvives     an accepted prompt stays in the database,           *)
(*   KeptUntilAnswered  and in the queue until a claim pushes it,           *)
(*   FifoClaims         prompts reach the LLM in the order they were sent.  *)
(***************************************************************************)
EXTENDS PromptQueue, QueueLemmas

-----------------------------------------------------------------------------
(* The inductive invariant.                                                 *)

\* Where a call is whose prompt is not queued yet, where one is whose prompt was
\* queued, and where a loop is that holds prompts.
Unqueued == {"decide", "enqueue", "start", "append"}
Queueing == {"insertRow", "nextSeq", "insertIndex", "undoRow", "undoMemory", "end"}
Holding  == {"split", "load", "takeIndex", "loadOne", "restoreIndex", "giveBack", "merge", "push"}

\* Where start_workflow has not answered.
Unanswered == Unqueued \cup (Queueing \ {"end"}) \cup {"persist"}

Waits   == ToSet(waiting)
Held(r) == ToSet(hand[r])
Queued  == ToSet(queued)
Gone    == {"delete", "deleteRow", "cancelled"}

\* The pending_queue table has a largest queue_seq.
Bounded == \E n \in Nat : \A p \in Prompts : seq[p] <= n

\* The local variables of a claim are what its await point makes them.
HandTyped ==
    \A r \in Prompts :
        /\ hand[r] # <<>> <=> run[r] \in Holding
        /\ run[r] \in {"takeIndex", "loadOne", "restoreIndex"} => Len(hand[r]) = 1
        /\ run[r] = "split" => Len(hand[r]) > ClaimBatch
        /\ run[r] = "merge" => fetched[r] # <<>>

Typed == TypeOK /\ Bounded /\ HandTyped

\* A prompt is queued once and has one owner, the queue or a loop.
Owned ==
    /\ Ordered(queued, Differ(Prompts)) /\ Ordered(waiting, Differ(Prompts))
    /\ \A r \in Prompts : Ordered(hand[r], Differ(Prompts)) /\ Held(r) \cap Waits = {}
    /\ \A r, s \in Prompts : r # s => Held(r) \cap Held(s) = {}
    /\ Waits \subseteq Queued /\ \A r \in Prompts : Held(r) \subseteq Queued
    /\ \A p \in Queued : run[p] \in Queueing

\* s has its elements in the order of t.
Follows(s, t) == \A R : Ordered(t, R) => Ordered(s, R)

\* A batch that is committed, and what is pushed, is what the loop holds.
Loaded ==
    \A r \in Prompts :
        /\ run[r] = "merge" =>
              /\ ToSet(fetched[r]) \subseteq Held(r) /\ ToSet(text[r]) = ToSet(fetched[r])
              /\ Follows(fetched[r], hand[r])
              /\ \A m \in ToSet(fetched[r]) : run[m] # "insertRow"
        /\ run[r] = "push" => ToSet(text[r]) = Held(r)

\* Prompts no merge has been committed for.
Alone ==
    {p \in Prompts : \/ p \in Waits
                     \/ \E r \in Prompts : run[r] # "push" /\ p \in Held(r)
                     \/ cancel[p] \in {"delete", "deleteRow"}}

\* Their rows are their own, and a row is not there before it is inserted.
RowsOwn ==
    /\ \A p \in Alone : row[p] \in {<<>>, <<p>>}
    /\ \A p \in Prompts : run[p] \in Unqueued \cup {"insertRow", "persist"} => row[p] = <<>>

\* What is on the stack was started or claimed, and is owned by nobody else.
StackOwned ==
    /\ \A m \in ToSet(stack) : m.id \in ToSet(m.text)
    /\ \A p \in OnStack : /\ run[p] \notin Unqueued /\ p \notin Waits
                          /\ \A r \in Prompts : p \notin Held(r)

\* A cancel takes a prompt only out of the queue.
CancelOwned ==
    \A p \in Prompts :
        /\ cancel[p] # "none" => p \in Queued
        /\ cancel[p] \in Gone => p \notin Waits /\ p \notin OnStack /\ \A r \in Prompts : p \notin Held(r)

\* An accepted prompt that is nobody's yet has its row, unless a terminate drops it.
AcceptedKept ==
    /\ \A p \in Prompts : run[p] \in Unanswered => reply[p] = "none"
    /\ \A p \in Alone : reply[p] = "ok" => row[p] # <<>> \/ p \in drop
    /\ stop \in {"none", "idle", "drain"} => drop = {}
    /\ protect \subseteq OnStack

\* While no claim failed and none was overtaken, queue and loops hold prompts in
\* the order they were queued: first what the loops hold, then what waits.
Earlier == {d \in Prompts \X Prompts : Before(d[1], d[2])}
InOrder ==
    /\ Ordered(waiting, Earlier)
    /\ \A r \in Prompts :
          /\ Ordered(hand[r], Earlier)
          /\ \A x \in Held(r), y \in Waits : <<x, y>> \in Earlier
    /\ \A r, s \in Prompts : run[r] = "split" /\ s # r =>
          \A x \in Held(s), y \in Held(r) : <<x, y>> \in Earlier
FifoKept ==
    /\ \A r \in Prompts : run[r] \in {"giveBack", "restoreIndex"} => faults > 0
    /\ faults = 0 /\ ~overtaken => InOrder

IInv ==
    /\ Typed /\ Owned /\ Loaded /\ RowsOwn /\ StackOwned /\ CancelOwned /\ AcceptedKept /\ FifoKept
-----------------------------------------------------------------------------
(* Operators of the model.                                                  *)

\* What goes back to the front joins what waits.
LEMMA RestoredFrontSet ==
    ASSUME NEW s \in Seq(Prompts), waiting \in Seq(Prompts)
    PROVE  /\ RestoredFront(s) \in Seq(Prompts)
           /\ ToSet(RestoredFront(s)) = ToSet(s) \cup Waits
           /\ \A R : Ordered(s, R) /\ Ordered(waiting, R) /\ ToSet(s) \X Waits \subseteq R
                         => Ordered(RestoredFront(s), R)
           /\ \A R : Ordered(s, Differ(Prompts)) /\ Ordered(waiting, Differ(Prompts))
                         => Ordered(RestoredFront(s), Differ(Prompts))
<1>. DEFINE k == Kept(s, Prompts \ Waits)
<1>0. waiting \in Seq(Prompts)
    OBVIOUS
<1>1. k \in Seq(Prompts) /\ ToSet(k) = ToSet(s) \cap (Prompts \ Waits)
    BY KeptProperties
<1>2. ToSet(s) \subseteq Prompts /\ Waits \subseteq Prompts
    BY SmallSets DEF Waits
<1>4. \A R : Ordered(s, R) => Ordered(k, R)
    BY KeptOrdered
<1>. HIDE DEF k
<1>3. k \o waiting \in Seq(Prompts) /\ ToSet(k \o waiting) = ToSet(k) \cup Waits
    BY <1>0, <1>1, ConcatSet DEF Waits
<1>5. ASSUME NEW R, Ordered(s, R), Ordered(waiting, R), ToSet(k) \X Waits \subseteq R
      PROVE  Ordered(k \o waiting, R)
    BY <1>1, <1>4, <1>5, ConcatOrdered DEF Waits
<1>6. ToSet(k) \X Waits \subseteq Differ(Prompts)
    BY <1>1, <1>2 DEF Differ
<1>7. RestoredFront(s) = k \o waiting
    BY DEF RestoredFront, k, Waits
<1>. QED BY <1>1, <1>2, <1>3, <1>5, <1>6, <1>7

\* The text of a batch has the texts of its rows.
LEMMA BatchText ==
    ASSUME NEW s \in Seq(Prompts), s # <<>>, row \in [Prompts -> Seq(Prompts)]
    PROVE  LET t == FlattenSeq([i \in DOMAIN s |-> row[s[i]]])
           IN  t \in Seq(Prompts) /\ ToSet(t) = UNION {ToSet(row[m]) : m \in ToSet(s)}
<1>. DEFINE rows == [i \in DOMAIN s |-> row[s[i]]]
<1>1. DOMAIN s = 1..Len(s) /\ Len(s) \in Nat \ {0} /\ \A i \in 1..Len(s) : s[i] \in Prompts
    BY EmptySeq, LenProperties
<1>2. rows \in [1..Len(s) -> Seq(Prompts)]
    BY <1>1
<1>3. rows \in Seq(Seq(Prompts)) /\ Len(rows) = Len(s) /\ rows # <<>>
    BY <1>1, <1>2
<1>4. UNION {ToSet(rows[i]) : i \in 1..Len(rows)} = UNION {ToSet(row[m]) : m \in ToSet(s)}
    <2>1. \A i \in 1..Len(s) : rows[i] = row[s[i]] /\ s[i] \in ToSet(s)
        BY <1>1 DEF ToSet
    <2>2. \A m \in ToSet(s) : \E i \in 1..Len(s) : s[i] = m
        BY <1>1 DEF ToSet
    <2>. HIDE DEF rows
    <2>3. ASSUME NEW i \in 1..Len(s) PROVE \E m \in ToSet(s) : ToSet(rows[i]) = ToSet(row[m])
        BY <2>1
    <2>4. ASSUME NEW m \in ToSet(s) PROVE \E i \in 1..Len(s) : ToSet(rows[i]) = ToSet(row[m])
        <3>1. PICK i \in 1..Len(s) : s[i] = m
            BY <2>2
        <3>2. rows[i] = row[m]
            BY <2>1, <3>1
        <3>. QED BY <3>2
    <2>5. \A u : (\E i \in 1..Len(s) : u \in ToSet(rows[i])) <=> \E m \in ToSet(s) : u \in ToSet(row[m])
        BY <2>3, <2>4, Zenon
    <2>. QED BY <1>3, <2>5
<1>. HIDE DEF rows
<1>5. FlattenSeq(rows) \in Seq(Prompts) /\ ToSet(FlattenSeq(rows)) = UNION {ToSet(rows[i]) : i \in 1..Len(rows)}
    BY <1>3, FlattenProperties
<1>. QED BY <1>4, <1>5 DEF rows

\* The largest of a bounded set of naturals.
LEMMA BoundedMax ==
    ASSUME NEW S \in SUBSET Nat, S # {}, NEW n \in Nat, \A x \in S : x <= n
    PROVE  Max(S) \in S /\ \A x \in S : x <= Max(S)
<1>. DEFINE T == {k \in 0..n : \A x \in S : ~(n - k <= x)}
<1>1. SUFFICES \E m \in S : \A x \in S : m >= x
    BY DEF Max
<1>2. SUFFICES ASSUME ~\E m \in S : \A x \in S : m >= x PROVE FALSE
    OBVIOUS
<1>3. 0 \in T
    <2>1. ASSUME n \in S PROVE FALSE
        BY <2>1, <1>2
    <2>2. \A x \in S : x # n /\ ~(n <= x)
        BY <2>1
    <2>. QED BY <2>2
<1>4. ASSUME NEW k \in 0..(n - 1), k \in T PROVE k + 1 \in T
    <2>1. \A x \in S : ~(n - k <= x)
        BY <1>4
    <2>2. ASSUME NEW x \in S, n - (k + 1) <= x PROVE FALSE
        <3>1. x = n - (k + 1)
            BY <2>1, <2>2
        <3>2. \A y \in S : x >= y
            BY <3>1, <2>1
        <3>. QED BY <3>2, <1>2
    <2>. QED BY <2>2
<1>5. 0..n \subseteq T
    <2>. HIDE DEF T
    <2>. QED BY <1>3, <1>4, Induction
<1>6. n \in T
    BY <1>5
<1>7. \A x \in S : ~(n - n <= x)
    BY <1>6
<1>8. n - n = 0 /\ \A x \in S : 0 <= x
    OBVIOUS
<1>. QED BY <1>7, <1>8

\* next_queue_seq is a number larger than every queue_seq of the table.
LEMMA NextSeqFresh ==
    ASSUME Bounded, seq \in [Prompts -> Nat], Prompts # {}
    PROVE  NextSeq \in Nat \ {0} /\ \A p \in Prompts : seq[p] < NextSeq
<1>. DEFINE S == {seq[p] : p \in Prompts}
<1>1. PICK n \in Nat : \A p \in Prompts : seq[p] <= n
    BY DEF Bounded
<1>2. S \subseteq Nat /\ S # {} /\ \A x \in S : x <= n
    BY <1>1
<1>. HIDE DEF S
<1>3. Max(S) \in S /\ \A x \in S : x <= Max(S)
    BY <1>2, BoundedMax
<1>4. NextSeq = 1 + Max(S)
    BY DEF NextSeq, S
<1>5. \A p \in Prompts : seq[p] \in S
    BY DEF S
<1>6. Max(S) \in Nat /\ \A p \in Prompts : seq[p] \in Nat /\ seq[p] <= Max(S)
    BY <1>2, <1>3, <1>5
<1>. QED BY <1>4, <1>6

\* Whatever is a sequence of prompts has prompts.
LEMMA Members ==
    ASSUME TypeOK
    PROVE  /\ Waits \subseteq Prompts /\ Queued \subseteq Prompts /\ OnStack \subseteq Prompts
           /\ \A r \in Prompts : /\ Held(r) \subseteq Prompts
                                 /\ ToSet(fetched[r]) \subseteq Prompts /\ ToSet(text[r]) \subseteq Prompts
                                 /\ ToSet(row[r]) \subseteq Prompts
<1>1. \A s \in Seq(Prompts) : ToSet(s) \subseteq Prompts
    BY SmallSets
<1>2. \A i \in DOMAIN stack : stack[i].text \in Seq(Prompts)
    <2>. DEFINE E == [id : Prompts, text : Seq(Prompts)]
    <2>1. stack \in Seq(E)
        BY DEF TypeOK
    <2>. HIDE DEF E
    <2>2. \A i \in DOMAIN stack : stack[i] \in E
        BY <2>1, ElementOfSeq, LenProperties
    <2>. QED BY <2>2 DEF E
<1>3. OnStack \subseteq Prompts
    BY <1>1, <1>2 DEF OnStack
<1>. QED BY <1>1, <1>3 DEF TypeOK, Waits, Queued, Held
-----------------------------------------------------------------------------
(* Steps that leave the queue, the rows, the stack and the claims alone.     *)

\* Where a future is that neither queues nor holds prompts.
Free == {"place", "validate", "claim", "emit", "answer", "storeTools", "tools", "final", "store",
         "rescan", "scan1", "scan2", "idle", "error", "errorAgain", "end"}

\* A future goes on, from one of its await points to another.
Moves(p, l) ==
    /\ Goto(p, l)
    /\ \/ run[p] \in {"decide", "start"} /\ l \in {"enqueue", "start", "append"}
       \/ run[p] \in Free \ {"end"} /\ l \in Free

Quiet ==
    /\ UNCHANGED <<waiting, row, seq, stack, reply, hand, fetched, text, saved>>
    /\ UNCHANGED <<cancel, drop, protect, queued, overtaken>>
    /\ status' \in {"Idle", "Queued", "Busy", "Error"} /\ cancelled' \in BOOLEAN
    /\ expected' \in Prompts \cup {Nobody}
    /\ UNCHANGED run \/ \E p \in Prompts : \E l : Moves(p, l)
    /\ stop' = stop \/ (stop \in {"none", "idle"} /\ stop' \in {"idle", "drain"})
    /\ faults' \in 0..MaxFaults /\ faults <= faults'

LEMMA QuietSteps ==
    ASSUME TypeOK,
           \/ Terminate \/ TerminateIdle
           \/ \E p \in Prompts :
                 \/ Decide(p) \/ Start(p) \/ Place(p) \/ Validate(p) \/ Emit(p) \/ Answer(p) \/ AnswerError(p)
                 \/ StoreTools(p) \/ Tools(p) \/ Final(p) \/ StoreAnswer(p) \/ Scan(p) \/ GoIdle(p) \/ GoError(p)
    PROVE  Quiet
<1>1. /\ status \in {"Idle", "Queued", "Busy", "Error"} /\ cancelled \in BOOLEAN
      /\ expected \in Prompts \cup {Nobody}
      /\ faults \in 0..MaxFaults /\ MaxFaults \in Nat
    BY QueueAssumption DEF TypeOK
<1>. USE <1>1 DEF Quiet, Moves, Free, Fault, store, loop, stopping
<1>2. CASE Terminate
    BY <1>2 DEF Terminate
<1>3. CASE TerminateIdle
    <2>1. cancelled' \in BOOLEAN
        BY <1>3, Zenon DEF TerminateIdle
    <2>. QED BY <1>3, <2>1 DEF TerminateIdle
<1>4. ASSUME NEW p \in Prompts, Decide(p) PROVE Quiet
    BY <1>4 DEF Decide
<1>5. ASSUME NEW p \in Prompts, Start(p) PROVE Quiet
    <2>1. cancelled' \in BOOLEAN
        BY <1>5, Zenon DEF Start
    <2>. QED BY <1>5, <2>1 DEF Start
<1>6. ASSUME NEW p \in Prompts, Place(p) PROVE Quiet
    BY <1>6 DEF Place
<1>7. ASSUME NEW p \in Prompts, Validate(p) PROVE Quiet
    BY <1>7 DEF Validate
<1>8. ASSUME NEW p \in Prompts, Emit(p) PROVE Quiet
    BY <1>8 DEF Emit
<1>9. ASSUME NEW p \in Prompts, Answer(p) PROVE Quiet
    BY <1>9 DEF Answer
<1>10. ASSUME NEW p \in Prompts, AnswerError(p) PROVE Quiet
    BY <1>10 DEF AnswerError
<1>11. ASSUME NEW p \in Prompts, StoreTools(p) PROVE Quiet
    BY <1>11 DEF StoreTools
<1>12. ASSUME NEW p \in Prompts, Tools(p) PROVE Quiet
    BY <1>12 DEF Tools
<1>13. ASSUME NEW p \in Prompts, Final(p) PROVE Quiet
    BY <1>13 DEF Final
<1>14. ASSUME NEW p \in Prompts, StoreAnswer(p) PROVE Quiet
    BY <1>14 DEF StoreAnswer
<1>15. ASSUME NEW p \in Prompts, Scan(p) PROVE Quiet
    BY <1>15 DEF Scan, ScanAfter
<1>16. ASSUME NEW p \in Prompts, GoIdle(p) PROVE Quiet
    BY <1>16 DEF GoIdle
<1>17. ASSUME NEW p \in Prompts, GoError(p) PROVE Quiet
    BY <1>17 DEF GoError
<1>. QED BY <1>2, <1>3, <1>4, <1>5, <1>6, <1>7, <1>8, <1>9, <1>10, <1>11, <1>12, <1>13, <1>14, <1>15, <1>16, <1>17

LEMMA QuietRun ==
    ASSUME TypeOK, Quiet
    PROVE  /\ run' \in [Prompts -> RunPcs]
           /\ \A p \in Prompts :
                 \/ run'[p] = run[p]
                 \/ run[p] \in {"decide", "start"} /\ run'[p] \in {"enqueue", "start", "append"}
                 \/ run[p] \in Free \ {"end"} /\ run'[p] \in Free
<1>1. run \in [Prompts -> RunPcs]
    BY DEF TypeOK
<1>2. CASE UNCHANGED run
    BY <1>1, <1>2
<1>3. ASSUME NEW p \in Prompts, NEW l, Moves(p, l) 
      PROVE  /\ run' \in [Prompts -> RunPcs]
             /\ \A q \in Prompts :
                   \/ run'[q] = run[q]
                   \/ run[q] \in {"decide", "start"} /\ run'[q] \in {"enqueue", "start", "append"}
                   \/ run[q] \in Free \ {"end"} /\ run'[q] \in Free
    <2>1. l \in RunPcs
        BY <1>3 DEF Moves, Free, RunPcs
    <2>2. run' \in [Prompts -> RunPcs] /\ run'[p] = l /\ \A q \in Prompts : q # p => run'[q] = run[q]
        BY <1>1, <1>3, <2>1 DEF Moves, Goto
    <2>. QED BY <1>3, <2>2 DEF Moves
<1>. QED BY <1>2, <1>3 DEF Quiet

LEMMA QuietKeeps ==
    ASSUME IInv, Quiet
    PROVE  IInv'
<1>0. /\ run' \in [Prompts -> RunPcs]
      /\ \A p \in Prompts :
            \/ run'[p] = run[p]
            \/ run[p] \in {"decide", "start"} /\ run'[p] \in {"enqueue", "start", "append"}
            \/ run[p] \in Free \ {"end"} /\ run'[p] \in Free
    BY QuietRun DEF IInv, Typed
<1>1. TypeOK'
    <2>1. stop' \in {"none", "idle", "drain", "list", "clear", "delete", "retain", "end"}
        BY DEF TypeOK, IInv, Typed, Quiet
    <2>. QED BY <1>0, <2>1 DEF TypeOK, IInv, Typed, Quiet
<1>2. Bounded'
    BY DEF Bounded, IInv, Typed, Quiet
<1>3. HandTyped'
    BY <1>0 DEF HandTyped, Holding, IInv, Typed, Quiet, Free
<1>. DEFINE SameSets == /\ Waits' = Waits /\ Queued' = Queued /\ OnStack' = OnStack /\ ToSet(stack)' = ToSet(stack)
                        /\ \A r \in Prompts : Held(r)' = Held(r)
<1>4. SameSets
    BY DEF Quiet, Waits, Queued, Held, OnStack
<1>. HIDE DEF SameSets
<1>. USE Members
<1>5. Owned'
    BY <1>0, <1>4 DEF Typed, Owned, Queueing, IInv, Quiet, Free, SameSets
<1>6. Loaded'
    BY <1>0, <1>4 DEF Typed, Loaded, IInv, Quiet, Free, SameSets
<1>7. Alone' = Alone
    BY <1>0, <1>4 DEF Alone, Quiet, Free, SameSets
<1>8. RowsOwn'
    BY <1>0, <1>7 DEF RowsOwn, Unqueued, IInv, Quiet, Free
<1>9. StackOwned'
    BY <1>0, <1>4 DEF Typed, StackOwned, Unqueued, IInv, Quiet, Free, SameSets
<1>10. CancelOwned'
    BY <1>4 DEF CancelOwned, IInv, Quiet, SameSets
<1>11. AcceptedKept'
    BY <1>0, <1>4, <1>7 DEF AcceptedKept, Unqueued, Queueing, Unanswered, IInv, Quiet, Free, SameSets
<1>12. FifoKept'
    <2>1. faults \in Nat /\ faults' \in Nat /\ faults <= faults'
        BY QueueAssumption DEF IInv, Typed, TypeOK, Quiet
    <2>2. \A r \in Prompts : run'[r] \in {"giveBack", "restoreIndex", "merge", "split"} => run'[r] = run[r]
        BY <1>0 DEF Free
    <2>3. Earlier' = Earlier
        BY DEF Earlier, Before, Quiet
    <2>4. InOrder => InOrder'
        BY <1>4, <2>2, <2>3 DEF InOrder, Quiet, SameSets
    <2>. QED BY <2>1, <2>2, <2>4 DEF FifoKept, IInv, Quiet
<1>. QED BY <1>1, <1>2, <1>3, <1>5, <1>6, <1>8, <1>9, <1>10, <1>11, <1>12 DEF IInv, Typed
-----------------------------------------------------------------------------
(* Steps that take prompts away, or leave them where they are.               *)

\* No call goes back: what is queued stays queued, what was started or answered
\* stays so, no row is inserted twice.
NoBack ==
    \A q \in Prompts :
        /\ run'[q] \in Unqueued => run[q] \in Unqueued
        /\ run'[q] \in Unqueued \cup {"insertRow", "persist"} => run[q] \in Unqueued \cup {"insertRow", "persist"}
        /\ run'[q] \in Unanswered => run[q] \in Unanswered
        /\ q \in Queued => run'[q] \in Queueing

Shrink ==
    /\ UNCHANGED queued
    /\ OnStack' \subseteq OnStack /\ \A m \in ToSet(stack') : m.id \in ToSet(m.text)
    /\ Waits' \subseteq Waits /\ \A r \in Prompts : Held(r)' \subseteq Held(r)
    /\ Follows(waiting', waiting) /\ \A r \in Prompts : Follows(hand'[r], hand[r])
    /\ \A r \in Prompts :
          /\ run'[r] = "split" => run[r] = "split"
          /\ run'[r] \in {"giveBack", "restoreIndex"} => run[r] \in {"giveBack", "restoreIndex"} \/ faults' > 0
    /\ faults' \in Nat /\ (faults > 0 => faults' > 0)
    /\ UNCHANGED overtaken

LEMMA ShrinkKeeps ==
    ASSUME Typed, Owned, StackOwned, FifoKept, Shrink, NoBack
    PROVE  Owned' /\ StackOwned' /\ FifoKept'
<1>. USE Members DEF Typed
<1>1. Owned'
    <2>1. Queued' = Queued
        BY DEF Shrink, Queued
    <2>2. /\ Ordered(waiting, Differ(Prompts)) => Ordered(waiting', Differ(Prompts))
          /\ \A r \in Prompts : Ordered(hand[r], Differ(Prompts)) => Ordered(hand'[r], Differ(Prompts))
        BY DEF Shrink, Follows
    <2>. QED BY <2>1, <2>2 DEF Owned, Shrink, NoBack
<1>2. StackOwned'
    BY DEF StackOwned, Shrink, NoBack
<1>3. FifoKept'
    <2>1. faults \in Nat /\ faults' \in Nat
        BY QueueAssumption DEF TypeOK, Shrink
    <2>2. \A r \in Prompts : run'[r] \in {"giveBack", "restoreIndex"} => faults' > 0
        BY <2>1 DEF FifoKept, Shrink
    <2>3. Earlier' = Earlier
        BY DEF Earlier, Before, Shrink
    <2>4. ASSUME InOrder PROVE InOrder'
        <3>1. /\ Ordered(waiting, Earlier) => Ordered(waiting', Earlier)
              /\ \A r \in Prompts : Ordered(hand[r], Earlier) => Ordered(hand'[r], Earlier)
            BY DEF Shrink, Follows
        <3>. QED BY <2>3, <2>4, <3>1 DEF InOrder, Shrink
    <2>5. faults' = 0 /\ ~overtaken' => faults = 0 /\ ~overtaken
        BY <2>1 DEF Shrink
    <2>. QED BY <2>2, <2>4, <2>5 DEF FifoKept
<1>. QED BY <1>1, <1>2, <1>3

LEMMA AloneShrinks ==
    ASSUME Shrink,
           \A r \in Prompts : run[r] = "push" => run'[r] = "push" \/ Held(r)' = {},
           \A q \in Prompts : cancel'[q] \in {"delete", "deleteRow"} => q \in Alone
    PROVE  Alone' \subseteq Alone
BY DEF Shrink, Alone

\* A future that goes on goes on alone.
LEMMA GotoFacts ==
    ASSUME TypeOK, NEW p \in Prompts, NEW l \in RunPcs, Goto(p, l)
    PROVE  /\ run' \in [Prompts -> RunPcs] /\ run'[p] = l
           /\ \A q \in Prompts : q # p => run'[q] = run[q]
BY DEF Goto, TypeOK

\* What a step leaves alone keeps its elements.
LEMMA SameSets ==
    /\ UNCHANGED waiting => Waits' = Waits
    /\ UNCHANGED hand => \A r \in Prompts : Held(r)' = Held(r)
    /\ UNCHANGED stack => OnStack' = OnStack
    /\ UNCHANGED queued => Queued' = Queued /\ Earlier' = Earlier
    /\ \A r \in Prompts : hand'[r] = hand[r] => Held(r)' = Held(r)
    /\ \A r \in Prompts : hand'[r] = <<>> => Held(r)' = {}
    /\ \A s : Follows(s, s) /\ Follows(<<>>, s)
<1>1. \A s : Follows(s, s) /\ Follows(<<>>, s)
    BY DEF Follows, Ordered
<1>2. ToSet(<<>>) = {}
    BY DEF ToSet
<1>. QED BY <1>1, <1>2 DEF Waits, Held, OnStack, Queued, Earlier, Before

\* A prompt as a text.
LEMMA OwnText ==
    \A p \in Prompts : <<p>> \in Seq(Prompts) /\ <<p>> # <<>> /\ ToSet(<<p>>) = {p} /\ \A R : Ordered(<<p>>, R)
BY SmallSets, EmptySeq

\* A step fails at most once, within the bound.
LEMMA FaultBound ==
    ASSUME TypeOK, UNCHANGED faults \/ Fault
    PROVE  faults \in Nat /\ faults' \in 0..MaxFaults /\ faults <= faults' /\ (Fault => faults' > 0)
<1>1. faults \in 0..MaxFaults /\ MaxFaults \in Nat
    BY QueueAssumption DEF TypeOK
<1>. QED BY <1>1 DEF Fault

\* The elements of the stack.
LEMMA StackSets ==
    ASSUME TypeOK
    PROVE  /\ OnStack = UNION {ToSet(m.text) : m \in ToSet(stack)}
           /\ StackIds = {m.id : m \in ToSet(stack)}
           /\ StackOwned => StackIds \subseteq OnStack
BY DEF OnStack, StackIds, ToSet, StackOwned

\* Nobody's prompts are not on the stack.
LEMMA AloneOffStack ==
    ASSUME StackOwned, CancelOwned
    PROVE  Alone \cap OnStack = {}
BY DEF StackOwned, CancelOwned, Alone, Gone

\* A claim that is over.
LEMMA Forgotten ==
    ASSUME TypeOK, NEW p \in Prompts, Forget(p)
    PROVE  /\ hand' \in [Prompts -> Seq(Prompts)] /\ fetched' \in [Prompts -> Seq(Prompts)]
           /\ text' \in [Prompts -> Seq(Prompts)] /\ saved' \in [Prompts -> Nat]
           /\ \A q \in Prompts : q # p => hand'[q] = hand[q] /\ fetched'[q] = fetched[q] /\ text'[q] = text[q]
           /\ hand'[p] = <<>> /\ Held(p)' = {}
<1>1. <<>> \in Seq(Prompts) /\ ToSet(<<>>) = {}
    BY SmallSets, EmptySeq
<1>2. /\ hand \in [Prompts -> Seq(Prompts)] /\ fetched \in [Prompts -> Seq(Prompts)]
      /\ text \in [Prompts -> Seq(Prompts)] /\ saved \in [Prompts -> Nat]
    BY DEF TypeOK
<1>. QED BY <1>1, <1>2 DEF Forget, Held

LEMMA ContainsSet ==
    ASSUME NEW s \in Seq(Prompts), NEW p
    PROVE  Contains(s, p) <=> p \in ToSet(s)
BY DEF Contains, ToSet
-----------------------------------------------------------------------------
(* start_workflow.                                                          *)

LEMMA InsertRowKeeps ==
    ASSUME IInv, NEW p \in Prompts, InsertRow(p)
    PROVE  IInv'
<1>. USE DEF IInv, Typed
<1>1. /\ run[p] = "insertRow" /\ run'[p] \in {"nextSeq", "undoMemory"}
      /\ run' \in [Prompts -> RunPcs] /\ \A q \in Prompts : q # p => run'[q] = run[q]
    BY GotoFacts DEF InsertRow, RunPcs
<1>2. /\ UNCHANGED <<waiting, seq, stack, reply, hand, fetched, text, saved, cancel, stop, drop, protect, queued, overtaken>>
      /\ UNCHANGED <<status, cancelled, expected>>
    BY DEF InsertRow, loop, stopping, store
<1>3. faults \in Nat /\ faults' \in 0..MaxFaults /\ faults <= faults'
    <2>1. UNCHANGED faults \/ Fault
        BY DEF InsertRow
    <2>. QED BY <2>1, FaultBound
<1>4. /\ row' \in [Prompts -> Seq(Prompts)] /\ row'[p] \in {row[p], <<p>>}
      /\ \A q \in Prompts : q # p => row'[q] = row[q]
    <2>1. row \in [Prompts -> Seq(Prompts)]
        BY DEF TypeOK
    <2>. QED BY <2>1, OwnText DEF InsertRow
<1>5. Typed'
    <2>1. TypeOK'
        BY <1>1, <1>2, <1>3, <1>4, Members DEF TypeOK
    <2>2. Bounded'
        BY <1>2, <1>3 DEF Bounded
    <2>3. HandTyped'
        BY <1>1, <1>2, <1>3 DEF HandTyped, Holding
    <2>. QED BY <2>1, <2>2, <2>3
<1>6. NoBack
    BY <1>1, <1>2, <1>3 DEF NoBack, Unqueued, Unanswered, Queueing, Owned
<1>7. Shrink
    BY <1>1, <1>2, <1>3, <1>4, SameSets DEF Shrink, StackOwned
<1>8. Owned' /\ StackOwned' /\ FifoKept'
    BY <1>6, <1>7, ShrinkKeeps
<1>9. Loaded'
    BY <1>1, <1>2, <1>3, <1>4, SameSets, Members DEF Loaded
<1>10. Alone' \subseteq Alone
    BY <1>1, <1>2, <1>3, <1>7, SameSets, AloneShrinks DEF Alone
<1>11. RowsOwn'
    BY <1>1, <1>2, <1>3, <1>4, <1>6, <1>10, OwnText DEF RowsOwn, NoBack, Alone, Unqueued
<1>12. CancelOwned'
    BY <1>2, <1>3, <1>7, <1>4, SameSets DEF CancelOwned, Shrink
<1>13. AcceptedKept'
    <2>1. \A q \in Prompts : run'[q] \in Unanswered => reply'[q] = "none"
        BY <1>1, <1>2, <1>6 DEF AcceptedKept, NoBack, Unanswered, Unqueued, Queueing
    <2>2. ASSUME NEW q \in Prompts, q \in Alone', reply'[q] = "ok" PROVE row'[q] # <<>> \/ q \in drop'
        BY <2>2, OwnText, <1>1, <1>2, <1>4, <1>10 DEF AcceptedKept
    <2>3. stop' \in {"none", "idle", "drain"} => drop' = {}
        BY <1>2 DEF AcceptedKept
    <2>4. protect' \subseteq OnStack'
        BY <1>2, SameSets DEF AcceptedKept
    <2>5. Alone' \subseteq Prompts
        BY DEF Alone
    <2>. QED BY <2>1, <2>2, <2>3, <2>4, <2>5 DEF AcceptedKept
<1>. QED BY <1>5, <1>8, <1>9, <1>11, <1>12, <1>13

LEMMA ComputeSeqKeeps ==
    ASSUME IInv, NEW p \in Prompts, ComputeSeq(p)
    PROVE  IInv'
<1>. USE DEF IInv, Typed
<1>1. /\ run[p] = "nextSeq" /\ run'[p] \in {"insertIndex", "undoRow"}
      /\ run' \in [Prompts -> RunPcs] /\ \A q \in Prompts : q # p => run'[q] = run[q]
    BY GotoFacts DEF ComputeSeq, RunPcs
<1>2. /\ UNCHANGED <<waiting, row, seq, stack, reply, hand, fetched, text, cancel, stop, drop, protect, queued, overtaken>>
      /\ UNCHANGED <<status, cancelled, expected>>
    BY DEF ComputeSeq, loop, stopping, store
<1>3. faults \in Nat /\ faults' \in 0..MaxFaults /\ faults <= faults'
    <2>1. UNCHANGED faults \/ Fault
        BY DEF ComputeSeq
    <2>. QED BY <2>1, FaultBound
<1>4. saved' \in [Prompts -> Nat]
    BY NextSeqFresh DEF ComputeSeq, TypeOK
<1>5. Typed'
    <2>1. TypeOK'
        BY <1>1, <1>2, <1>3, <1>4, Members DEF TypeOK
    <2>2. Bounded'
        BY <1>2, <1>3 DEF Bounded
    <2>3. HandTyped'
        BY <1>1, <1>2, <1>3 DEF HandTyped, Holding
    <2>. QED BY <2>1, <2>2, <2>3
<1>6. NoBack
    BY <1>1, <1>2, <1>3 DEF NoBack, Unqueued, Unanswered, Queueing, Owned
<1>7. Shrink
    BY <1>1, <1>2, <1>3, <1>4, SameSets DEF Shrink, StackOwned
<1>8. Owned' /\ StackOwned' /\ FifoKept'
    BY <1>6, <1>7, ShrinkKeeps
<1>9. Loaded'
    BY <1>1, <1>2, <1>3, <1>4, SameSets, Members DEF Loaded
<1>10. Alone' \subseteq Alone
    BY <1>1, <1>2, <1>3, <1>7, SameSets, AloneShrinks DEF Alone
<1>11. RowsOwn'
    BY <1>1, <1>2, <1>3, <1>4, <1>6, <1>10, OwnText DEF RowsOwn, NoBack, Alone, Unqueued
<1>12. CancelOwned'
    BY <1>2, <1>3, <1>7, <1>4, SameSets DEF CancelOwned, Shrink
<1>13. AcceptedKept'
    <2>1. \A q \in Prompts : run'[q] \in Unanswered => reply'[q] = "none"
        BY <1>1, <1>2, <1>6 DEF AcceptedKept, NoBack, Unanswered, Unqueued, Queueing
    <2>2. ASSUME NEW q \in Prompts, q \in Alone', reply'[q] = "ok" PROVE row'[q] # <<>> \/ q \in drop'
        BY <2>2, OwnText, <1>1, <1>2, <1>10 DEF AcceptedKept
    <2>3. stop' \in {"none", "idle", "drain"} => drop' = {}
        BY <1>2 DEF AcceptedKept
    <2>4. protect' \subseteq OnStack'
        BY <1>2, SameSets DEF AcceptedKept
    <2>5. Alone' \subseteq Prompts
        BY DEF Alone
    <2>. QED BY <2>1, <2>2, <2>3, <2>4, <2>5 DEF AcceptedKept
<1>. QED BY <1>5, <1>8, <1>9, <1>11, <1>12, <1>13

LEMMA InsertIndexKeeps ==
    ASSUME IInv, NEW p \in Prompts, InsertIndex(p)
    PROVE  IInv'
<1>. USE DEF IInv, Typed
<1>1. /\ run[p] = "insertIndex" /\ run'[p] \in {"end", "undoRow"}
      /\ run' \in [Prompts -> RunPcs] /\ \A q \in Prompts : q # p => run'[q] = run[q]
    BY GotoFacts DEF InsertIndex, RunPcs
<1>2. /\ UNCHANGED <<waiting, row, stack, hand, fetched, text, cancel, stop, drop, protect, queued, overtaken>>
      /\ UNCHANGED <<status, cancelled, expected>>
    BY DEF InsertIndex, loop, stopping, store
<1>3. faults \in Nat /\ faults' \in 0..MaxFaults /\ faults <= faults'
    <2>1. UNCHANGED faults \/ Fault
        BY DEF InsertIndex
    <2>. QED BY <2>1, FaultBound
<1>4. saved \in [Prompts -> Nat] /\ saved' \in [Prompts -> Nat]
    BY DEF InsertIndex, TypeOK
<1>5. /\ seq' \in [Prompts -> Nat] /\ \A q \in Prompts : q # p => seq'[q] = seq[q]
      /\ seq'[p] = seq[p] \/ seq'[p] = saved[p]
    BY <1>4 DEF InsertIndex, TypeOK
<1>6. /\ reply' \in [Prompts -> {"none", "ok", "error"}] /\ \A q \in Prompts : q # p => reply'[q] = reply[q]
      /\ reply'[p] = reply[p] \/ (run'[p] = "end" /\ row[p] # <<>>)
    <2>1. reply \in [Prompts -> {"none", "ok", "error"}]
        BY DEF TypeOK
    <2>2. UNCHANGED reply \/ ((Reply(p, "ok") \/ Reply(p, "error")) /\ run'[p] = "end" /\ row[p] # <<>>)
        BY GotoFacts DEF InsertIndex, MayInsert, RunPcs
    <2>. QED BY <2>1, <2>2 DEF Reply
<1>7. Typed'
    <2>1. TypeOK'
        BY <1>1, <1>2, <1>3, <1>4, <1>5, <1>6, Members DEF TypeOK
    <2>2. Bounded'
        <3>1. PICK n \in Nat : \A q \in Prompts : seq[q] <= n
            BY DEF Bounded
        <3>2. PICK m \in Nat : n <= m /\ saved[p] <= m
            BY <1>4
        <3>3. \A q \in Prompts : seq[q] \in Nat /\ saved[q] \in Nat
            BY <1>4 DEF TypeOK
        <3>4. \A q \in Prompts : seq'[q] <= m
            BY <3>1, <3>2, <3>3, <1>5
        <3>. QED BY <3>4 DEF Bounded
    <2>3. HandTyped'
        BY <1>1, <1>2, <1>3 DEF HandTyped, Holding
    <2>. QED BY <2>1, <2>2, <2>3
<1>8. NoBack
    BY <1>1, <1>2, <1>3 DEF NoBack, Unqueued, Unanswered, Queueing, Owned
<1>9. Shrink
    BY <1>1, <1>2, <1>3, <1>4, <1>5, <1>6, SameSets DEF Shrink, StackOwned
<1>10. Owned' /\ StackOwned' /\ FifoKept'
    BY <1>8, <1>9, ShrinkKeeps
<1>11. Loaded'
    BY <1>1, <1>2, <1>3, <1>4, <1>5, <1>6, SameSets, Members DEF Loaded
<1>12. Alone' \subseteq Alone
    BY <1>1, <1>2, <1>3, <1>9, SameSets, AloneShrinks DEF Alone
<1>13. RowsOwn'
    BY <1>1, <1>2, <1>3, <1>4, <1>5, <1>6, <1>8, <1>12, OwnText DEF RowsOwn, NoBack, Alone, Unqueued
<1>14. CancelOwned'
    BY <1>2, <1>3, <1>9, <1>4, <1>5, <1>6, SameSets DEF CancelOwned, Shrink
<1>15. AcceptedKept'
    <2>1. \A q \in Prompts : run'[q] \in Unanswered => reply'[q] = "none"
        BY <1>1, <1>2, <1>6, <1>8 DEF AcceptedKept, NoBack, Unanswered, Unqueued, Queueing
    <2>2. ASSUME NEW q \in Prompts, q \in Alone', reply'[q] = "ok" PROVE row'[q] # <<>> \/ q \in drop'
        BY <2>2, OwnText, <1>1, <1>2, <1>6, <1>12 DEF AcceptedKept
    <2>3. stop' \in {"none", "idle", "drain"} => drop' = {}
        BY <1>2 DEF AcceptedKept
    <2>4. protect' \subseteq OnStack'
        BY <1>2, SameSets DEF AcceptedKept
    <2>5. Alone' \subseteq Prompts
        BY DEF Alone
    <2>. QED BY <2>1, <2>2, <2>3, <2>4, <2>5 DEF AcceptedKept
<1>. QED BY <1>7, <1>10, <1>11, <1>13, <1>14, <1>15

LEMMA UndoRowKeeps ==
    ASSUME IInv, NEW p \in Prompts, UndoRow(p)
    PROVE  IInv'
<1>. USE DEF IInv, Typed
<1>1. /\ run[p] = "undoRow" /\ run'[p] = "undoMemory"
      /\ run' \in [Prompts -> RunPcs] /\ \A q \in Prompts : q # p => run'[q] = run[q]
    BY GotoFacts DEF UndoRow, RunPcs
<1>2. /\ UNCHANGED <<waiting, stack, reply, hand, fetched, text, saved, cancel, stop, drop, protect, queued, overtaken>>
      /\ UNCHANGED <<status, cancelled, expected>>
    BY DEF UndoRow, loop, stopping, store
<1>3. faults \in Nat /\ faults' \in 0..MaxFaults /\ faults <= faults'
    <2>1. UNCHANGED faults \/ Fault
        BY DEF UndoRow
    <2>. QED BY <2>1, FaultBound
<1>4. /\ row' \in [Prompts -> Seq(Prompts)] /\ row'[p] \in {row[p], <<>>}
      /\ \A q \in Prompts : q # p => row'[q] = row[q]
    <2>1. row \in [Prompts -> Seq(Prompts)] /\ <<>> \in Seq(Prompts)
        BY EmptySeq DEF TypeOK
    <2>. QED BY <2>1 DEF UndoRow, DeleteRows
<1>5. seq' \in [Prompts -> Nat] /\ \A q \in Prompts : seq'[q] = seq[q] \/ seq'[q] = 0
    <2>1. seq \in [Prompts -> Nat]
        BY DEF TypeOK
    <2>. QED BY <2>1 DEF UndoRow, DeleteRows
<1>6. Typed'
    <2>1. TypeOK'
        BY <1>1, <1>2, <1>3, <1>4, <1>5, Members DEF TypeOK
    <2>2. Bounded'
        <3>1. PICK n \in Nat : \A q \in Prompts : seq[q] <= n
            BY DEF Bounded
        <3>. QED BY <3>1, <1>5 DEF Bounded
    <2>3. HandTyped'
        BY <1>1, <1>2, <1>3 DEF HandTyped, Holding
    <2>. QED BY <2>1, <2>2, <2>3
<1>7. NoBack
    BY <1>1, <1>2, <1>3 DEF NoBack, Unqueued, Unanswered, Queueing, Owned
<1>8. Shrink
    BY <1>1, <1>2, <1>3, <1>4, <1>5, SameSets DEF Shrink, StackOwned
<1>9. Owned' /\ StackOwned' /\ FifoKept'
    BY <1>7, <1>8, ShrinkKeeps
<1>10. Loaded'
    BY <1>1, <1>2, <1>3, <1>4, <1>5, SameSets, Members DEF Loaded
<1>11. Alone' \subseteq Alone
    BY <1>1, <1>2, <1>3, <1>8, SameSets, AloneShrinks DEF Alone
<1>12. RowsOwn'
    BY <1>1, <1>2, <1>3, <1>4, <1>5, <1>7, <1>11, OwnText DEF RowsOwn, NoBack, Alone, Unqueued
<1>13. CancelOwned'
    BY <1>2, <1>3, <1>8, <1>4, <1>5, SameSets DEF CancelOwned, Shrink
<1>14. AcceptedKept'
    <2>1. \A q \in Prompts : run'[q] \in Unanswered => reply'[q] = "none"
        BY <1>1, <1>2, <1>7 DEF AcceptedKept, NoBack, Unanswered, Unqueued, Queueing
    <2>2. ASSUME NEW q \in Prompts, q \in Alone', reply'[q] = "ok" PROVE row'[q] # <<>> \/ q \in drop'
        BY <2>2, OwnText, <1>1, <1>2, <1>4, <1>11 DEF AcceptedKept, Unanswered, Queueing
    <2>3. stop' \in {"none", "idle", "drain"} => drop' = {}
        BY <1>2 DEF AcceptedKept
    <2>4. protect' \subseteq OnStack'
        BY <1>2, SameSets DEF AcceptedKept
    <2>5. Alone' \subseteq Prompts
        BY DEF Alone
    <2>. QED BY <2>1, <2>2, <2>3, <2>4, <2>5 DEF AcceptedKept
<1>. QED BY <1>6, <1>9, <1>10, <1>12, <1>13, <1>14

LEMMA UndoMemoryKeeps ==
    ASSUME IInv, NEW p \in Prompts, UndoMemory(p)
    PROVE  IInv'
<1>. USE DEF IInv, Typed
<1>1. /\ run[p] = "undoMemory" /\ run'[p] = "end"
      /\ run' \in [Prompts -> RunPcs] /\ \A q \in Prompts : q # p => run'[q] = run[q]
    BY GotoFacts DEF UndoMemory, RunPcs
<1>2. /\ UNCHANGED <<row, seq, stack, hand, fetched, text, saved, cancel, stop, drop, protect, queued, overtaken>>
      /\ UNCHANGED <<status, cancelled, expected>>
    BY DEF UndoMemory, loop, stopping, store
<1>3. faults \in Nat /\ faults' \in 0..MaxFaults /\ faults <= faults'
    <2>1. UNCHANGED faults \/ Fault
        BY DEF UndoMemory
    <2>. QED BY <2>1, FaultBound
<1>4. /\ waiting' \in Seq(Prompts) /\ Waits' = Waits \ {p}
      /\ Follows(waiting', waiting)
    <2>1. waiting \in Seq(Prompts) /\ waiting' = Kept(waiting, Prompts \ {p})
        BY DEF UndoMemory, TypeOK
    <2>2. waiting' \in Seq(Prompts) /\ ToSet(waiting') = ToSet(waiting) \cap (Prompts \ {p})
        BY <2>1, KeptProperties
    <2>3. Follows(waiting', waiting)
        BY <2>1, KeptOrdered DEF Follows
    <2>4. Waits' = Waits \ {p}
        BY <2>2, Members DEF Waits
    <2>. QED BY <2>2, <2>3, <2>4
<1>5. /\ reply' \in [Prompts -> {"none", "ok", "error"}] /\ \A q \in Prompts : q # p => reply'[q] = reply[q]
      /\ reply'[p] = "error"
    <2>1. reply \in [Prompts -> {"none", "ok", "error"}]
        BY DEF TypeOK
    <2>. QED BY <2>1 DEF UndoMemory, Reply
<1>6. Typed'
    <2>1. TypeOK'
        BY <1>1, <1>2, <1>3, <1>4, <1>5, Members DEF TypeOK
    <2>2. Bounded'
        BY <1>2, <1>3 DEF Bounded
    <2>3. HandTyped'
        BY <1>1, <1>2, <1>3 DEF HandTyped, Holding
    <2>. QED BY <2>1, <2>2, <2>3
<1>7. NoBack
    BY <1>1, <1>2, <1>3 DEF NoBack, Unqueued, Unanswered, Queueing, Owned
<1>8. Shrink
    BY <1>1, <1>2, <1>3, <1>4, <1>5, SameSets DEF Shrink, StackOwned
<1>9. Owned' /\ StackOwned' /\ FifoKept'
    BY <1>7, <1>8, ShrinkKeeps
<1>10. Loaded'
    BY <1>1, <1>2, <1>3, <1>4, <1>5, SameSets, Members DEF Loaded
<1>11. Alone' \subseteq Alone
    BY <1>1, <1>2, <1>3, <1>8, SameSets, AloneShrinks DEF Alone
<1>12. RowsOwn'
    BY <1>1, <1>2, <1>3, <1>4, <1>5, <1>7, <1>11, OwnText DEF RowsOwn, NoBack, Alone, Unqueued
<1>13. CancelOwned'
    BY <1>2, <1>3, <1>8, <1>4, <1>5, SameSets DEF CancelOwned, Shrink
<1>14. AcceptedKept'
    <2>1. \A q \in Prompts : run'[q] \in Unanswered => reply'[q] = "none"
        BY <1>1, <1>2, <1>5, <1>7 DEF AcceptedKept, NoBack, Unanswered, Unqueued, Queueing
    <2>2. ASSUME NEW q \in Prompts, q \in Alone', reply'[q] = "ok" PROVE row'[q] # <<>> \/ q \in drop'
        BY <2>2, OwnText, <1>1, <1>2, <1>5, <1>11 DEF AcceptedKept
    <2>3. stop' \in {"none", "idle", "drain"} => drop' = {}
        BY <1>2 DEF AcceptedKept
    <2>4. protect' \subseteq OnStack'
        BY <1>2, SameSets DEF AcceptedKept
    <2>5. Alone' \subseteq Prompts
        BY DEF Alone
    <2>. QED BY <2>1, <2>2, <2>3, <2>4, <2>5 DEF AcceptedKept
<1>. QED BY <1>6, <1>9, <1>10, <1>12, <1>13, <1>14

LEMMA PersistKeeps ==
    ASSUME IInv, NEW p \in Prompts, Persist(p)
    PROVE  IInv'
<1>. USE DEF IInv, Typed
<1>1. /\ run[p] = "persist" /\ run'[p] \in {"place", "end"}
      /\ run' \in [Prompts -> RunPcs] /\ \A q \in Prompts : q # p => run'[q] = run[q]
    BY GotoFacts DEF Persist, RunPcs
<1>2. /\ UNCHANGED <<waiting, seq, stack, hand, fetched, text, saved, cancel, stop, drop, protect, queued, overtaken>>
      /\ UNCHANGED <<status, cancelled, expected>>
    BY DEF Persist, loop, stopping, store
<1>3. faults \in Nat /\ faults' \in 0..MaxFaults /\ faults <= faults'
    <2>1. UNCHANGED faults \/ Fault
        BY DEF Persist
    <2>. QED BY <2>1, FaultBound
<1>4. /\ row' \in [Prompts -> Seq(Prompts)] /\ row'[p] \in {row[p], <<p>>}
      /\ \A q \in Prompts : q # p => row'[q] = row[q]
    <2>1. row \in [Prompts -> Seq(Prompts)]
        BY DEF TypeOK
    <2>. QED BY <2>1, OwnText DEF Persist
<1>5. /\ reply' \in [Prompts -> {"none", "ok", "error"}] /\ \A q \in Prompts : q # p => reply'[q] = reply[q]
      /\ reply'[p] = "ok" => row'[p] # <<>>
    <2>1. reply \in [Prompts -> {"none", "ok", "error"}]
        BY DEF TypeOK
    <2>2. row'[p] # <<>> \/ Reply(p, "error")
        BY OwnText DEF Persist, TypeOK
    <2>. QED BY <2>1, <2>2 DEF Persist, Reply
<1>6. Typed'
    <2>1. TypeOK'
        BY <1>1, <1>2, <1>3, <1>4, <1>5, Members DEF TypeOK
    <2>2. Bounded'
        BY <1>2, <1>3 DEF Bounded
    <2>3. HandTyped'
        BY <1>1, <1>2, <1>3 DEF HandTyped, Holding
    <2>. QED BY <2>1, <2>2, <2>3
<1>7. NoBack
    BY <1>1, <1>2, <1>3 DEF NoBack, Unqueued, Unanswered, Queueing, Owned
<1>8. Shrink
    BY <1>1, <1>2, <1>3, <1>4, <1>5, SameSets DEF Shrink, StackOwned
<1>9. Owned' /\ StackOwned' /\ FifoKept'
    BY <1>7, <1>8, ShrinkKeeps
<1>10. Loaded'
    BY <1>1, <1>2, <1>3, <1>4, <1>5, SameSets, Members DEF Loaded
<1>11. Alone' \subseteq Alone
    BY <1>1, <1>2, <1>3, <1>8, SameSets, AloneShrinks DEF Alone
<1>12. RowsOwn'
    BY <1>1, <1>2, <1>3, <1>4, <1>5, <1>7, <1>11, OwnText DEF RowsOwn, NoBack, Alone, Unqueued
<1>13. CancelOwned'
    BY <1>2, <1>3, <1>8, <1>4, <1>5, SameSets DEF CancelOwned, Shrink
<1>14. AcceptedKept'
    <2>1. \A q \in Prompts : run'[q] \in Unanswered => reply'[q] = "none"
        BY <1>1, <1>2, <1>5, <1>7 DEF AcceptedKept, NoBack, Unanswered, Unqueued, Queueing
    <2>2. ASSUME NEW q \in Prompts, q \in Alone', reply'[q] = "ok" PROVE row'[q] # <<>> \/ q \in drop'
        BY <2>2, OwnText, <1>1, <1>2, <1>4, <1>5, <1>11 DEF AcceptedKept
    <2>3. stop' \in {"none", "idle", "drain"} => drop' = {}
        BY <1>2 DEF AcceptedKept
    <2>4. protect' \subseteq OnStack'
        BY <1>2, SameSets DEF AcceptedKept
    <2>5. Alone' \subseteq Prompts
        BY DEF Alone
    <2>. QED BY <2>1, <2>2, <2>3, <2>4, <2>5 DEF AcceptedKept
<1>. QED BY <1>6, <1>9, <1>10, <1>12, <1>13, <1>14
-----------------------------------------------------------------------------
(* claim_all_pending_messages.                                               *)

LEMMA TakeIndexKeeps ==
    ASSUME IInv, NEW p \in Prompts, TakeIndex(p)
    PROVE  IInv'
<1>. USE DEF IInv, Typed
<1>1. /\ run[p] = "takeIndex" /\ run'[p] \in {"loadOne", "emit", "giveBack"}
      /\ (run'[p] = "giveBack" => Fault)
      /\ run' \in [Prompts -> RunPcs] /\ \A q \in Prompts : q # p => run'[q] = run[q]
    BY GotoFacts DEF TakeIndex, RunPcs
<1>2. /\ UNCHANGED <<waiting, row, stack, reply, cancel, stop, drop, protect, queued, overtaken>>
      /\ UNCHANGED <<status, cancelled, expected>>
    BY DEF TakeIndex, loop, stopping, store
<1>3. faults \in Nat /\ faults' \in 0..MaxFaults /\ faults <= faults'
    <2>1. UNCHANGED faults \/ Fault
        BY DEF TakeIndex
    <2>. QED BY <2>1, FaultBound
<1>4. hand[p] # <<>> /\ Head(hand[p]) \in Held(p) /\ Head(hand[p]) \in Prompts
    BY Members, SmallSets, <1>1 DEF HandTyped, Holding, TypeOK, Held
<1>5. /\ hand' \in [Prompts -> Seq(Prompts)] /\ fetched' \in [Prompts -> Seq(Prompts)]
      /\ text' \in [Prompts -> Seq(Prompts)] /\ saved' \in [Prompts -> Nat]
      /\ \A q \in Prompts : q # p => hand'[q] = hand[q] /\ fetched'[q] = fetched[q] /\ text'[q] = text[q]
      /\ \/ hand'[p] = hand[p] /\ Held(p)' = Held(p) /\ run'[p] # "emit"
         \/ hand'[p] = <<>> /\ Held(p)' = {} /\ run'[p] = "emit"
    <2>1. /\ hand \in [Prompts -> Seq(Prompts)] /\ fetched \in [Prompts -> Seq(Prompts)]
          /\ text \in [Prompts -> Seq(Prompts)] /\ saved \in [Prompts -> Nat] /\ seq \in [Prompts -> Nat]
        BY DEF TypeOK
    <2>2. CASE Forget(p) /\ Goto(p, "emit")
        BY <2>1, <2>2, Forgotten, <1>1, GotoFacts DEF RunPcs
    <2>3. CASE UNCHANGED <<hand, fetched, text>> /\ (UNCHANGED saved \/ saved' = [saved EXCEPT ![p] = seq[Head(hand[p])]])
                 /\ (Goto(p, "loadOne") \/ Goto(p, "giveBack"))
        <3>1. run'[p] # "emit"
            BY <2>3, GotoFacts DEF RunPcs
        <3>2. saved' \in [Prompts -> Nat]
            BY <2>1, <2>3, <1>4
        <3>3. hand' = hand /\ fetched' = fetched /\ text' = text
            BY <2>3
        <3>. QED BY <2>1, <3>1, <3>2, <3>3, SameSets
    <2>. QED BY <2>2, <2>3 DEF TakeIndex, loop
<1>6. seq' \in [Prompts -> Nat] /\ \A q \in Prompts : seq'[q] = seq[q] \/ seq'[q] = 0
    <2>1. seq \in [Prompts -> Nat]
        BY DEF TypeOK
    <2>. QED BY <2>1 DEF TakeIndex
<1>7. Typed'
    <2>1. TypeOK'
        BY <1>1, <1>2, <1>3, <1>4, <1>5, <1>6, Members DEF TypeOK
    <2>2. Bounded'
        <3>1. PICK n \in Nat : \A q \in Prompts : seq[q] <= n
            BY DEF Bounded
        <3>. QED BY <3>1, <1>6 DEF Bounded
    <2>3. HandTyped'
        BY <1>1, <1>2, <1>3, <1>5 DEF HandTyped, Holding
    <2>. QED BY <2>1, <2>2, <2>3
<1>8. NoBack
    BY <1>1, <1>2, <1>3 DEF NoBack, Unqueued, Unanswered, Queueing, Owned
<1>9. Shrink
    <2>1. run'[p] = "giveBack" => faults' > 0
        BY <1>1, FaultBound
    <2>2. \A q \in Prompts : Held(q)' \subseteq Held(q) /\ Follows(hand'[q], hand[q])
        BY <1>5, SameSets
    <2>3. Waits' = Waits /\ OnStack' = OnStack /\ Follows(waiting', waiting) /\ ToSet(stack') = ToSet(stack)
        BY <1>2, SameSets
    <2>. QED BY <1>1, <1>2, <1>3, <2>1, <2>2, <2>3 DEF Shrink, StackOwned
<1>10. Owned' /\ StackOwned' /\ FifoKept'
    BY <1>8, <1>9, ShrinkKeeps
<1>11. Loaded'
    BY <1>1, <1>2, <1>3, <1>4, <1>5, <1>6, SameSets, Members DEF Loaded
<1>12. Alone' \subseteq Alone
    BY <1>1, <1>2, <1>3, <1>5, <1>9, SameSets, AloneShrinks DEF Alone
<1>13. RowsOwn'
    BY <1>1, <1>2, <1>3, <1>4, <1>5, <1>6, <1>8, <1>12, OwnText DEF RowsOwn, NoBack, Alone, Unqueued
<1>14. CancelOwned'
    BY <1>2, <1>3, <1>9, <1>4, <1>5, <1>6, SameSets DEF CancelOwned, Shrink
<1>15. AcceptedKept'
    <2>1. \A q \in Prompts : run'[q] \in Unanswered => reply'[q] = "none"
        BY <1>1, <1>2, <1>8 DEF AcceptedKept, NoBack, Unanswered, Unqueued, Queueing
    <2>2. ASSUME NEW q \in Prompts, q \in Alone', reply'[q] = "ok" PROVE row'[q] # <<>> \/ q \in drop'
        BY <2>2, OwnText, <1>1, <1>2, <1>5, <1>12 DEF AcceptedKept
    <2>3. stop' \in {"none", "idle", "drain"} => drop' = {}
        BY <1>2 DEF AcceptedKept
    <2>4. protect' \subseteq OnStack'
        BY <1>2, SameSets DEF AcceptedKept
    <2>5. Alone' \subseteq Prompts
        BY DEF Alone
    <2>. QED BY <2>1, <2>2, <2>3, <2>4, <2>5 DEF AcceptedKept
<1>. QED BY <1>7, <1>10, <1>11, <1>13, <1>14, <1>15

LEMMA LoadOneKeeps ==
    ASSUME IInv, NEW p \in Prompts, LoadOne(p)
    PROVE  IInv'
<1>. USE DEF IInv, Typed
<1>1. /\ run[p] = "loadOne" /\ run'[p] \in {"push", "emit", "restoreIndex"}
      /\ (run'[p] = "restoreIndex" => Fault)
      /\ run' \in [Prompts -> RunPcs] /\ \A q \in Prompts : q # p => run'[q] = run[q]
    BY GotoFacts DEF LoadOne, RunPcs
<1>2. /\ UNCHANGED <<waiting, row, seq, stack, reply, cancel, stop, drop, protect, queued, overtaken>>
      /\ UNCHANGED <<status, cancelled, expected>>
    BY DEF LoadOne, loop, stopping, store
<1>3. faults \in Nat /\ faults' \in 0..MaxFaults /\ faults <= faults'
    <2>1. UNCHANGED faults \/ Fault
        BY DEF LoadOne
    <2>. QED BY <2>1, FaultBound
<1>4. hand[p] # <<>> /\ Head(hand[p]) \in Held(p) /\ Head(hand[p]) \in Prompts
    BY Members, SmallSets, <1>1 DEF HandTyped, Holding, TypeOK, Held
<1>5. /\ hand' \in [Prompts -> Seq(Prompts)] /\ fetched' \in [Prompts -> Seq(Prompts)]
      /\ text' \in [Prompts -> Seq(Prompts)] /\ saved' \in [Prompts -> Nat]
      /\ \A q \in Prompts : q # p => hand'[q] = hand[q] /\ fetched'[q] = fetched[q] /\ text'[q] = text[q]
      /\ \/ hand'[p] = <<>> /\ Held(p)' = {} /\ run'[p] = "emit"
         \/ hand'[p] = hand[p] /\ Held(p)' = Held(p) /\ run'[p] = "restoreIndex"
         \/ /\ hand'[p] = hand[p] /\ Held(p)' = Held(p) /\ run'[p] = "push"
            /\ text'[p] = row[Head(hand[p])] /\ row[Head(hand[p])] # <<>>
    <2>1. /\ hand \in [Prompts -> Seq(Prompts)] /\ fetched \in [Prompts -> Seq(Prompts)]
          /\ text \in [Prompts -> Seq(Prompts)] /\ saved \in [Prompts -> Nat] /\ row \in [Prompts -> Seq(Prompts)]
        BY DEF TypeOK
    <2>2. CASE Forget(p) /\ Goto(p, "emit")
        BY <2>1, <2>2, Forgotten, GotoFacts DEF RunPcs
    <2>3. CASE UNCHANGED loop /\ Goto(p, "restoreIndex")
        BY <2>1, <2>3, GotoFacts, SameSets DEF RunPcs, loop
    <2>4. CASE /\ row[Head(hand[p])] # <<>> /\ text' = [text EXCEPT ![p] = row[Head(hand[p])]]
               /\ Goto(p, "push") /\ UNCHANGED <<hand, fetched, saved>>
        <3>1. run'[p] = "push"
            BY <2>4, GotoFacts DEF RunPcs
        <3>2. text' \in [Prompts -> Seq(Prompts)] /\ text'[p] = row[Head(hand[p])] /\ \A q \in Prompts : q # p => text'[q] = text[q]
            BY <2>1, <2>4, <1>4
        <3>. QED BY <2>1, <2>4, <3>1, <3>2, SameSets
    <2>. QED BY <2>2, <2>3, <2>4 DEF LoadOne
<1>6. Typed'
    <2>1. TypeOK'
        BY <1>1, <1>2, <1>3, <1>4, <1>5, Members DEF TypeOK
    <2>2. Bounded'
        BY <1>2, <1>3 DEF Bounded
    <2>3. HandTyped'
        BY <1>1, <1>2, <1>3, <1>5 DEF HandTyped, Holding
    <2>. QED BY <2>1, <2>2, <2>3
<1>7. NoBack
    BY <1>1, <1>2, <1>3 DEF NoBack, Unqueued, Unanswered, Queueing, Owned
<1>8. Shrink
    <2>1. run'[p] = "restoreIndex" => faults' > 0
        BY <1>1, FaultBound
    <2>2. \A q \in Prompts : Held(q)' \subseteq Held(q) /\ Follows(hand'[q], hand[q])
        BY <1>5, SameSets
    <2>3. Waits' = Waits /\ OnStack' = OnStack /\ Follows(waiting', waiting) /\ ToSet(stack') = ToSet(stack)
        BY <1>2, SameSets
    <2>. QED BY <1>1, <1>2, <1>3, <2>1, <2>2, <2>3 DEF Shrink, StackOwned
<1>9. Owned' /\ StackOwned' /\ FifoKept'
    BY <1>7, <1>8, ShrinkKeeps
<1>10. Loaded'
    <2>1. ASSUME run'[p] = "push" PROVE ToSet(text'[p]) = Held(p)'
        <3>1. text'[p] = row[Head(hand[p])] /\ row[Head(hand[p])] # <<>> /\ Held(p)' = Held(p)
            BY <2>1, <1>5
        <3>2. Len(hand[p]) = 1 /\ hand[p] \in Seq(Prompts)
            BY <1>1 DEF HandTyped, TypeOK
        <3>3. Held(p) = {Head(hand[p])}
            BY <3>2, SmallSets DEF Held
        <3>4. Head(hand[p]) \in Alone
            BY <1>1, <1>4 DEF Alone
        <3>5. row[Head(hand[p])] = <<Head(hand[p])>>
            BY <3>1, <3>4 DEF RowsOwn
        <3>. QED BY <3>1, <3>3, <3>5, <1>4, OwnText
    <2>. QED BY <1>1, <1>2, <1>5, <2>1, SameSets, Members DEF Loaded
<1>11. Alone' \subseteq Alone
    BY <1>1, <1>2, <1>3, <1>5, <1>8, SameSets, AloneShrinks DEF Alone
<1>12. RowsOwn'
    BY <1>1, <1>2, <1>3, <1>4, <1>5, <1>7, <1>11, OwnText DEF RowsOwn, NoBack, Alone, Unqueued
<1>13. CancelOwned'
    BY <1>2, <1>3, <1>8, <1>4, <1>5, SameSets DEF CancelOwned, Shrink
<1>14. AcceptedKept'
    <2>1. \A q \in Prompts : run'[q] \in Unanswered => reply'[q] = "none"
        BY <1>1, <1>2, <1>7 DEF AcceptedKept, NoBack, Unanswered, Unqueued, Queueing
    <2>2. ASSUME NEW q \in Prompts, q \in Alone', reply'[q] = "ok" PROVE row'[q] # <<>> \/ q \in drop'
        BY <2>2, OwnText, <1>1, <1>2, <1>5, <1>11 DEF AcceptedKept
    <2>3. stop' \in {"none", "idle", "drain"} => drop' = {}
        BY <1>2 DEF AcceptedKept
    <2>4. protect' \subseteq OnStack'
        BY <1>2, SameSets DEF AcceptedKept
    <2>5. Alone' \subseteq Prompts
        BY DEF Alone
    <2>. QED BY <2>1, <2>2, <2>3, <2>4, <2>5 DEF AcceptedKept
<1>. QED BY <1>6, <1>9, <1>10, <1>12, <1>13, <1>14

LEMMA RestoreIndexKeeps ==
    ASSUME IInv, NEW p \in Prompts, RestoreIndex(p)
    PROVE  IInv'
<1>. USE DEF IInv, Typed
<1>1. /\ run[p] = "restoreIndex" /\ run'[p] = "giveBack"
      /\ run' \in [Prompts -> RunPcs] /\ \A q \in Prompts : q # p => run'[q] = run[q]
    BY GotoFacts DEF RestoreIndex, RunPcs
<1>2. /\ UNCHANGED <<waiting, row, stack, reply, hand, fetched, text, saved, cancel, stop, drop, protect, queued, overtaken>>
      /\ UNCHANGED <<status, cancelled, expected>>
    BY DEF RestoreIndex, loop, stopping, store
<1>3. faults \in Nat /\ faults' \in 0..MaxFaults /\ faults <= faults'
    <2>1. UNCHANGED faults \/ Fault
        BY DEF RestoreIndex
    <2>. QED BY <2>1, FaultBound
<1>4. hand[p] # <<>> /\ Head(hand[p]) \in Held(p) /\ Head(hand[p]) \in Prompts
    BY Members, SmallSets, <1>1 DEF HandTyped, Holding, TypeOK, Held
<1>5. saved \in [Prompts -> Nat]
    BY DEF TypeOK
<1>6. /\ seq' \in [Prompts -> Nat] /\ \A q \in Prompts : seq'[q] = seq[q] \/ seq'[q] = saved[p]
    <2>1. seq \in [Prompts -> Nat]
        BY DEF TypeOK
    <2>. QED BY <2>1, <1>4, <1>5 DEF RestoreIndex
<1>7. Typed'
    <2>1. TypeOK'
        BY <1>1, <1>2, <1>3, <1>4, <1>5, <1>6, Members DEF TypeOK
    <2>2. Bounded'
        <3>1. PICK n \in Nat : \A q \in Prompts : seq[q] <= n
            BY DEF Bounded
        <3>2. PICK m \in Nat : n <= m /\ saved[p] <= m
            BY <1>5
        <3>3. \A q \in Prompts : seq[q] \in Nat /\ saved[q] \in Nat
            BY <1>5 DEF TypeOK
        <3>4. \A q \in Prompts : seq'[q] <= m
            BY <3>1, <3>2, <3>3, <1>6
        <3>. QED BY <3>4 DEF Bounded
    <2>3. HandTyped'
        BY <1>1, <1>2, <1>3 DEF HandTyped, Holding
    <2>. QED BY <2>1, <2>2, <2>3
<1>8. NoBack
    BY <1>1, <1>2, <1>3 DEF NoBack, Unqueued, Unanswered, Queueing, Owned
<1>9. Shrink
    BY <1>1, <1>2, <1>3, <1>4, <1>5, <1>6, SameSets DEF Shrink, StackOwned
<1>10. Owned' /\ StackOwned' /\ FifoKept'
    BY <1>8, <1>9, ShrinkKeeps
<1>11. Loaded'
    BY <1>1, <1>2, <1>3, <1>4, <1>5, <1>6, SameSets, Members DEF Loaded
<1>12. Alone' \subseteq Alone
    BY <1>1, <1>2, <1>3, <1>9, SameSets, AloneShrinks DEF Alone
<1>13. RowsOwn'
    BY <1>1, <1>2, <1>3, <1>4, <1>5, <1>6, <1>8, <1>12, OwnText DEF RowsOwn, NoBack, Alone, Unqueued
<1>14. CancelOwned'
    BY <1>2, <1>3, <1>9, <1>4, <1>5, <1>6, SameSets DEF CancelOwned, Shrink
<1>15. AcceptedKept'
    <2>1. \A q \in Prompts : run'[q] \in Unanswered => reply'[q] = "none"
        BY <1>1, <1>2, <1>8 DEF AcceptedKept, NoBack, Unanswered, Unqueued, Queueing
    <2>2. ASSUME NEW q \in Prompts, q \in Alone', reply'[q] = "ok" PROVE row'[q] # <<>> \/ q \in drop'
        BY <2>2, OwnText, <1>1, <1>2, <1>12 DEF AcceptedKept
    <2>3. stop' \in {"none", "idle", "drain"} => drop' = {}
        BY <1>2 DEF AcceptedKept
    <2>4. protect' \subseteq OnStack'
        BY <1>2, SameSets DEF AcceptedKept
    <2>5. Alone' \subseteq Prompts
        BY DEF Alone
    <2>. QED BY <2>1, <2>2, <2>3, <2>4, <2>5 DEF AcceptedKept
<1>. QED BY <1>7, <1>10, <1>11, <1>13, <1>14, <1>15

LEMMA LoadKeeps ==
    ASSUME IInv, NEW p \in Prompts, Load(p)
    PROVE  IInv'
<1>. USE DEF IInv, Typed
<1>1. /\ run[p] = "load" /\ run'[p] \in {"merge", "takeIndex", "emit", "error", "giveBack"}
      /\ (run'[p] = "giveBack" => Fault)
      /\ run' \in [Prompts -> RunPcs] /\ \A q \in Prompts : q # p => run'[q] = run[q]
    BY GotoFacts DEF Load, RunPcs
<1>2. /\ UNCHANGED <<waiting, row, seq, stack, reply, cancel, stop, drop, protect, queued, overtaken>>
      /\ UNCHANGED <<status, cancelled, expected>>
    BY DEF Load, loop, stopping, store
<1>3. faults \in Nat /\ faults' \in 0..MaxFaults /\ faults <= faults'
    <2>1. UNCHANGED faults \/ Fault
        BY DEF Load
    <2>. QED BY <2>1, FaultBound
<1>4. PICK found \in Seq(Prompts) :
        /\ ToSet(found) = {m \in Held(p) : row[m] # <<>>} /\ Follows(found, hand[p])
        /\ found = Kept(hand[p], {m \in Prompts : row[m] # <<>>})
    <2>. DEFINE k == Kept(hand[p], {m \in Prompts : row[m] # <<>>})
    <2>1. hand[p] \in Seq(Prompts)
        BY DEF TypeOK
    <2>2. k \in Seq(Prompts) /\ ToSet(k) = ToSet(hand[p]) \cap {m \in Prompts : row[m] # <<>>} /\ Follows(k, hand[p])
        BY <2>1, KeptProperties, KeptOrdered DEF Follows
    <2>3. Held(p) \subseteq Prompts
        BY Members
    <2>. HIDE DEF k
    <2>4. ToSet(k) = {m \in Held(p) : row[m] # <<>>}
        BY <2>2, <2>3 DEF Held
    <2>. QED BY <2>2, <2>4 DEF k
<1>5. found # <<>> => /\ FlattenSeq([i \in DOMAIN found |-> row[found[i]]]) \in Seq(Prompts)
                       /\ ToSet(FlattenSeq([i \in DOMAIN found |-> row[found[i]]])) = ToSet(found)
    <2>. SUFFICES ASSUME found # <<>> PROVE /\ FlattenSeq([i \in DOMAIN found |-> row[found[i]]]) \in Seq(Prompts)
                       /\ ToSet(FlattenSeq([i \in DOMAIN found |-> row[found[i]]])) = ToSet(found)
        OBVIOUS
    <2>1. row \in [Prompts -> Seq(Prompts)]
        BY DEF TypeOK
    <2>2. ASSUME NEW m \in ToSet(found) PROVE ToSet(row[m]) = {m}
        <3>1. m \in Prompts /\ m \in Held(p) /\ row[m] # <<>>
            BY <1>4, Members
        <3>2. m \in Alone
            BY <3>1, <1>1 DEF Alone
        <3>. QED BY <3>1, <3>2, OwnText DEF RowsOwn
    <2>3. UNION {ToSet(row[m]) : m \in ToSet(found)} = ToSet(found)
        <3>1. \A u : u \in UNION {ToSet(row[m]) : m \in ToSet(found)} <=> \E m \in ToSet(found) : u \in ToSet(row[m])
            BY Zenon
        <3>2. \A u : (\E m \in ToSet(found) : u \in ToSet(row[m])) <=> u \in ToSet(found)
            BY <2>2
        <3>. QED BY <3>1, <3>2
    <2>. QED BY <2>1, <2>3, BatchText
<1>6. /\ hand' \in [Prompts -> Seq(Prompts)] /\ fetched' \in [Prompts -> Seq(Prompts)]
      /\ text' \in [Prompts -> Seq(Prompts)] /\ saved' \in [Prompts -> Nat]
      /\ \A q \in Prompts : q # p => hand'[q] = hand[q] /\ fetched'[q] = fetched[q] /\ text'[q] = text[q]
      /\ \/ /\ found # <<>> /\ run'[p] = "merge" /\ hand'[p] = hand[p] /\ fetched'[p] = found
            /\ text'[p] = FlattenSeq([i \in DOMAIN found |-> row[found[i]]])
         \/ run'[p] = "takeIndex" /\ Len(found) = 1 /\ found # <<>> /\ hand'[p] = found
         \/ run'[p] \in {"emit", "error"} /\ hand'[p] = <<>>
         \/ run'[p] = "giveBack" /\ hand'[p] = hand[p]
    <2>. DEFINE t == FlattenSeq([i \in DOMAIN found |-> row[found[i]]])
    <2>0. /\ hand \in [Prompts -> Seq(Prompts)] /\ fetched \in [Prompts -> Seq(Prompts)]
          /\ text \in [Prompts -> Seq(Prompts)] /\ saved \in [Prompts -> Nat]
        BY DEF TypeOK
    <2>1. Len(<<>>) = 0
        BY EmptySeq
    <2>2. CASE found = <<>> /\ Forget(p) /\ (Goto(p, "emit") \/ Goto(p, "error"))
        BY <2>2, Forgotten, GotoFacts DEF RunPcs
    <2>3. CASE Goto(p, "giveBack") /\ UNCHANGED loop
        BY <2>0, <2>3, GotoFacts DEF RunPcs, loop
    <2>4. CASE Len(found) = 1 /\ hand' = [hand EXCEPT ![p] = found] /\ Goto(p, "takeIndex") /\ UNCHANGED <<fetched, text, saved>>
        <3>1. found # <<>> /\ run'[p] = "takeIndex"
            BY <2>1, <2>4, GotoFacts DEF RunPcs
        <3>. QED BY <2>0, <2>4, <3>1, <1>4
    <2>5. CASE /\ Len(found) > 1 /\ text' = [text EXCEPT ![p] = t] /\ fetched' = [fetched EXCEPT ![p] = found]
               /\ Goto(p, "merge") /\ UNCHANGED <<hand, saved>>
        <3>1. found # <<>> /\ run'[p] = "merge"
            BY <2>1, <2>5, GotoFacts DEF RunPcs
        <3>2. t \in Seq(Prompts)
            BY <3>1, <1>5
        <3>. HIDE DEF t
        <3>3. text' \in [Prompts -> Seq(Prompts)] /\ text'[p] = t /\ \A q \in Prompts : q # p => text'[q] = text[q]
            BY <2>0, <2>5, <3>2
        <3>4. fetched' \in [Prompts -> Seq(Prompts)] /\ fetched'[p] = found /\ \A q \in Prompts : q # p => fetched'[q] = fetched[q]
            BY <2>0, <2>5, <1>4
        <3>. QED BY <2>0, <2>5, <3>1, <3>3, <3>4 DEF t
    <2>6. \/ found = <<>> /\ Forget(p) /\ (Goto(p, "emit") \/ Goto(p, "error"))
          \/ Goto(p, "giveBack") /\ UNCHANGED loop
          \/ Len(found) = 1 /\ hand' = [hand EXCEPT ![p] = found] /\ Goto(p, "takeIndex") /\ UNCHANGED <<fetched, text, saved>>
          \/ /\ Len(found) > 1 /\ text' = [text EXCEPT ![p] = t] /\ fetched' = [fetched EXCEPT ![p] = found]
             /\ Goto(p, "merge") /\ UNCHANGED <<hand, saved>>
        BY <1>4 DEF Load
    <2>. HIDE DEF t
    <2>. QED BY <2>2, <2>3, <2>4, <2>5, <2>6
<1>7. Typed'
    <2>1. TypeOK'
        BY <1>1, <1>2, <1>3, <1>4, <1>5, <1>6, Members DEF TypeOK
    <2>2. Bounded'
        BY <1>2, <1>3 DEF Bounded
    <2>3. HandTyped'
        BY <1>1, <1>2, <1>3, <1>4, <1>6 DEF HandTyped, Holding
    <2>. QED BY <2>1, <2>2, <2>3
<1>8. NoBack
    BY <1>1, <1>2, <1>3 DEF NoBack, Unqueued, Unanswered, Queueing, Owned
<1>9. Shrink
    <2>1. run'[p] = "giveBack" => faults' > 0
        BY <1>1, FaultBound
    <2>2. \A q \in Prompts : Held(q)' \subseteq Held(q) /\ Follows(hand'[q], hand[q])
        <3>1. \A q \in Prompts : q # p => Held(q)' \subseteq Held(q) /\ Follows(hand'[q], hand[q])
            BY <1>6, SameSets
        <3>2. hand'[p] = found => Held(p)' = ToSet(found)
            BY DEF Held
        <3>3. Held(p)' \subseteq Held(p) /\ Follows(hand'[p], hand[p])
            BY <1>6, <1>4, <3>2, SameSets
        <3>. QED BY <3>1, <3>3
    <2>3. Waits' = Waits /\ OnStack' = OnStack /\ Follows(waiting', waiting) /\ ToSet(stack') = ToSet(stack)
        BY <1>2, SameSets
    <2>. QED BY <1>1, <1>2, <1>3, <2>1, <2>2, <2>3 DEF Shrink, StackOwned
<1>10. Owned' /\ StackOwned' /\ FifoKept'
    BY <1>8, <1>9, ShrinkKeeps
<1>11. Loaded'
    <2>1. ASSUME run'[p] = "merge"
          PROVE  /\ ToSet(fetched'[p]) \subseteq Held(p)' /\ ToSet(text'[p]) = ToSet(fetched'[p])
                 /\ Follows(fetched'[p], hand'[p])
                 /\ \A m \in ToSet(fetched'[p]) : run'[m] # "insertRow"
        <3>1. /\ found # <<>> /\ hand'[p] = hand[p] /\ fetched'[p] = found
              /\ text'[p] = FlattenSeq([i \in DOMAIN found |-> row[found[i]]])
            BY <2>1, <1>6
        <3>2. Held(p)' = Held(p)
            BY <3>1, SameSets
        <3>3. \A m \in ToSet(found) : run'[m] # "insertRow"
            BY <1>4, <1>1, Members DEF RowsOwn
        <3>. QED BY <3>1, <3>2, <3>3, <1>4, <1>5
    <2>. QED BY <1>1, <1>2, <1>6, <2>1, SameSets, Members DEF Loaded
<1>12. Alone' \subseteq Alone
    BY <1>1, <1>2, <1>3, <1>4, <1>6, <1>9, SameSets, AloneShrinks DEF Alone
<1>13. RowsOwn'
    BY <1>1, <1>2, <1>3, <1>4, <1>5, <1>6, <1>8, <1>12, OwnText DEF RowsOwn, NoBack, Alone, Unqueued
<1>14. CancelOwned'
    BY <1>2, <1>3, <1>9, <1>4, <1>5, <1>6, SameSets DEF CancelOwned, Shrink
<1>15. AcceptedKept'
    <2>1. \A q \in Prompts : run'[q] \in Unanswered => reply'[q] = "none"
        BY <1>1, <1>2, <1>8 DEF AcceptedKept, NoBack, Unanswered, Unqueued, Queueing
    <2>2. ASSUME NEW q \in Prompts, q \in Alone', reply'[q] = "ok" PROVE row'[q] # <<>> \/ q \in drop'
        BY <2>2, OwnText, <1>1, <1>2, <1>4, <1>6, <1>12 DEF AcceptedKept
    <2>3. stop' \in {"none", "idle", "drain"} => drop' = {}
        BY <1>2 DEF AcceptedKept
    <2>4. protect' \subseteq OnStack'
        BY <1>2, SameSets DEF AcceptedKept
    <2>5. Alone' \subseteq Prompts
        BY DEF Alone
    <2>. QED BY <2>1, <2>2, <2>3, <2>4, <2>5 DEF AcceptedKept
<1>. QED BY <1>7, <1>10, <1>11, <1>13, <1>14, <1>15

LEMMA MergeKeeps ==
    ASSUME IInv, NEW p \in Prompts, Merge(p)
    PROVE  IInv'
<1>. USE DEF IInv, Typed
<1>1. /\ run[p] = "merge" /\ run'[p] \in {"push", "giveBack"}
      /\ (run'[p] = "giveBack" => Fault)
      /\ run' \in [Prompts -> RunPcs] /\ \A q \in Prompts : q # p => run'[q] = run[q]
    BY GotoFacts DEF Merge, RunPcs
<1>2. /\ UNCHANGED <<waiting, stack, reply, fetched, text, saved, cancel, stop, drop, protect, queued, overtaken>>
      /\ UNCHANGED <<status, cancelled, expected>>
    BY DEF Merge, loop, stopping, store
<1>3. faults \in Nat /\ faults' \in 0..MaxFaults /\ faults <= faults'
    <2>1. UNCHANGED faults \/ Fault
        BY DEF Merge
    <2>. QED BY <2>1, FaultBound
<1>4. /\ row \in [Prompts -> Seq(Prompts)] /\ seq \in [Prompts -> Nat] /\ hand \in [Prompts -> Seq(Prompts)]
      /\ fetched[p] \in Seq(Prompts) /\ text[p] \in Seq(Prompts) /\ fetched[p] # <<>> /\ <<>> \in Seq(Prompts)
      /\ Head(fetched[p]) \in ToSet(fetched[p]) /\ ToSet(fetched[p]) \subseteq Held(p) /\ Held(p) \subseteq Prompts
    <2>1. fetched[p] \in Seq(Prompts) /\ fetched[p] # <<>>
        BY <1>1 DEF TypeOK, HandTyped
    <2>. QED BY <2>1, <1>1, SmallSets, EmptySeq, Members DEF TypeOK, Loaded
<1>5. /\ hand' \in [Prompts -> Seq(Prompts)] /\ \A q \in Prompts : q # p => hand'[q] = hand[q]
      /\ \/ run'[p] = "push" /\ hand'[p] = fetched[p]
         \/ run'[p] = "giveBack" /\ hand'[p] = hand[p]
    <2>1. CASE Goto(p, "push") /\ hand' = [hand EXCEPT ![p] = fetched[p]]
        BY <2>1, <1>4, GotoFacts DEF RunPcs
    <2>2. CASE Goto(p, "giveBack") /\ UNCHANGED hand
        BY <2>2, <1>4, GotoFacts DEF RunPcs
    <2>. QED BY <2>1, <2>2 DEF Merge
<1>6. /\ row' \in [Prompts -> Seq(Prompts)] /\ \A q \in Prompts : q \notin ToSet(fetched[p]) => row'[q] = row[q]
      /\ run'[p] = "giveBack" => UNCHANGED row
    <2>1. Goto(p, "push") => run'[p] # "giveBack"
        BY GotoFacts DEF RunPcs
    <2>2. CASE UNCHANGED row
        BY <2>2, <1>4
    <2>3. CASE /\ Goto(p, "push")
               /\ row' = [m \in Prompts |-> IF m = Head(fetched[p]) THEN text[p]
                                            ELSE IF m \in ToSet(fetched[p]) THEN <<>> ELSE row[m]]
        BY <2>1, <2>3, <1>4
    <2>. QED BY <2>2, <2>3 DEF Merge
<1>7. seq' \in [Prompts -> Nat] /\ \A q \in Prompts : seq'[q] = seq[q] \/ seq'[q] = 0
    <2>1. seq \in [Prompts -> Nat]
        BY <1>4
    <2>2. CASE UNCHANGED seq
        BY <2>1, <2>2
    <2>3. CASE seq' = [m \in Prompts |-> IF m \in ToSet(fetched[p]) THEN 0 ELSE seq[m]]
        BY <2>1, <2>3
    <2>. QED BY <2>2, <2>3 DEF Merge
<1>8. Typed'
    <2>1. TypeOK'
        BY <1>1, <1>2, <1>3, <1>4, <1>5, <1>6, <1>7, Members DEF TypeOK
    <2>2. Bounded'
        <3>1. PICK n \in Nat : \A q \in Prompts : seq[q] <= n
            BY DEF Bounded
        <3>. QED BY <3>1, <1>7 DEF Bounded
    <2>3. HandTyped'
        BY <1>1, <1>2, <1>5, <1>4 DEF HandTyped, Holding
    <2>. QED BY <2>1, <2>2, <2>3
<1>9. NoBack
    BY <1>1, <1>2, <1>3 DEF NoBack, Unqueued, Unanswered, Queueing, Owned
<1>10. Shrink
    <2>1. run'[p] = "giveBack" => faults' > 0
        BY <1>1, FaultBound
    <2>2. \A q \in Prompts : Held(q)' \subseteq Held(q) /\ Follows(hand'[q], hand[q])
        <3>1. \A q \in Prompts : q # p => Held(q)' \subseteq Held(q) /\ Follows(hand'[q], hand[q])
            BY <1>5, SameSets
        <3>2. hand'[p] = fetched[p] => Held(p)' = ToSet(fetched[p])
            BY DEF Held
        <3>3. Held(p)' \subseteq Held(p) /\ Follows(hand'[p], hand[p])
            BY <1>5, <1>4, <1>1, <3>2, SameSets DEF Loaded
        <3>. QED BY <3>1, <3>3
    <2>3. Waits' = Waits /\ OnStack' = OnStack /\ Follows(waiting', waiting) /\ ToSet(stack') = ToSet(stack)
        BY <1>2, SameSets
    <2>. QED BY <1>1, <1>2, <1>3, <2>1, <2>2, <2>3 DEF Shrink, StackOwned
<1>11. Owned' /\ StackOwned' /\ FifoKept'
    BY <1>9, <1>10, ShrinkKeeps
<1>12. Loaded'
    <2>1. run'[p] = "push" => ToSet(text'[p]) = Held(p)'
        BY <1>1, <1>2, <1>5 DEF Loaded, Held
    <2>. QED BY <1>1, <1>2, <1>5, <2>1, SameSets, Members DEF Loaded
<1>13. Alone' \subseteq Alone /\ \A q \in Alone' : row'[q] = row[q]
    <2>1. Alone' \subseteq Alone
        BY <1>1, <1>2, <1>5, <1>10, SameSets, AloneShrinks DEF Alone
    <2>2. ASSUME run'[p] = "push", NEW q \in ToSet(fetched[p]) PROVE q \notin Alone'
        <3>1. q \in Held(p) /\ q \in Prompts
            BY <2>2, <1>4
        <3>2. q \notin Waits' /\ \A r \in Prompts : r # p => q \notin Held(r)'
            BY <3>1, <1>2, <1>5, SameSets DEF Owned
        <3>3. cancel'[q] \notin {"delete", "deleteRow"}
            BY <3>1, <1>2 DEF CancelOwned, Gone
        <3>. QED BY <2>2, <3>2, <3>3 DEF Alone
    <2>3. \A q \in Alone' : row'[q] = row[q]
        <3>1. Alone' \subseteq Prompts
            BY DEF Alone
        <3>. QED BY <2>2, <3>1, <1>6, <1>5
    <2>. QED BY <2>1, <2>3
<1>14. RowsOwn'
    <2>1. \A q \in Prompts : q \in ToSet(fetched[p]) => run'[q] \notin Unqueued \cup {"insertRow", "persist"}
        <3>1. \A q \in ToSet(fetched[p]) : q \in Queued /\ run[q] \in Queueing /\ run[q] # "insertRow"
            BY <1>4, <1>1 DEF Owned, Loaded
        <3>. QED BY <3>1, <1>1 DEF Queueing, Unqueued
    <2>. QED BY <1>6, <1>9, <1>13, <2>1 DEF RowsOwn, NoBack
<1>15. CancelOwned'
    BY <1>2, <1>3, <1>10, <1>4, <1>5, <1>6, <1>7, SameSets DEF CancelOwned, Shrink
<1>16. AcceptedKept'
    <2>1. \A q \in Prompts : run'[q] \in Unanswered => reply'[q] = "none"
        BY <1>1, <1>2, <1>9 DEF AcceptedKept, NoBack, Unanswered, Unqueued, Queueing
    <2>2. ASSUME NEW q \in Prompts, q \in Alone', reply'[q] = "ok" PROVE row'[q] # <<>> \/ q \in drop'
        BY <2>2, <1>2, <1>13 DEF AcceptedKept
    <2>3. stop' \in {"none", "idle", "drain"} => drop' = {}
        BY <1>2 DEF AcceptedKept
    <2>4. protect' \subseteq OnStack'
        BY <1>2, SameSets DEF AcceptedKept
    <2>5. Alone' \subseteq Prompts
        BY DEF Alone
    <2>. QED BY <2>1, <2>2, <2>3, <2>4, <2>5 DEF AcceptedKept
<1>. QED BY <1>8, <1>11, <1>12, <1>14, <1>15, <1>16
-----------------------------------------------------------------------------
(* cancel_pending_message, up to its transaction, and the discard.            *)

LEMMA CancelTakeKeeps ==
    ASSUME IInv, NEW p \in Prompts, CancelTake(p)
    PROVE  IInv'
<1>. USE DEF IInv, Typed
<1>1. /\ UNCHANGED <<row, seq, stack, reply, hand, fetched, text, saved, stop, drop, protect, queued, overtaken>>
      /\ UNCHANGED <<status, cancelled, expected, run>>
    BY DEF CancelTake, loop, stopping, store
<1>2. faults \in Nat /\ faults' \in 0..MaxFaults /\ faults <= faults'
    <2>1. UNCHANGED faults \/ Fault
        BY DEF CancelTake
    <2>. QED BY <2>1, FaultBound
<1>3. /\ waiting' \in Seq(Prompts) /\ Waits' = Waits \ {p}
      /\ Follows(waiting', waiting)
    <2>1. waiting \in Seq(Prompts) /\ waiting' = Kept(waiting, Prompts \ {p})
        BY DEF CancelTake, TypeOK
    <2>2. waiting' \in Seq(Prompts) /\ ToSet(waiting') = ToSet(waiting) \cap (Prompts \ {p})
        BY <2>1, KeptProperties
    <2>3. Follows(waiting', waiting)
        BY <2>1, KeptOrdered DEF Follows
    <2>4. Waits' = Waits \ {p}
        BY <2>2, Members DEF Waits
    <2>. QED BY <2>2, <2>3, <2>4
<1>4. /\ cancel' \in [Prompts -> {"none", "delete", "deleteRow", "cancelled", "refused"}] /\ \A q \in Prompts : q # p => cancel'[q] = cancel[q]
      /\ cancel'[p] \in {"delete", "refused"} /\ (cancel'[p] = "delete" => p \in Waits) /\ p \in Queued
    <2>1. cancel \in [Prompts -> {"none", "delete", "deleteRow", "cancelled", "refused"}] /\ waiting \in Seq(Prompts) /\ queued \in Seq(Prompts)
        BY DEF TypeOK
    <2>2. Contains(waiting, p) <=> p \in Waits
        BY <2>1, ContainsSet DEF Waits
    <2>3. p \in Queued
        BY <2>1, ContainsSet DEF Queued, CancelTake
    <2>. QED BY <2>1, <2>2, <2>3 DEF CancelTake, Cancelling
<1>5. Typed'
    <2>1. TypeOK'
        BY <1>1, <1>2, <1>3, <1>4, Members DEF TypeOK
    <2>2. Bounded'
        BY <1>1, <1>2 DEF Bounded
    <2>3. HandTyped'
        BY <1>1, <1>2 DEF HandTyped, Holding
    <2>. QED BY <2>1, <2>2, <2>3
<1>6. NoBack
    BY <1>1, <1>2 DEF NoBack, Unqueued, Unanswered, Queueing, Owned
<1>7. Shrink
    BY <1>1, <1>2, <1>3, <1>4, SameSets DEF Shrink, StackOwned
<1>8. Owned' /\ StackOwned' /\ FifoKept'
    BY <1>6, <1>7, ShrinkKeeps
<1>9. Loaded'
    BY <1>1, <1>2, <1>3, <1>4, SameSets, Members DEF Loaded
<1>10. Alone' \subseteq Alone
    BY <1>1, <1>2, <1>4, <1>7, SameSets, AloneShrinks DEF Alone
<1>11. RowsOwn'
    BY <1>1, <1>2, <1>3, <1>4, <1>6, <1>10, OwnText DEF RowsOwn, NoBack, Alone, Unqueued
<1>12. CancelOwned'
    BY <1>1, <1>2, <1>7, <1>3, <1>4, SameSets DEF CancelOwned, Shrink, Owned, StackOwned, Gone
<1>13. AcceptedKept'
    <2>1. \A q \in Prompts : run'[q] \in Unanswered => reply'[q] = "none"
        BY <1>1, <1>6 DEF AcceptedKept, NoBack, Unanswered, Unqueued, Queueing
    <2>2. ASSUME NEW q \in Prompts, q \in Alone', reply'[q] = "ok" PROVE row'[q] # <<>> \/ q \in drop'
        BY <2>2, OwnText, <1>1, <1>10 DEF AcceptedKept
    <2>3. stop' \in {"none", "idle", "drain"} => drop' = {}
        BY <1>1 DEF AcceptedKept
    <2>4. protect' \subseteq OnStack'
        BY <1>1, SameSets DEF AcceptedKept
    <2>5. Alone' \subseteq Prompts
        BY DEF Alone
    <2>. QED BY <2>1, <2>2, <2>3, <2>4, <2>5 DEF AcceptedKept
<1>. QED BY <1>5, <1>8, <1>9, <1>11, <1>12, <1>13

LEMMA CancelDeleteRowKeeps ==
    ASSUME IInv, NEW p \in Prompts, CancelDeleteRow(p)
    PROVE  IInv'
<1>. USE DEF IInv, Typed
<1>1. /\ UNCHANGED <<waiting, stack, reply, hand, fetched, text, saved, stop, drop, protect, queued, overtaken>>
      /\ UNCHANGED <<status, cancelled, expected, run>>
    BY DEF CancelDeleteRow, loop, stopping, store
<1>2. faults \in Nat /\ faults' \in 0..MaxFaults /\ faults <= faults'
    <2>1. UNCHANGED faults \/ Fault
        BY DEF CancelDeleteRow
    <2>. QED BY <2>1, FaultBound
<1>3. /\ cancel' \in [Prompts -> {"none", "delete", "deleteRow", "cancelled", "refused"}] /\ \A q \in Prompts : q # p => cancel'[q] = cancel[q]
      /\ cancel[p] = "deleteRow" /\ cancel'[p] = "cancelled"
    <2>1. cancel \in [Prompts -> {"none", "delete", "deleteRow", "cancelled", "refused"}]
        BY DEF TypeOK
    <2>. QED BY <2>1 DEF CancelDeleteRow, Cancelling
<1>4. /\ row' \in [Prompts -> Seq(Prompts)] /\ \A q \in Prompts : row'[q] \in {row[q], <<>>}
      /\ \A q \in Prompts : q # p => row'[q] = row[q]
    <2>1. row \in [Prompts -> Seq(Prompts)] /\ <<>> \in Seq(Prompts)
        BY EmptySeq DEF TypeOK
    <2>2. ASSUME NEW P, P \subseteq {p}, DeleteRows(P) PROVE /\ row' \in [Prompts -> Seq(Prompts)] /\ \A q \in Prompts : row'[q] \in {row[q], <<>>}
      /\ \A q \in Prompts : q # p => row'[q] = row[q]
        BY <2>1, <2>2 DEF DeleteRows
    <2>3. CASE UNCHANGED row
        BY <2>1, <2>3
    <2>. QED BY <2>2, <2>3 DEF CancelDeleteRow
<1>5. /\ seq' \in [Prompts -> Nat] /\ \A q \in Prompts : seq'[q] = seq[q] \/ seq'[q] = 0
    <2>1. seq \in [Prompts -> Nat]
        BY DEF TypeOK
    <2>2. ASSUME NEW P, DeleteRows(P) PROVE /\ seq' \in [Prompts -> Nat] /\ \A q \in Prompts : seq'[q] = seq[q] \/ seq'[q] = 0
        BY <2>1, <2>2 DEF DeleteRows
    <2>3. CASE UNCHANGED seq
        BY <2>1, <2>3
    <2>. QED BY <2>2, <2>3 DEF CancelDeleteRow
<1>6. Typed'
    <2>1. TypeOK'
        BY <1>1, <1>2, <1>3, <1>4, <1>5, Members DEF TypeOK
    <2>2. Bounded'
        <3>1. PICK n \in Nat : \A q \in Prompts : seq[q] <= n
            BY DEF Bounded
        <3>. QED BY <3>1, <1>5 DEF Bounded
    <2>3. HandTyped'
        BY <1>1, <1>2 DEF HandTyped, Holding
    <2>. QED BY <2>1, <2>2, <2>3
<1>7. NoBack
    BY <1>1, <1>2 DEF NoBack, Unqueued, Unanswered, Queueing, Owned
<1>8. Shrink
    BY <1>1, <1>2, <1>3, <1>4, <1>5, SameSets DEF Shrink, StackOwned
<1>9. Owned' /\ StackOwned' /\ FifoKept'
    BY <1>7, <1>8, ShrinkKeeps
<1>10. Loaded'
    BY <1>1, <1>2, <1>3, <1>4, <1>5, SameSets, Members DEF Loaded
<1>11. Alone' \subseteq Alone \ {p}
    <2>1. Alone' \subseteq Alone
        BY <1>1, <1>3, <1>8, SameSets, AloneShrinks DEF Alone
    <2>2. p \notin Alone'
        BY <1>1, <1>3, SameSets DEF Alone, CancelOwned, Gone
    <2>. QED BY <2>1, <2>2
<1>12. RowsOwn'
    BY <1>1, <1>4, <1>7, <1>11 DEF RowsOwn, NoBack, Alone
<1>13. CancelOwned'
    BY <1>1, <1>3, SameSets DEF CancelOwned, Gone
<1>14. AcceptedKept'
    <2>1. \A q \in Prompts : run'[q] \in Unanswered => reply'[q] = "none"
        BY <1>1, <1>7 DEF AcceptedKept, NoBack, Unanswered, Unqueued, Queueing
    <2>2. ASSUME NEW q \in Prompts, q \in Alone', reply'[q] = "ok" PROVE row'[q] # <<>> \/ q \in drop'
        BY <2>2, <1>1, <1>4, <1>11 DEF AcceptedKept, Alone
    <2>3. stop' \in {"none", "idle", "drain"} => drop' = {}
        BY <1>1 DEF AcceptedKept
    <2>4. protect' \subseteq OnStack'
        BY <1>1, SameSets DEF AcceptedKept
    <2>5. Alone' \subseteq Prompts
        BY DEF Alone
    <2>. QED BY <2>1, <2>2, <2>3, <2>4, <2>5 DEF AcceptedKept
<1>. QED BY <1>6, <1>9, <1>10, <1>12, <1>13, <1>14

LEMMA DiscardDrainKeeps ==
    ASSUME IInv, DiscardDrain
    PROVE  IInv'
<1>. USE DEF IInv, Typed
<1>1. /\ UNCHANGED <<row, seq, stack, reply, hand, fetched, text, saved, cancel, queued, overtaken>>
      /\ UNCHANGED <<status, cancelled, expected, run>>
    BY DEF DiscardDrain, loop, stopping, store
<1>2. faults \in Nat /\ faults' \in 0..MaxFaults /\ faults <= faults'
    <2>1. UNCHANGED faults \/ Fault
        BY DEF DiscardDrain
    <2>. QED BY <2>1, FaultBound
<1>3. waiting' = <<>> /\ waiting' \in Seq(Prompts) /\ Waits' = {} /\ Follows(waiting', waiting)
    BY EmptySeq, SmallSets, SameSets DEF DiscardDrain, Waits, TypeOK
<1>4. /\ stop = "drain" /\ stop' \in {"list"}
      /\ drop' \subseteq Prompts /\ protect' \subseteq Prompts /\ protect' \subseteq OnStack
      /\ drop = {} /\ drop' = Waits
    <2>1. StackIds \subseteq OnStack /\ OnStack \subseteq Prompts /\ Waits \subseteq Prompts
        BY Members, StackSets
    <2>. QED BY <2>1 DEF DiscardDrain, Waits, AcceptedKept
<1>5. Typed'
    <2>1. TypeOK'
        BY <1>1, <1>2, <1>3, <1>4, Members DEF TypeOK
    <2>2. Bounded'
        BY <1>1, <1>2 DEF Bounded
    <2>3. HandTyped'
        BY <1>1, <1>2 DEF HandTyped, Holding
    <2>. QED BY <2>1, <2>2, <2>3
<1>6. NoBack
    BY <1>1, <1>2 DEF NoBack, Unqueued, Unanswered, Queueing, Owned
<1>7. Shrink
    BY <1>1, <1>2, <1>3, <1>4, SameSets DEF Shrink, StackOwned
<1>8. Owned' /\ StackOwned' /\ FifoKept'
    BY <1>6, <1>7, ShrinkKeeps
<1>9. Loaded'
    BY <1>1, <1>2, <1>3, <1>4, SameSets, Members DEF Loaded
<1>10. Alone' \subseteq Alone
    BY <1>1, <1>2, <1>7, SameSets, AloneShrinks DEF Alone
<1>11. RowsOwn'
    BY <1>1, <1>2, <1>3, <1>4, <1>6, <1>10, OwnText DEF RowsOwn, NoBack, Alone, Unqueued
<1>12. CancelOwned'
    BY <1>1, <1>2, <1>7, <1>3, <1>4, SameSets DEF CancelOwned, Shrink
<1>13. AcceptedKept'
    <2>1. \A q \in Prompts : run'[q] \in Unanswered => reply'[q] = "none"
        BY <1>1, <1>6 DEF AcceptedKept, NoBack, Unanswered, Unqueued, Queueing
    <2>2. ASSUME NEW q \in Prompts, q \in Alone', reply'[q] = "ok" PROVE row'[q] # <<>> \/ q \in drop'
        BY <2>2, OwnText, <1>1, <1>4, <1>10 DEF AcceptedKept
    <2>3. stop' \in {"none", "idle", "drain"} => drop' = {}
        BY <1>1, <1>4 DEF AcceptedKept
    <2>4. protect' \subseteq OnStack'
        BY <1>1, <1>4, SameSets DEF AcceptedKept
    <2>5. Alone' \subseteq Prompts
        BY DEF Alone
    <2>. QED BY <2>1, <2>2, <2>3, <2>4, <2>5 DEF AcceptedKept
<1>. QED BY <1>5, <1>8, <1>9, <1>11, <1>12, <1>13

LEMMA DiscardListKeeps ==
    ASSUME IInv, DiscardList
    PROVE  IInv'
<1>. USE DEF IInv, Typed
<1>1. /\ UNCHANGED <<waiting, row, seq, stack, reply, hand, fetched, text, saved, cancel, protect, queued, overtaken>>
      /\ UNCHANGED <<status, cancelled, expected, run>>
    BY DEF DiscardList, loop, stopping, store
<1>2. faults \in Nat /\ faults' \in 0..MaxFaults /\ faults <= faults'
    <2>1. UNCHANGED faults \/ Fault
        BY DEF DiscardList
    <2>. QED BY <2>1, FaultBound
<1>3. /\ stop = "list" /\ stop' \in {"clear", "delete", "end"}
      /\ drop' \subseteq Prompts /\ protect \subseteq Prompts /\ protect \subseteq OnStack
      /\ drop \ OnStack \subseteq drop'
    <2>1. drop \subseteq Prompts /\ protect \subseteq Prompts /\ protect \subseteq OnStack
        BY DEF TypeOK, AcceptedKept
    <2>2. Indexed \subseteq Prompts
        BY DEF Indexed
    <2>. QED BY <2>1, <2>2 DEF DiscardList
<1>4. Typed'
    <2>1. TypeOK'
        BY <1>1, <1>2, <1>3, Members DEF TypeOK
    <2>2. Bounded'
        BY <1>1, <1>2 DEF Bounded
    <2>3. HandTyped'
        BY <1>1, <1>2 DEF HandTyped, Holding
    <2>. QED BY <2>1, <2>2, <2>3
<1>5. NoBack
    BY <1>1, <1>2 DEF NoBack, Unqueued, Unanswered, Queueing, Owned
<1>6. Shrink
    BY <1>1, <1>2, <1>3, SameSets DEF Shrink, StackOwned
<1>7. Owned' /\ StackOwned' /\ FifoKept'
    BY <1>5, <1>6, ShrinkKeeps
<1>8. Loaded'
    BY <1>1, <1>2, <1>3, SameSets, Members DEF Loaded
<1>9. Alone' \subseteq Alone
    BY <1>1, <1>2, <1>6, SameSets, AloneShrinks DEF Alone
<1>10. RowsOwn'
    BY <1>1, <1>2, <1>3, <1>5, <1>9, OwnText DEF RowsOwn, NoBack, Alone, Unqueued
<1>11. CancelOwned'
    BY <1>1, <1>2, <1>6, <1>3, SameSets DEF CancelOwned, Shrink
<1>12. AcceptedKept'
    <2>1. \A q \in Prompts : run'[q] \in Unanswered => reply'[q] = "none"
        BY <1>1, <1>5 DEF AcceptedKept, NoBack, Unanswered, Unqueued, Queueing
    <2>2. ASSUME NEW q \in Prompts, q \in Alone', reply'[q] = "ok" PROVE row'[q] # <<>> \/ q \in drop'
        BY <2>2, <1>1, <1>3, <1>9, AloneOffStack DEF AcceptedKept
    <2>3. stop' \in {"none", "idle", "drain"} => drop' = {}
        BY <1>1, <1>3 DEF AcceptedKept
    <2>4. protect' \subseteq OnStack'
        BY <1>1, <1>3, SameSets DEF AcceptedKept
    <2>5. Alone' \subseteq Prompts
        BY DEF Alone
    <2>. QED BY <2>1, <2>2, <2>3, <2>4, <2>5 DEF AcceptedKept
<1>. QED BY <1>4, <1>7, <1>8, <1>10, <1>11, <1>12

LEMMA DiscardClearKeeps ==
    ASSUME IInv, DiscardClear
    PROVE  IInv'
<1>. USE DEF IInv, Typed
<1>1. /\ UNCHANGED <<waiting, row, stack, reply, hand, fetched, text, saved, cancel, drop, protect, queued, overtaken>>
      /\ UNCHANGED <<status, cancelled, expected, run>>
    BY DEF DiscardClear, loop, stopping, store
<1>2. faults \in Nat /\ faults' \in 0..MaxFaults /\ faults <= faults'
    <2>1. UNCHANGED faults \/ Fault
        BY DEF DiscardClear
    <2>. QED BY <2>1, FaultBound
<1>3. stop = "clear" /\ stop' \in {"delete", "end"}
    BY DEF DiscardClear
<1>4. /\ seq' \in [Prompts -> Nat] /\ \A q \in Prompts : seq'[q] = seq[q] \/ seq'[q] = 0
    <2>1. seq \in [Prompts -> Nat]
        BY DEF TypeOK
    <2>2. CASE seq' = [q \in Prompts |-> 0]
        BY <2>2
    <2>3. CASE UNCHANGED seq
        BY <2>1, <2>3
    <2>. QED BY <2>2, <2>3 DEF DiscardClear
<1>5. Typed'
    <2>1. TypeOK'
        BY <1>1, <1>2, <1>3, <1>4, Members DEF TypeOK
    <2>2. Bounded'
        <3>1. PICK n \in Nat : \A q \in Prompts : seq[q] <= n
            BY DEF Bounded
        <3>. QED BY <3>1, <1>4 DEF Bounded
    <2>3. HandTyped'
        BY <1>1, <1>2 DEF HandTyped, Holding
    <2>. QED BY <2>1, <2>2, <2>3
<1>6. NoBack
    BY <1>1, <1>2 DEF NoBack, Unqueued, Unanswered, Queueing, Owned
<1>7. Shrink
    BY <1>1, <1>2, <1>3, <1>4, SameSets DEF Shrink, StackOwned
<1>8. Owned' /\ StackOwned' /\ FifoKept'
    BY <1>6, <1>7, ShrinkKeeps
<1>9. Loaded'
    BY <1>1, <1>2, <1>3, <1>4, SameSets, Members DEF Loaded
<1>10. Alone' \subseteq Alone
    BY <1>1, <1>2, <1>7, SameSets, AloneShrinks DEF Alone
<1>11. RowsOwn'
    BY <1>1, <1>2, <1>3, <1>4, <1>6, <1>10, OwnText DEF RowsOwn, NoBack, Alone, Unqueued
<1>12. CancelOwned'
    BY <1>1, <1>2, <1>7, <1>3, <1>4, SameSets DEF CancelOwned, Shrink
<1>13. AcceptedKept'
    <2>1. \A q \in Prompts : run'[q] \in Unanswered => reply'[q] = "none"
        BY <1>1, <1>6 DEF AcceptedKept, NoBack, Unanswered, Unqueued, Queueing
    <2>2. ASSUME NEW q \in Prompts, q \in Alone', reply'[q] = "ok" PROVE row'[q] # <<>> \/ q \in drop'
        BY <2>2, OwnText, <1>1, <1>3, <1>10 DEF AcceptedKept
    <2>3. stop' \in {"none", "idle", "drain"} => drop' = {}
        BY <1>1, <1>3 DEF AcceptedKept
    <2>4. protect' \subseteq OnStack'
        BY <1>1, <1>3, SameSets DEF AcceptedKept
    <2>5. Alone' \subseteq Prompts
        BY DEF Alone
    <2>. QED BY <2>1, <2>2, <2>3, <2>4, <2>5 DEF AcceptedKept
<1>. QED BY <1>5, <1>8, <1>9, <1>11, <1>12, <1>13

LEMMA DiscardDeleteKeeps ==
    ASSUME IInv, DiscardDelete
    PROVE  IInv'
<1>. USE DEF IInv, Typed
<1>1. /\ UNCHANGED <<waiting, stack, reply, hand, fetched, text, saved, cancel, drop, protect, queued, overtaken>>
      /\ UNCHANGED <<status, cancelled, expected, run>>
    BY DEF DiscardDelete, loop, stopping, store
<1>2. faults \in Nat /\ faults' \in 0..MaxFaults /\ faults <= faults'
    <2>1. UNCHANGED faults \/ Fault
        BY DEF DiscardDelete
    <2>. QED BY <2>1, FaultBound
<1>3. stop = "delete" /\ stop' = "retain" /\ drop \subseteq Prompts
    BY DEF DiscardDelete, TypeOK
<1>4. /\ row' \in [Prompts -> Seq(Prompts)] /\ \A q \in Prompts : row'[q] \in {row[q], <<>>}
      /\ \A q \in Prompts : q \notin drop => row'[q] = row[q]
    <2>1. row \in [Prompts -> Seq(Prompts)] /\ <<>> \in Seq(Prompts)
        BY EmptySeq DEF TypeOK
    <2>2. ASSUME NEW P, P \subseteq drop, DeleteRows(P) PROVE /\ row' \in [Prompts -> Seq(Prompts)] /\ \A q \in Prompts : row'[q] \in {row[q], <<>>}
      /\ \A q \in Prompts : q \notin drop => row'[q] = row[q]
        BY <2>1, <2>2 DEF DeleteRows
    <2>3. CASE UNCHANGED row
        BY <2>1, <2>3
    <2>. QED BY <2>2, <2>3 DEF DiscardDelete
<1>5. /\ seq' \in [Prompts -> Nat] /\ \A q \in Prompts : seq'[q] = seq[q] \/ seq'[q] = 0
    <2>1. seq \in [Prompts -> Nat]
        BY DEF TypeOK
    <2>2. ASSUME NEW P, DeleteRows(P) PROVE /\ seq' \in [Prompts -> Nat] /\ \A q \in Prompts : seq'[q] = seq[q] \/ seq'[q] = 0
        BY <2>1, <2>2 DEF DeleteRows
    <2>3. CASE UNCHANGED seq
        BY <2>1, <2>3
    <2>. QED BY <2>2, <2>3 DEF DiscardDelete
<1>6. Typed'
    <2>1. TypeOK'
        BY <1>1, <1>2, <1>3, <1>4, <1>5, Members DEF TypeOK
    <2>2. Bounded'
        <3>1. PICK n \in Nat : \A q \in Prompts : seq[q] <= n
            BY DEF Bounded
        <3>. QED BY <3>1, <1>5 DEF Bounded
    <2>3. HandTyped'
        BY <1>1, <1>2 DEF HandTyped, Holding
    <2>. QED BY <2>1, <2>2, <2>3
<1>7. NoBack
    BY <1>1, <1>2 DEF NoBack, Unqueued, Unanswered, Queueing, Owned
<1>8. Shrink
    BY <1>1, <1>2, <1>3, <1>4, <1>5, SameSets DEF Shrink, StackOwned
<1>9. Owned' /\ StackOwned' /\ FifoKept'
    BY <1>7, <1>8, ShrinkKeeps
<1>10. Loaded'
    BY <1>1, <1>2, <1>3, <1>4, <1>5, SameSets, Members DEF Loaded
<1>11. Alone' \subseteq Alone
    BY <1>1, <1>2, <1>8, SameSets, AloneShrinks DEF Alone
<1>12. RowsOwn'
    BY <1>1, <1>2, <1>3, <1>4, <1>5, <1>7, <1>11, OwnText DEF RowsOwn, NoBack, Alone, Unqueued
<1>13. CancelOwned'
    BY <1>1, <1>2, <1>8, <1>3, <1>4, <1>5, SameSets DEF CancelOwned, Shrink
<1>14. AcceptedKept'
    <2>1. \A q \in Prompts : run'[q] \in Unanswered => reply'[q] = "none"
        BY <1>1, <1>7 DEF AcceptedKept, NoBack, Unanswered, Unqueued, Queueing
    <2>2. ASSUME NEW q \in Prompts, q \in Alone', reply'[q] = "ok" PROVE row'[q] # <<>> \/ q \in drop'
        BY <2>2, OwnText, <1>1, <1>3, <1>4, <1>11 DEF AcceptedKept
    <2>3. stop' \in {"none", "idle", "drain"} => drop' = {}
        BY <1>1, <1>3 DEF AcceptedKept
    <2>4. protect' \subseteq OnStack'
        BY <1>1, <1>3, SameSets DEF AcceptedKept
    <2>5. Alone' \subseteq Prompts
        BY DEF Alone
    <2>. QED BY <2>1, <2>2, <2>3, <2>4, <2>5 DEF AcceptedKept
<1>. QED BY <1>6, <1>9, <1>10, <1>12, <1>13, <1>14

LEMMA DiscardRetainKeeps ==
    ASSUME IInv, DiscardRetain
    PROVE  IInv'
<1>. USE DEF IInv, Typed
<1>1. /\ UNCHANGED <<waiting, row, seq, reply, hand, fetched, text, saved, cancel, drop, queued, overtaken>>
      /\ UNCHANGED <<status, cancelled, expected, run>>
    BY DEF DiscardRetain, loop, stopping, store
<1>2. faults \in Nat /\ faults' \in 0..MaxFaults /\ faults <= faults'
    <2>1. UNCHANGED faults \/ Fault
        BY DEF DiscardRetain
    <2>. QED BY <2>1, FaultBound
<1>3. stop = "retain" /\ stop' = "end" /\ protect' = {}
    BY DEF DiscardRetain
<1>4. /\ stack' \in Seq([id : Prompts, text : Seq(Prompts)]) /\ ToSet(stack') \subseteq ToSet(stack)
      /\ OnStack' \subseteq OnStack
    <2>. DEFINE E == [id : Prompts, text : Seq(Prompts)]
    <2>1. stack \in Seq(E)
        BY DEF TypeOK
    <2>. HIDE DEF E
    <2>2. stack' \in Seq(E) /\ ToSet(stack') \subseteq ToSet(stack)
        BY <2>1, KeptProperties DEF DiscardRetain
    <2>3. OnStack = UNION {ToSet(m.text) : m \in ToSet(stack)}
        BY StackSets
    <2>4. OnStack' = UNION {ToSet(m.text) : m \in ToSet(stack')}
        BY DEF OnStack, ToSet
    <2>. QED BY <2>2, <2>3, <2>4 DEF E
<1>5. Typed'
    <2>1. TypeOK'
        BY <1>1, <1>2, <1>3, <1>4, Members DEF TypeOK
    <2>2. Bounded'
        BY <1>1, <1>2 DEF Bounded
    <2>3. HandTyped'
        BY <1>1, <1>2 DEF HandTyped, Holding
    <2>. QED BY <2>1, <2>2, <2>3
<1>6. NoBack
    BY <1>1, <1>2 DEF NoBack, Unqueued, Unanswered, Queueing, Owned
<1>7. Shrink
    BY <1>1, <1>2, <1>3, <1>4, SameSets DEF Shrink, StackOwned
<1>8. Owned' /\ StackOwned' /\ FifoKept'
    BY <1>6, <1>7, ShrinkKeeps
<1>9. Loaded'
    BY <1>1, <1>2, <1>3, <1>4, SameSets, Members DEF Loaded
<1>10. Alone' \subseteq Alone
    BY <1>1, <1>2, <1>7, SameSets, AloneShrinks DEF Alone
<1>11. RowsOwn'
    BY <1>1, <1>2, <1>3, <1>4, <1>6, <1>10, OwnText DEF RowsOwn, NoBack, Alone, Unqueued
<1>12. CancelOwned'
    BY <1>1, <1>2, <1>7, <1>3, <1>4, SameSets DEF CancelOwned, Shrink
<1>13. AcceptedKept'
    <2>1. \A q \in Prompts : run'[q] \in Unanswered => reply'[q] = "none"
        BY <1>1, <1>6 DEF AcceptedKept, NoBack, Unanswered, Unqueued, Queueing
    <2>2. ASSUME NEW q \in Prompts, q \in Alone', reply'[q] = "ok" PROVE row'[q] # <<>> \/ q \in drop'
        BY <2>2, OwnText, <1>1, <1>3, <1>10 DEF AcceptedKept
    <2>3. stop' \in {"none", "idle", "drain"} => drop' = {}
        BY <1>1, <1>3 DEF AcceptedKept
    <2>4. protect' \subseteq OnStack'
        BY <1>1, <1>3, SameSets DEF AcceptedKept
    <2>5. Alone' \subseteq Prompts
        BY DEF Alone
    <2>. QED BY <2>1, <2>2, <2>3, <2>4, <2>5 DEF AcceptedKept
<1>. QED BY <1>5, <1>8, <1>9, <1>11, <1>12, <1>13
-----------------------------------------------------------------------------
(* Steps that queue, claim, give back and push prompts.                      *)

\* A set that grows keeps what was ordered in order.
LEMMA OrderedInLarger ==
    ASSUME NEW s, NEW R, NEW Q, R \subseteq Q, Ordered(s, R)
    PROVE  Ordered(s, Q)
BY DEF Ordered

\* Queueing a prompt puts it behind all that were queued.
LEMMA QueuedLast ==
    ASSUME NEW p \in Prompts, queued \in Seq(Prompts), queued' = Append(queued, p)
    PROVE  Earlier \subseteq Earlier' /\ \A q \in Queued : <<q, p>> \in Earlier'
<1>1. /\ Len(queued) \in Nat /\ Len(queued') = Len(queued) + 1 /\ DOMAIN queued = 1..Len(queued)
      /\ DOMAIN queued' = 1..Len(queued') /\ queued'[Len(queued) + 1] = p
      /\ \A i \in 1..Len(queued) : queued'[i] = queued[i] /\ queued[i] \in Prompts
    BY AppendProperties, LenProperties, ElementOfSeq
<1>2. ASSUME NEW x \in Prompts, NEW y \in Prompts, Before(x, y) PROVE Before(x, y)'
    BY <1>1, <1>2 DEF Before
<1>3. ASSUME NEW q \in Queued PROVE q \in Prompts /\ Before(q, p)'
    <2>1. PICK i \in 1..Len(queued) : queued[i] = q
        BY DEF Queued, ToSet
    <2>2. i < Len(queued) + 1 /\ i \in DOMAIN queued' /\ Len(queued) + 1 \in DOMAIN queued' /\ queued'[i] = q
        BY <1>1, <2>1
    <2>. QED BY <1>1, <2>1, <2>2 DEF Before
<1>. QED BY <1>2, <1>3 DEF Earlier

LEMMA EnqueueKeeps ==
    ASSUME IInv, NEW p \in Prompts, Enqueue(p)
    PROVE  IInv'
<1>. USE DEF IInv, Typed
<1>1. /\ run[p] = "enqueue" /\ run'[p] = "insertRow"
      /\ run' \in [Prompts -> RunPcs] /\ \A q \in Prompts : q # p => run'[q] = run[q]
    BY GotoFacts DEF Enqueue, RunPcs
<1>2. /\ UNCHANGED <<row, seq, stack, reply, hand, fetched, text, saved, cancel, stop, drop, protect, overtaken>>
      /\ UNCHANGED <<status, cancelled, expected>>
    BY DEF Enqueue, loop, stopping, store
<1>3. faults \in Nat /\ faults' \in 0..MaxFaults /\ faults <= faults'
    <2>1. UNCHANGED faults \/ Fault
        BY DEF Enqueue
    <2>. QED BY <2>1, FaultBound
<1>4. p \notin Queued /\ p \notin Waits /\ p \notin OnStack /\ cancel[p] = "none" /\ \A r \in Prompts : p \notin Held(r)
    BY <1>1 DEF Owned, StackOwned, CancelOwned, Queueing, Unqueued
<1>5. /\ waiting' \in Seq(Prompts) /\ Waits' = Waits \cup {p} /\ Ordered(waiting', Differ(Prompts))
      /\ queued' \in Seq(Prompts) /\ Queued' = Queued \cup {p} /\ Ordered(queued', Differ(Prompts))
      /\ Earlier \subseteq Earlier' /\ (\A q \in Queued : <<q, p>> \in Earlier')
      /\ (InOrder => Ordered(waiting', Earlier'))
    <2>1. waiting \in Seq(Prompts) /\ queued \in Seq(Prompts) /\ waiting' = Append(waiting, p) /\ queued' = Append(queued, p)
        BY DEF TypeOK, Enqueue
    <2>2. waiting' \in Seq(Prompts) /\ Waits' = Waits \cup {p} /\ queued' \in Seq(Prompts) /\ Queued' = Queued \cup {p}
        BY <2>1, AppendSet DEF Waits, Queued
    <2>3. Earlier \subseteq Earlier' /\ \A q \in Queued : <<q, p>> \in Earlier'
        BY <2>1, QueuedLast
    <2>4. (\A q \in Waits : <<q, p>> \in Differ(Prompts)) /\ \A q \in Queued : <<q, p>> \in Differ(Prompts)
        BY <1>4, Members DEF Differ
    <2>5. Ordered(waiting', Differ(Prompts)) /\ Ordered(queued', Differ(Prompts))
        BY <2>1, <2>4, AppendOrdered DEF Owned, Waits, Queued
    <2>6. ASSUME InOrder PROVE Ordered(waiting', Earlier')
        <3>1. Ordered(waiting, Earlier')
            BY <2>3, <2>6, OrderedInLarger DEF InOrder
        <3>2. \A q \in Waits : <<q, p>> \in Earlier'
            BY <2>3 DEF Owned
        <3>. QED BY <2>1, <3>1, <3>2, AppendOrdered DEF Waits
    <2>. QED BY <2>2, <2>3, <2>5, <2>6
<1>6. Typed'
    <2>1. TypeOK'
        BY <1>1, <1>2, <1>3, <1>4, <1>5, Members DEF TypeOK
    <2>2. Bounded'
        BY <1>2, <1>3 DEF Bounded
    <2>3. HandTyped'
        BY <1>1, <1>2, <1>3 DEF HandTyped, Holding
    <2>. QED BY <2>1, <2>2, <2>3
<1>7. NoBack
    BY <1>1, <1>2, <1>3 DEF NoBack, Unqueued, Unanswered, Queueing, Owned
<1>8. /\ Queued \subseteq Prompts /\ OnStack \subseteq Prompts /\ Waits \subseteq Prompts
      /\ \A r \in Prompts : Held(r) \subseteq Prompts
      /\ OnStack' = OnStack
      /\ \A r \in Prompts : Held(r)' = Held(r)
    BY <1>2, Members, SameSets
<1>9. Owned'
    BY <1>1, <1>2, <1>4, <1>5, <1>8 DEF Owned, Queueing
<1>10. StackOwned'
    BY <1>1, <1>2, <1>4, <1>5, <1>8 DEF StackOwned, Unqueued
<1>11. FifoKept'
    <2>1. ASSUME InOrder PROVE InOrder'
        <3>1. \A r \in Prompts : Held(r) \subseteq Queued /\ Held(r)' = Held(r) /\ hand'[r] = hand[r]
            BY <1>2, SameSets DEF Owned
        <3>2. \A r \in Prompts : Ordered(hand'[r], Earlier')
            BY <2>1, <3>1, <1>5, OrderedInLarger DEF InOrder
        <3>3. \A r \in Prompts : \A x \in Held(r), y \in Waits : <<x, y>> \in Earlier'
            BY <2>1, <1>5 DEF InOrder
        <3>4. \A r \in Prompts : \A x \in Held(r) : <<x, p>> \in Earlier'
            BY <3>1, <1>5
        <3>5. \A r, s \in Prompts : run'[r] = "split" /\ s # r => \A x \in Held(s), y \in Held(r) : <<x, y>> \in Earlier'
            BY <2>1, <1>1, <1>5 DEF InOrder
        <3>. QED BY <2>1, <3>1, <3>2, <3>3, <3>4, <3>5, <1>5 DEF InOrder
    <2>. QED BY <2>1, <1>1, <1>2, <1>3 DEF FifoKept
<1>12. Loaded'
    BY <1>1, <1>2, <1>3, <1>4, <1>5, SameSets, Members DEF Loaded
<1>13. Alone' \subseteq Alone \cup {p}
    BY <1>1, <1>2, <1>5, <1>8 DEF Alone
<1>14. RowsOwn'
    BY <1>1, <1>2, <1>7, <1>13, OwnText DEF RowsOwn, NoBack, Unqueued
<1>15. CancelOwned'
    BY <1>2, <1>4, <1>5, <1>8 DEF CancelOwned, Gone
<1>16. AcceptedKept'
    <2>1. \A q \in Prompts : run'[q] \in Unanswered => reply'[q] = "none"
        BY <1>1, <1>2, <1>7 DEF AcceptedKept, NoBack, Unanswered, Unqueued, Queueing
    <2>2. ASSUME NEW q \in Prompts, q \in Alone', reply'[q] = "ok" PROVE row'[q] # <<>> \/ q \in drop'
        BY <2>2, <1>1, <1>2, <1>13 DEF AcceptedKept, Unanswered, Unqueued
    <2>3. stop' \in {"none", "idle", "drain"} => drop' = {}
        BY <1>2 DEF AcceptedKept
    <2>4. protect' \subseteq OnStack'
        BY <1>2, SameSets DEF AcceptedKept
    <2>5. Alone' \subseteq Prompts
        BY DEF Alone
    <2>. QED BY <2>1, <2>2, <2>3, <2>4, <2>5 DEF AcceptedKept
<1>. QED BY <1>6, <1>9, <1>10, <1>11, <1>12, <1>14, <1>15, <1>16

LEMMA AppendPromptKeeps ==
    ASSUME IInv, NEW p \in Prompts, AppendPrompt(p)
    PROVE  IInv'
<1>. USE DEF IInv, Typed
<1>1. /\ run[p] = "append" /\ run'[p] = "persist"
      /\ run' \in [Prompts -> RunPcs] /\ \A q \in Prompts : q # p => run'[q] = run[q]
    BY GotoFacts DEF AppendPrompt, RunPcs
<1>2. /\ UNCHANGED <<waiting, row, seq, reply, hand, fetched, text, saved, cancel, stop, drop, protect, queued, overtaken>>
      /\ UNCHANGED <<status, cancelled, expected>>
    BY DEF AppendPrompt, loop, stopping, store
<1>3. faults \in Nat /\ faults' \in 0..MaxFaults /\ faults <= faults'
    <2>1. UNCHANGED faults \/ Fault
        BY DEF AppendPrompt
    <2>. QED BY <2>1, FaultBound
<1>4. p \notin Queued /\ p \notin Waits /\ cancel[p] = "none" /\ \A r \in Prompts : p \notin Held(r)
    BY <1>1 DEF Owned, StackOwned, CancelOwned, Queueing
<1>5. /\ stack' \in Seq([id : Prompts, text : Seq(Prompts)]) /\ OnStack' = OnStack \cup {p}
      /\ \A m \in ToSet(stack') : m \in ToSet(stack) \/ (m.id = p /\ ToSet(m.text) = {p})
    <2>. DEFINE E == [id : Prompts, text : Seq(Prompts)]
                new == [id |-> p, text |-> <<p>>]
    <2>1. stack \in Seq(E) /\ new \in E /\ stack' = Append(stack, new) /\ ToSet(new.text) = {p} /\ new.id = p
        BY OwnText DEF TypeOK, AppendPrompt
    <2>. HIDE DEF E, new
    <2>2. stack' \in Seq(E) /\ ToSet(stack') = ToSet(stack) \cup {new}
        BY <2>1, AppendSet
    <2>3. OnStack = UNION {ToSet(m.text) : m \in ToSet(stack)}
        BY StackSets
    <2>4. OnStack' = UNION {ToSet(m.text) : m \in ToSet(stack')}
        BY DEF OnStack, ToSet
    <2>5. OnStack' = OnStack \cup {p}
        BY <2>1, <2>2, <2>3, <2>4
    <2>. QED BY <2>1, <2>2, <2>5 DEF E
<1>6. Typed'
    <2>1. TypeOK'
        BY <1>1, <1>2, <1>3, <1>4, <1>5, Members DEF TypeOK
    <2>2. Bounded'
        BY <1>2, <1>3 DEF Bounded
    <2>3. HandTyped'
        BY <1>1, <1>2, <1>3 DEF HandTyped, Holding
    <2>. QED BY <2>1, <2>2, <2>3
<1>7. NoBack
    BY <1>1, <1>2, <1>3 DEF NoBack, Unqueued, Unanswered, Queueing, Owned
<1>8. /\ Queued \subseteq Prompts /\ OnStack \subseteq Prompts /\ Waits \subseteq Prompts
      /\ \A r \in Prompts : Held(r) \subseteq Prompts
      /\ Queued' = Queued /\ Earlier' = Earlier
      /\ Waits' = Waits
      /\ \A r \in Prompts : Held(r)' = Held(r)
    BY <1>2, Members, SameSets
<1>9. Owned'
    BY <1>1, <1>2, <1>4, <1>8 DEF Owned, Queueing
<1>10. StackOwned'
    BY <1>1, <1>2, <1>4, <1>5, <1>8 DEF StackOwned, Unqueued
<1>11. FifoKept'
    <2>1. ASSUME InOrder PROVE InOrder'
        BY <2>1, <1>1, <1>2, <1>8 DEF InOrder
    <2>. QED BY <2>1, <1>1, <1>2, <1>3 DEF FifoKept
<1>12. Loaded'
    BY <1>1, <1>2, <1>3, <1>4, <1>5, SameSets, Members DEF Loaded
<1>13. Alone' \subseteq Alone
    BY <1>1, <1>2, <1>8 DEF Alone
<1>14. RowsOwn'
    BY <1>1, <1>2, <1>7, <1>13 DEF RowsOwn, NoBack
<1>15. CancelOwned'
    BY <1>2, <1>4, <1>5, <1>8 DEF CancelOwned, Gone
<1>16. AcceptedKept'
    <2>1. \A q \in Prompts : run'[q] \in Unanswered => reply'[q] = "none"
        BY <1>1, <1>2, <1>7 DEF AcceptedKept, NoBack, Unanswered, Unqueued, Queueing
    <2>2. ASSUME NEW q \in Prompts, q \in Alone', reply'[q] = "ok" PROVE row'[q] # <<>> \/ q \in drop'
        BY <2>2, OwnText, <1>1, <1>2, <1>13 DEF AcceptedKept
    <2>3. stop' \in {"none", "idle", "drain"} => drop' = {}
        BY <1>2 DEF AcceptedKept
    <2>4. protect' \subseteq OnStack'
        BY <1>2, <1>5, SameSets DEF AcceptedKept
    <2>5. Alone' \subseteq Prompts
        BY DEF Alone
    <2>. QED BY <2>1, <2>2, <2>3, <2>4, <2>5 DEF AcceptedKept
<1>. QED BY <1>6, <1>9, <1>10, <1>11, <1>12, <1>14, <1>15, <1>16

LEMMA ClaimKeeps ==
    ASSUME IInv, NEW p \in Prompts, Claim(p)
    PROVE  IInv'
<1>. USE DEF IInv, Typed
<1>1. /\ run[p] = "claim" /\ run'[p] \in {"emit", "split", "takeIndex", "load"}
      /\ run' \in [Prompts -> RunPcs] /\ \A q \in Prompts : q # p => run'[q] = run[q]
    BY GotoFacts DEF Claim, RunPcs, ClaimStep
<1>2. /\ UNCHANGED <<row, seq, stack, reply, fetched, text, saved, cancel, stop, drop, protect, queued>>
      /\ UNCHANGED <<status, cancelled, expected>>
    BY DEF Claim, loop, stopping, store
<1>3. faults \in Nat /\ faults' \in 0..MaxFaults /\ faults <= faults'
    <2>1. UNCHANGED faults \/ Fault
        BY DEF Claim
    <2>. QED BY <2>1, FaultBound
<1>4. hand[p] = <<>> /\ Held(p) = {}
    <2>1. hand[p] = <<>>
        BY <1>1 DEF HandTyped, Holding
    <2>2. ToSet(<<>>) = {}
        BY DEF ToSet
    <2>. QED BY <2>1, <2>2 DEF Held
<1>5. waiting' = <<>> /\ waiting' \in Seq(Prompts) /\ Waits' = {} /\ \A R : Ordered(waiting', R)
    BY EmptySeq, SmallSets DEF Claim, Waits, TypeOK
<1>6. /\ hand' \in [Prompts -> Seq(Prompts)] /\ hand'[p] = waiting /\ Held(p)' = Waits
      /\ \A q \in Prompts : q # p => hand'[q] = hand[q] /\ Held(q)' = Held(q)
    BY DEF Claim, TypeOK, Held, Waits
<1>7. /\ waiting = <<>> <=> run'[p] = "emit"
      /\ run'[p] = "takeIndex" => Len(waiting) = 1
      /\ run'[p] = "split" => Len(waiting) > ClaimBatch
    BY <1>1, GotoFacts DEF Claim, ClaimStep, RunPcs
<1>8. overtaken' \in BOOLEAN /\ (~overtaken' => ~overtaken /\ (Waits = {} \/ \A q \in Prompts : run[q] # "split"))
    <2>1. waiting \in Seq(Prompts) /\ overtaken \in BOOLEAN
        BY DEF TypeOK
    <2>2. waiting # <<>> => Waits # {}
        BY <2>1, SmallSets DEF Waits
    <2>3. waiting = <<>> => Waits = {}
        BY <2>1, SmallSets DEF Waits
    <2>. QED BY <2>1, <2>2, <2>3, Zenon DEF Claim
<1>9. Typed'
    <2>1. TypeOK'
        BY <1>1, <1>2, <1>3, <1>4, <1>5, <1>6, <1>7, <1>8, Members DEF TypeOK
    <2>2. Bounded'
        BY <1>2, <1>3 DEF Bounded
    <2>3. HandTyped'
        BY <1>1, <1>2, <1>6, <1>7 DEF HandTyped, Holding
    <2>. QED BY <2>1, <2>2, <2>3
<1>10. NoBack
    BY <1>1, <1>2, <1>3 DEF NoBack, Unqueued, Unanswered, Queueing, Owned
<1>11. /\ Queued \subseteq Prompts /\ OnStack \subseteq Prompts /\ Waits \subseteq Prompts
       /\ \A r \in Prompts : Held(r) \subseteq Prompts
       /\ Queued' = Queued /\ Earlier' = Earlier
       /\ OnStack' = OnStack
    BY <1>2, Members, SameSets
<1>12. Owned'
    <2>1. \A r \in Prompts : Ordered(hand'[r], Differ(Prompts))
        BY <1>6 DEF Owned
    <2>2. \A r, s \in Prompts : r # s => Held(r)' \cap Held(s)' = {}
        <3>1. /\ \A r, s \in Prompts : r # s => Held(r) \cap Held(s) = {}
              /\ \A r \in Prompts : Held(r) \cap Waits = {}
            BY DEF Owned
        <3>2. ASSUME NEW r \in Prompts, NEW s \in Prompts, r # s PROVE Held(r)' \cap Held(s)' = {}
            <4>1. CASE r = p
                BY <3>1, <3>2, <4>1, <1>6
            <4>2. CASE s = p
                BY <3>1, <3>2, <4>2, <1>6
            <4>. QED BY <3>1, <3>2, <4>1, <4>2, <1>6
        <3>. QED BY <3>2
    <2>3. \A r \in Prompts : Held(r)' \subseteq Queued
        BY <1>6 DEF Owned
    <2>. QED BY <2>1, <2>2, <2>3, <1>1, <1>2, <1>5, <1>11 DEF Owned, Queueing
<1>13. StackOwned'
    <2>1. \A r \in Prompts : Held(r)' \subseteq Held(r) \cup Waits
        BY <1>6
    <2>. QED BY <2>1, <1>1, <1>2, <1>5, <1>11 DEF StackOwned, Unqueued
<1>14. FifoKept'
    <2>1. ASSUME InOrder, ~overtaken' PROVE InOrder'
        <3>1. Earlier' = Earlier
            BY <1>2, <1>11
        <3>2. \A r \in Prompts : Ordered(hand'[r], Earlier)
            BY <2>1, <1>6 DEF InOrder
        <3>3. ASSUME NEW r \in Prompts, NEW s \in Prompts, run'[r] = "split", s # r, NEW x \in Held(s)', NEW y \in Held(r)'
              PROVE  <<x, y>> \in Earlier
            <4>1. CASE r = p
                BY <4>1, <3>3, <2>1, <1>6 DEF InOrder
            <4>2. CASE r # p /\ s = p
                BY <4>2, <3>3, <2>1, <1>1, <1>6, <1>8
            <4>3. CASE r # p /\ s # p
                BY <4>3, <3>3, <2>1, <1>1, <1>6 DEF InOrder
            <4>. QED BY <4>1, <4>2, <4>3
        <3>. QED BY <3>1, <3>2, <3>3, <1>5 DEF InOrder
    <2>. QED BY <2>1, <1>1, <1>2, <1>3, <1>8 DEF FifoKept
<1>15. Loaded'
    BY <1>1, <1>2, <1>6, SameSets, Members DEF Loaded
<1>16. Alone' \subseteq Alone
    BY <1>1, <1>2, <1>5, <1>6 DEF Alone
<1>17. RowsOwn'
    BY <1>1, <1>2, <1>10, <1>16 DEF RowsOwn, NoBack
<1>18. CancelOwned'
    BY <1>2, <1>5, <1>6, <1>11 DEF CancelOwned, Gone
<1>19. AcceptedKept'
    <2>1. \A q \in Prompts : run'[q] \in Unanswered => reply'[q] = "none"
        BY <1>1, <1>2, <1>10 DEF AcceptedKept, NoBack, Unanswered, Unqueued, Queueing
    <2>2. ASSUME NEW q \in Prompts, q \in Alone', reply'[q] = "ok" PROVE row'[q] # <<>> \/ q \in drop'
        BY <2>2, OwnText, <1>1, <1>2, <1>6, <1>16 DEF AcceptedKept
    <2>3. stop' \in {"none", "idle", "drain"} => drop' = {}
        BY <1>2 DEF AcceptedKept
    <2>4. protect' \subseteq OnStack'
        BY <1>2, SameSets DEF AcceptedKept
    <2>5. Alone' \subseteq Prompts
        BY DEF Alone
    <2>. QED BY <2>1, <2>2, <2>3, <2>4, <2>5 DEF AcceptedKept
<1>. QED BY <1>9, <1>12, <1>13, <1>14, <1>15, <1>17, <1>18, <1>19

LEMMA SplitKeeps ==
    ASSUME IInv, NEW p \in Prompts, Split(p)
    PROVE  IInv'
<1>. USE DEF IInv, Typed
<1>1. /\ run[p] = "split" /\ run'[p] \in {"takeIndex", "load"}
      /\ run' \in [Prompts -> RunPcs] /\ \A q \in Prompts : q # p => run'[q] = run[q]
    BY GotoFacts DEF Split, RunPcs, ClaimStep
<1>2. /\ UNCHANGED <<row, seq, stack, reply, fetched, text, saved, cancel, stop, drop, protect, queued, overtaken>>
      /\ UNCHANGED <<status, cancelled, expected>>
    BY DEF Split, loop, stopping, store
<1>3. faults \in Nat /\ faults' \in 0..MaxFaults /\ faults <= faults'
    <2>1. UNCHANGED faults \/ Fault
        BY DEF Split
    <2>. QED BY <2>1, FaultBound
<1>4. PICK a \in Seq(Prompts), b \in Seq(Prompts) :
        /\ waiting' = RestoredFront(b) /\ hand' = [hand EXCEPT ![p] = a] /\ Goto(p, ClaimStep(a))
        /\ a # <<>> /\ Held(p) = ToSet(a) \cup ToSet(b) /\ ToSet(a) \cap ToSet(b) = {}
        /\ \A R : Ordered(hand[p], R) => /\ Ordered(a, R) /\ Ordered(b, R)
                                         /\ \A x \in ToSet(a), y \in ToSet(b) : <<x, y>> \in R
    <2>. DEFINE a == SubSeq(hand[p], 1, ClaimBatch)
                b == SubSeq(hand[p], ClaimBatch + 1, Len(hand[p]))
    <2>1. hand[p] \in Seq(Prompts) /\ Len(hand[p]) > ClaimBatch /\ ClaimBatch \in Nat \ {0} /\ Len(hand[p]) \in Nat
        BY <1>1, QueueAssumption, LenProperties DEF TypeOK, HandTyped
    <2>2. ClaimBatch \in 0..Len(hand[p])
        BY <2>1
    <2>3. \A R : Ordered(hand[p], R) =>
             /\ a \in Seq(Prompts) /\ b \in Seq(Prompts) /\ Len(a) = ClaimBatch
             /\ ToSet(hand[p]) = ToSet(a) \cup ToSet(b) /\ Ordered(a, R) /\ Ordered(b, R)
             /\ \A x \in ToSet(a), y \in ToSet(b) : <<x, y>> \in R
        BY <2>1, <2>2, Halves
    <2>4. Split(p) => waiting' = RestoredFront(b) /\ hand' = [hand EXCEPT ![p] = a] /\ Goto(p, ClaimStep(a))
        BY DEF Split
    <2>. HIDE DEF a, b
    <2>5. Ordered(hand[p], Differ(Prompts))
        BY DEF Owned
    <2>6. a \in Seq(Prompts) /\ b \in Seq(Prompts) /\ Len(a) = ClaimBatch /\ Held(p) = ToSet(a) \cup ToSet(b)
        BY <2>3, <2>5 DEF Held
    <2>7. a # <<>>
        BY <2>1, <2>6, EmptySeq
    <2>8. ToSet(a) \cap ToSet(b) = {}
        <3>1. \A x \in ToSet(a), y \in ToSet(b) : <<x, y>> \in Differ(Prompts)
            BY <2>3, <2>5
        <3>. QED BY <3>1 DEF Differ
    <2>. QED BY <2>3, <2>4, <2>6, <2>7, <2>8
<1>5. /\ hand' \in [Prompts -> Seq(Prompts)] /\ hand'[p] = a /\ Held(p)' = ToSet(a)
      /\ \A q \in Prompts : q # p => hand'[q] = hand[q] /\ Held(q)' = Held(q)
    BY <1>4 DEF TypeOK, Held
<1>6. /\ waiting' \in Seq(Prompts) /\ Waits' = ToSet(b) \cup Waits /\ Ordered(waiting', Differ(Prompts))
      /\ (InOrder => Ordered(waiting', Earlier))
    <2>1. waiting \in Seq(Prompts) /\ b \in Seq(Prompts) /\ waiting' = RestoredFront(b)
        BY <1>4 DEF TypeOK
    <2>2. ToSet(RestoredFront(b)) = ToSet(b) \cup Waits /\ RestoredFront(b) \in Seq(Prompts)
        BY <2>1, RestoredFrontSet
    <2>3. Ordered(waiting', Differ(Prompts))
        BY <2>1, <1>4, RestoredFrontSet DEF Owned
    <2>4. ASSUME InOrder PROVE Ordered(waiting', Earlier)
        <3>1. Ordered(b, Earlier) /\ Ordered(waiting, Earlier) /\ ToSet(b) \X Waits \subseteq Earlier
            BY <2>4, <1>4 DEF InOrder
        <3>. QED BY <2>1, <3>1, RestoredFrontSet
    <2>. QED BY <2>1, <2>2, <2>3, <2>4 DEF Waits
<1>7. run'[p] = "takeIndex" => Len(a) = 1
    <2>1. ClaimStep(a) \in RunPcs
        BY DEF ClaimStep, RunPcs
    <2>. QED BY <2>1, <1>4, GotoFacts DEF ClaimStep
<1>8. Typed'
    <2>1. TypeOK'
        BY <1>1, <1>2, <1>3, <1>4, <1>5, <1>6, <1>7, Members DEF TypeOK
    <2>2. Bounded'
        BY <1>2, <1>3 DEF Bounded
    <2>3. HandTyped'
        BY <1>1, <1>2, <1>5, <1>4, <1>7 DEF HandTyped, Holding
    <2>. QED BY <2>1, <2>2, <2>3
<1>9. NoBack
    BY <1>1, <1>2, <1>3 DEF NoBack, Unqueued, Unanswered, Queueing, Owned
<1>10. /\ Queued \subseteq Prompts /\ OnStack \subseteq Prompts /\ Waits \subseteq Prompts
       /\ \A r \in Prompts : Held(r) \subseteq Prompts
       /\ Queued' = Queued /\ Earlier' = Earlier
       /\ OnStack' = OnStack
    BY <1>2, Members, SameSets
<1>11. Owned'
    <2>0. ToSet(a) \subseteq Held(p) /\ ToSet(b) \subseteq Held(p) /\ ToSet(a) \cap ToSet(b) = {}
        BY <1>4
    <2>1. \A r \in Prompts : Ordered(hand'[r], Differ(Prompts))
        <3>1. Ordered(a, Differ(Prompts))
            BY <1>4 DEF Owned
        <3>. QED BY <3>1, <1>5 DEF Owned
    <2>5. /\ \A r, s \in Prompts : r # s => Held(r) \cap Held(s) = {}
          /\ \A r \in Prompts : Held(r) \cap Waits = {} /\ Held(r) \subseteq Queued
        BY DEF Owned
    <2>6. \A r \in Prompts : Held(r)' \subseteq Held(r)
        BY <2>0, <1>5
    <2>2. \A r, s \in Prompts : r # s => Held(r)' \cap Held(s)' = {}
        BY <2>5, <2>6
    <2>3. \A r \in Prompts : Held(r)' \subseteq Queued /\ Held(r)' \cap Waits' = {}
        <3>1. Held(p)' \cap Waits' = {}
            BY <2>0, <2>5, <1>5, <1>6
        <3>2. ASSUME NEW r \in Prompts, r # p PROVE Held(r)' \cap Waits' = {}
            <4>1. Held(r)' = Held(r) /\ Held(r) \cap Held(p) = {}
                BY <2>5, <3>2, <1>5
            <4>. QED BY <2>0, <2>5, <4>1, <1>6
        <3>. QED BY <2>5, <2>6, <3>1, <3>2
    <2>4. Waits' \subseteq Queued
        BY <2>0, <1>6 DEF Owned
    <2>. QED BY <2>1, <2>2, <2>3, <2>4, <1>1, <1>2, <1>6, <1>10 DEF Owned, Queueing
<1>12. StackOwned'
    BY <1>1, <1>2, <1>4, <1>6, <1>5, <1>10 DEF StackOwned, Unqueued
<1>13. FifoKept'
    <2>1. ASSUME InOrder PROVE InOrder'
        <3>1. Earlier' = Earlier
            BY <1>2, <1>10
        <3>2. Ordered(hand[p], Earlier)
            BY <2>1 DEF InOrder
        <3>3. Ordered(a, Earlier) /\ \A x \in ToSet(a), y \in ToSet(b) : <<x, y>> \in Earlier
            BY <3>2, <1>4
        <3>4. \A r \in Prompts : Ordered(hand'[r], Earlier)
            BY <2>1, <3>3, <1>5 DEF InOrder
        <3>5. \A x \in Held(p)', y \in Waits' : <<x, y>> \in Earlier
            <4>1. \A x \in Held(p), y \in Waits : <<x, y>> \in Earlier
                BY <2>1 DEF InOrder
            <4>2. Held(p)' = ToSet(a) /\ ToSet(a) \subseteq Held(p) /\ Waits' = ToSet(b) \cup Waits
                BY <1>4, <1>5, <1>6
            <4>. QED BY <3>3, <4>1, <4>2
        <3>6. \A r \in Prompts : r # p => \A x \in Held(r)', y \in Waits' : <<x, y>> \in Earlier
            BY <2>1, <1>1, <1>4, <1>5, <1>6 DEF InOrder
        <3>7. ASSUME NEW r \in Prompts, NEW s \in Prompts, run'[r] = "split", s # r, NEW x \in Held(s)', NEW y \in Held(r)'
              PROVE  <<x, y>> \in Earlier
            <4>1. r # p /\ run[r] = "split" /\ Held(r)' = Held(r) /\ Held(s)' \subseteq Held(s)
                BY <3>7, <1>1, <1>4, <1>5
            <4>. QED BY <4>1, <3>7, <2>1 DEF InOrder
        <3>. QED BY <2>1, <3>1, <3>4, <3>5, <3>6, <3>7, <1>6 DEF InOrder
    <2>. QED BY <2>1, <1>1, <1>2, <1>3 DEF FifoKept
<1>14. Loaded'
    BY <1>1, <1>2, <1>5, SameSets, Members DEF Loaded
<1>15. Alone' \subseteq Alone
    BY <1>1, <1>2, <1>4, <1>6, <1>5 DEF Alone
<1>16. RowsOwn'
    BY <1>1, <1>2, <1>9, <1>15 DEF RowsOwn, NoBack
<1>17. CancelOwned'
    BY <1>2, <1>4, <1>6, <1>5, <1>10 DEF CancelOwned, Gone
<1>18. AcceptedKept'
    <2>1. \A q \in Prompts : run'[q] \in Unanswered => reply'[q] = "none"
        BY <1>1, <1>2, <1>9 DEF AcceptedKept, NoBack, Unanswered, Unqueued, Queueing
    <2>2. ASSUME NEW q \in Prompts, q \in Alone', reply'[q] = "ok" PROVE row'[q] # <<>> \/ q \in drop'
        BY <2>2, OwnText, <1>1, <1>2, <1>5, <1>15 DEF AcceptedKept
    <2>3. stop' \in {"none", "idle", "drain"} => drop' = {}
        BY <1>2 DEF AcceptedKept
    <2>4. protect' \subseteq OnStack'
        BY <1>2, SameSets DEF AcceptedKept
    <2>5. Alone' \subseteq Prompts
        BY DEF Alone
    <2>. QED BY <2>1, <2>2, <2>3, <2>4, <2>5 DEF AcceptedKept
<1>. QED BY <1>8, <1>11, <1>12, <1>13, <1>14, <1>16, <1>17, <1>18

LEMMA GiveBackKeeps ==
    ASSUME IInv, NEW p \in Prompts, GiveBack(p)
    PROVE  IInv'
<1>. USE DEF IInv, Typed
<1>1. /\ run[p] = "giveBack" /\ run'[p] = "error"
      /\ run' \in [Prompts -> RunPcs] /\ \A q \in Prompts : q # p => run'[q] = run[q]
    BY GotoFacts DEF GiveBack, RunPcs
<1>2. /\ UNCHANGED <<row, seq, stack, reply, cancel, stop, drop, protect, queued, overtaken>>
      /\ UNCHANGED <<status, cancelled, expected>>
    BY DEF GiveBack, loop, stopping, store
<1>3. faults \in Nat /\ faults' \in 0..MaxFaults /\ faults <= faults'
    <2>1. UNCHANGED faults \/ Fault
        BY DEF GiveBack
    <2>. QED BY <2>1, FaultBound
<1>4. \A R : Ordered(<<>>, R)
    BY DEF Ordered
<1>5. /\ hand' \in [Prompts -> Seq(Prompts)] /\ fetched' \in [Prompts -> Seq(Prompts)]
      /\ text' \in [Prompts -> Seq(Prompts)] /\ saved' \in [Prompts -> Nat]
      /\ (\A q \in Prompts : q # p => /\ hand'[q] = hand[q] /\ fetched'[q] = fetched[q] /\ text'[q] = text[q]
                                     /\ Held(q)' = Held(q))
      /\ hand'[p] = <<>> /\ Held(p)' = {}
    BY Forgotten, SameSets DEF GiveBack
<1>6. /\ waiting' \in Seq(Prompts) /\ Waits' = Held(p) \cup Waits /\ Ordered(waiting', Differ(Prompts))
    <2>1. waiting \in Seq(Prompts) /\ hand[p] \in Seq(Prompts) /\ waiting' = RestoredFront(hand[p])
        BY DEF TypeOK, GiveBack
    <2>2. ToSet(RestoredFront(hand[p])) = Held(p) \cup Waits /\ RestoredFront(hand[p]) \in Seq(Prompts)
        BY <2>1, RestoredFrontSet DEF Held
    <2>3. Ordered(waiting', Differ(Prompts))
        BY <2>1, RestoredFrontSet DEF Owned
    <2>. QED BY <2>1, <2>2, <2>3 DEF Waits
<1>7. Typed'
    <2>1. TypeOK'
        BY <1>1, <1>2, <1>3, <1>4, <1>5, <1>6, Members DEF TypeOK
    <2>2. Bounded'
        BY <1>2, <1>3 DEF Bounded
    <2>3. HandTyped'
        BY <1>1, <1>2, <1>3, <1>5 DEF HandTyped, Holding
    <2>. QED BY <2>1, <2>2, <2>3
<1>8. NoBack
    BY <1>1, <1>2, <1>3 DEF NoBack, Unqueued, Unanswered, Queueing, Owned
<1>9. /\ Queued \subseteq Prompts /\ OnStack \subseteq Prompts /\ Waits \subseteq Prompts
      /\ \A r \in Prompts : Held(r) \subseteq Prompts
      /\ Queued' = Queued /\ Earlier' = Earlier
      /\ OnStack' = OnStack
    BY <1>2, Members, SameSets
<1>10. Owned'
    BY <1>1, <1>2, <1>6, <1>5, <1>9, <1>4 DEF Owned, Queueing
<1>11. StackOwned'
    <2>1. \A r \in Prompts : Held(r)' \subseteq Held(r)
        BY <1>5
    <2>2. \A q \in OnStack : q \notin Waits'
        BY <1>6 DEF StackOwned
    <2>. QED BY <2>1, <2>2, <1>1, <1>2, <1>9 DEF StackOwned, Unqueued
<1>12. FifoKept'
    BY <1>1, <1>2, <1>3 DEF FifoKept
<1>13. Loaded'
    BY <1>1, <1>2, <1>5, SameSets, Members DEF Loaded
<1>14. Alone' \subseteq Alone
    BY <1>1, <1>2, <1>6, <1>5 DEF Alone
<1>15. RowsOwn'
    BY <1>1, <1>2, <1>8, <1>14 DEF RowsOwn, NoBack
<1>16. CancelOwned'
    <2>1. \A r \in Prompts : Held(r)' \subseteq Held(r)
        BY <1>5
    <2>2. \A q \in Prompts : q \in Waits' => q \in Waits \/ q \in Held(p)
        BY <1>6
    <2>. QED BY <2>1, <2>2, <1>2, <1>9 DEF CancelOwned, Gone
<1>17. AcceptedKept'
    <2>1. \A q \in Prompts : run'[q] \in Unanswered => reply'[q] = "none"
        BY <1>1, <1>2, <1>8 DEF AcceptedKept, NoBack, Unanswered, Unqueued, Queueing
    <2>2. ASSUME NEW q \in Prompts, q \in Alone', reply'[q] = "ok" PROVE row'[q] # <<>> \/ q \in drop'
        BY <2>2, OwnText, <1>1, <1>2, <1>5, <1>14 DEF AcceptedKept
    <2>3. stop' \in {"none", "idle", "drain"} => drop' = {}
        BY <1>2 DEF AcceptedKept
    <2>4. protect' \subseteq OnStack'
        BY <1>2, SameSets DEF AcceptedKept
    <2>5. Alone' \subseteq Prompts
        BY DEF Alone
    <2>. QED BY <2>1, <2>2, <2>3, <2>4, <2>5 DEF AcceptedKept
<1>. QED BY <1>7, <1>10, <1>11, <1>12, <1>13, <1>15, <1>16, <1>17

LEMMA PushKeeps ==
    ASSUME IInv, NEW p \in Prompts, Push(p)
    PROVE  IInv'
<1>. USE DEF IInv, Typed
<1>1. /\ run[p] = "push" /\ run'[p] \in {"emit", "error"}
      /\ run' \in [Prompts -> RunPcs] /\ \A q \in Prompts : q # p => run'[q] = run[q]
    BY GotoFacts DEF Push, RunPcs
<1>2. /\ UNCHANGED <<waiting, row, seq, reply, cancel, stop, drop, protect, queued, overtaken>>
      /\ UNCHANGED <<status, cancelled, expected>>
    BY DEF Push, loop, stopping, store
<1>3. faults \in Nat /\ faults' \in 0..MaxFaults /\ faults <= faults'
    <2>1. UNCHANGED faults \/ Fault
        BY DEF Push
    <2>. QED BY <2>1, FaultBound
<1>4. \A R : Ordered(<<>>, R)
    BY DEF Ordered
<1>5. /\ hand' \in [Prompts -> Seq(Prompts)] /\ fetched' \in [Prompts -> Seq(Prompts)]
      /\ text' \in [Prompts -> Seq(Prompts)] /\ saved' \in [Prompts -> Nat]
      /\ (\A q \in Prompts : q # p => /\ hand'[q] = hand[q] /\ fetched'[q] = fetched[q] /\ text'[q] = text[q]
                                     /\ Held(q)' = Held(q))
      /\ hand'[p] = <<>> /\ Held(p)' = {}
    BY Forgotten, SameSets DEF Push
<1>6. /\ hand[p] # <<>> /\ Head(hand[p]) \in Held(p) /\ Held(p) \subseteq Prompts
      /\ Held(p) \cap OnStack = {} /\ ToSet(text[p]) = Held(p)
    BY Members, SmallSets, <1>1 DEF HandTyped, Holding, TypeOK, Held, StackOwned, Loaded
<1>7. /\ stack' \in Seq([id : Prompts, text : Seq(Prompts)]) /\ OnStack' = OnStack \cup Held(p)
      /\ \A m \in ToSet(stack') : m \in ToSet(stack) \/ (m.id \in Held(p) /\ ToSet(m.text) = Held(p))
    <2>. DEFINE E == [id : Prompts, text : Seq(Prompts)]
                new == [id |-> Head(hand[p]), text |-> text[p]]
    <2>1. Head(hand[p]) \notin StackIds
        BY <1>6, StackSets
    <2>2. stack \in Seq(E) /\ new \in E /\ stack' = Append(stack, new) /\ new.text = text[p] /\ new.id = Head(hand[p])
        BY <2>1, <1>6 DEF TypeOK, Push
    <2>. HIDE DEF E, new
    <2>3. stack' \in Seq(E) /\ ToSet(stack') = ToSet(stack) \cup {new}
        BY <2>2, AppendSet
    <2>4. OnStack = UNION {ToSet(m.text) : m \in ToSet(stack)}
        BY StackSets
    <2>5. OnStack' = UNION {ToSet(m.text) : m \in ToSet(stack')}
        BY DEF OnStack, ToSet
    <2>6. OnStack' = OnStack \cup Held(p)
        BY <2>2, <2>3, <2>4, <2>5, <1>6
    <2>. QED BY <2>2, <2>3, <2>6, <1>6 DEF E
<1>8. Typed'
    <2>1. TypeOK'
        BY <1>1, <1>2, <1>3, <1>4, <1>5, <1>6, <1>7, Members DEF TypeOK
    <2>2. Bounded'
        BY <1>2, <1>3 DEF Bounded
    <2>3. HandTyped'
        BY <1>1, <1>2, <1>3, <1>5 DEF HandTyped, Holding
    <2>. QED BY <2>1, <2>2, <2>3
<1>9. NoBack
    BY <1>1, <1>2, <1>3 DEF NoBack, Unqueued, Unanswered, Queueing, Owned
<1>10. /\ Queued \subseteq Prompts /\ OnStack \subseteq Prompts /\ Waits \subseteq Prompts
       /\ \A r \in Prompts : Held(r) \subseteq Prompts
       /\ Queued' = Queued /\ Earlier' = Earlier
       /\ Waits' = Waits
    BY <1>2, Members, SameSets
<1>11. Owned'
    BY <1>1, <1>2, <1>5, <1>10, <1>4 DEF Owned, Queueing
<1>12. StackOwned'
    <2>1. \A r \in Prompts : Held(r)' \subseteq Held(r)
        BY <1>5
    <2>2. \A q \in Held(p) : /\ run[q] \notin Unqueued /\ q \notin Waits /\ q \notin Held(p)'
                              /\ \A r \in Prompts : r # p => q \notin Held(r)
        BY <1>5, <1>6 DEF Owned, Unqueued, Queueing
    <2>3. \A q \in OnStack' : /\ run[q] \notin Unqueued /\ q \notin Waits /\ q \in Prompts
                               /\ \A r \in Prompts : q \notin Held(r)'
        BY <2>1, <2>2, <1>6, <1>7, <1>10 DEF StackOwned
    <2>4. \A m \in ToSet(stack') : m.id \in ToSet(m.text)
        BY <1>7 DEF StackOwned
    <2>. QED BY <2>3, <2>4, <1>1, <1>10 DEF StackOwned, Unqueued
<1>13. FifoKept'
    <2>1. ASSUME InOrder PROVE InOrder'
        BY <2>1, <1>1, <1>2, <1>5, <1>10, <1>4 DEF InOrder
    <2>. QED BY <2>1, <1>1, <1>2, <1>3 DEF FifoKept
<1>14. Loaded'
    BY <1>1, <1>2, <1>5, SameSets, Members DEF Loaded
<1>15. Alone' \subseteq Alone
    BY <1>1, <1>2, <1>5, <1>10 DEF Alone
<1>16. RowsOwn'
    BY <1>1, <1>2, <1>9, <1>15 DEF RowsOwn, NoBack
<1>17. CancelOwned'
    <2>1. \A r \in Prompts : Held(r)' \subseteq Held(r)
        BY <1>5
    <2>2. \A q \in OnStack' : q \in OnStack \/ q \in Held(p)
        BY <1>7
    <2>. QED BY <2>1, <2>2, <1>2, <1>10 DEF CancelOwned, Gone
<1>18. AcceptedKept'
    <2>1. \A q \in Prompts : run'[q] \in Unanswered => reply'[q] = "none"
        BY <1>1, <1>2, <1>9 DEF AcceptedKept, NoBack, Unanswered, Unqueued, Queueing
    <2>2. ASSUME NEW q \in Prompts, q \in Alone', reply'[q] = "ok" PROVE row'[q] # <<>> \/ q \in drop'
        BY <2>2, OwnText, <1>1, <1>2, <1>5, <1>15 DEF AcceptedKept
    <2>3. stop' \in {"none", "idle", "drain"} => drop' = {}
        BY <1>2 DEF AcceptedKept
    <2>4. protect' \subseteq OnStack'
        BY <1>2, <1>7, SameSets DEF AcceptedKept
    <2>5. Alone' \subseteq Prompts
        BY DEF Alone
    <2>. QED BY <2>1, <2>2, <2>3, <2>4, <2>5 DEF AcceptedKept
<1>. QED BY <1>8, <1>11, <1>12, <1>13, <1>14, <1>16, <1>17, <1>18

LEMMA CancelDeleteKeeps ==
    ASSUME IInv, NEW p \in Prompts, CancelDelete(p)
    PROVE  IInv'
<1>. USE DEF IInv, Typed
<1>1. /\ UNCHANGED <<stack, reply, hand, fetched, text, saved, stop, drop, protect, queued, overtaken>>
      /\ UNCHANGED <<status, cancelled, expected, run>>
    BY DEF CancelDelete, loop, stopping, store
<1>2. faults \in Nat /\ faults' \in 0..MaxFaults /\ faults <= faults'
    <2>1. UNCHANGED faults \/ Fault
        BY DEF CancelDelete
    <2>. QED BY <2>1, FaultBound
<1>3. cancel[p] = "delete" /\ p \in Queued /\ p \notin Waits /\ p \notin OnStack /\ \A r \in Prompts : p \notin Held(r)
    BY DEF CancelDelete, CancelOwned, Gone
<1>4. /\ cancel' \in [Prompts -> {"none", "delete", "deleteRow", "cancelled", "refused"}] /\ \A q \in Prompts : q # p => cancel'[q] = cancel[q]
      /\ \/ cancel'[p] = "cancelled" /\ DeleteRows({p}) /\ UNCHANGED <<waiting, faults>>
         \/ cancel'[p] = "deleteRow" /\ UNCHANGED <<waiting, row, seq, faults>>
         \/ cancel'[p] = "refused" /\ Fault /\ waiting' = RestoredFront(<<p>>) /\ UNCHANGED <<row, seq>>
    <2>1. cancel \in [Prompts -> {"none", "delete", "deleteRow", "cancelled", "refused"}]
        BY DEF TypeOK
    <2>. QED BY <2>1 DEF CancelDelete, Cancelling
<1>5. /\ waiting' \in Seq(Prompts) /\ Ordered(waiting', Differ(Prompts))
      /\ \/ waiting' = waiting /\ Waits' = Waits /\ cancel'[p] \in {"cancelled", "deleteRow"}
         \/ Waits' = Waits \cup {p} /\ cancel'[p] = "refused" /\ faults' > 0
    <2>1. waiting \in Seq(Prompts) /\ <<p>> \in Seq(Prompts) /\ ToSet(<<p>>) = {p} /\ Ordered(<<p>>, Differ(Prompts))
        BY OwnText DEF TypeOK
    <2>2. /\ RestoredFront(<<p>>) \in Seq(Prompts) /\ ToSet(RestoredFront(<<p>>)) = {p} \cup Waits
          /\ Ordered(RestoredFront(<<p>>), Differ(Prompts))
        BY <2>1, RestoredFrontSet DEF Owned
    <2>3. Fault => faults' > 0
        BY FaultBound
    <2>. QED BY <2>1, <2>2, <2>3, <1>4 DEF Waits, Owned
<1>6. /\ row' \in [Prompts -> Seq(Prompts)] /\ \A q \in Prompts : row'[q] \in {row[q], <<>>}
      /\ \A q \in Prompts : (q # p \/ cancel'[p] # "cancelled") => row'[q] = row[q]
    <2>1. row \in [Prompts -> Seq(Prompts)] /\ <<>> \in Seq(Prompts)
        BY EmptySeq DEF TypeOK
    <2>2. CASE cancel'[p] = "cancelled" /\ DeleteRows({p})
        BY <2>1, <2>2 DEF DeleteRows
    <2>3. CASE UNCHANGED row
        BY <2>1, <2>3
    <2>. QED BY <2>2, <2>3, <1>4
<1>7. /\ seq' \in [Prompts -> Nat] /\ \A q \in Prompts : seq'[q] = seq[q] \/ seq'[q] = 0
    <2>1. seq \in [Prompts -> Nat]
        BY DEF TypeOK
    <2>2. CASE DeleteRows({p})
        BY <2>1, <2>2 DEF DeleteRows
    <2>3. CASE UNCHANGED seq
        BY <2>1, <2>3
    <2>. QED BY <2>2, <2>3, <1>4
<1>8. Typed'
    <2>1. TypeOK'
        BY <1>1, <1>2, <1>3, <1>4, <1>5, <1>6, <1>7, Members DEF TypeOK
    <2>2. Bounded'
        <3>1. PICK n \in Nat : \A q \in Prompts : seq[q] <= n
            BY DEF Bounded
        <3>. QED BY <3>1, <1>7 DEF Bounded
    <2>3. HandTyped'
        BY <1>1, <1>2 DEF HandTyped, Holding
    <2>. QED BY <2>1, <2>2, <2>3
<1>9. NoBack
    BY <1>1, <1>2 DEF NoBack, Unqueued, Unanswered, Queueing, Owned
<1>10. /\ Queued \subseteq Prompts /\ OnStack \subseteq Prompts /\ Waits \subseteq Prompts
       /\ \A r \in Prompts : Held(r) \subseteq Prompts
       /\ Queued' = Queued /\ Earlier' = Earlier
       /\ OnStack' = OnStack
       /\ \A r \in Prompts : Held(r)' = Held(r)
    BY <1>1, Members, SameSets
<1>11. Owned'
    BY <1>1, <1>3, <1>5, <1>10 DEF Owned
<1>12. StackOwned'
    BY <1>1, <1>3, <1>5, <1>10 DEF StackOwned
<1>13. FifoKept'
    <2>1. ASSUME InOrder, waiting' = waiting PROVE InOrder'
        <3>1. Waits' = Waits
            BY <2>1, SameSets
        <3>. QED BY <2>1, <3>1, <1>1, <1>10 DEF InOrder
    <2>. QED BY <2>1, <1>1, <1>2, <1>5 DEF FifoKept
<1>14. Loaded'
    BY <1>1, SameSets DEF Loaded
<1>15. Alone' \subseteq Alone /\ (cancel'[p] = "cancelled" => p \notin Alone')
    BY <1>1, <1>3, <1>4, <1>5, <1>10 DEF Alone
<1>16. RowsOwn'
    BY <1>1, <1>6, <1>9, <1>15 DEF RowsOwn, NoBack, Alone
<1>17. CancelOwned'
    BY <1>1, <1>3, <1>4, <1>5, <1>10 DEF CancelOwned, Gone
<1>18. AcceptedKept'
    <2>1. \A q \in Prompts : run'[q] \in Unanswered => reply'[q] = "none"
        BY <1>1, <1>9 DEF AcceptedKept, NoBack, Unanswered, Unqueued, Queueing
    <2>2. ASSUME NEW q \in Prompts, q \in Alone', reply'[q] = "ok" PROVE row'[q] # <<>> \/ q \in drop'
        BY <2>2, <1>1, <1>6, <1>15 DEF AcceptedKept, Alone
    <2>3. stop' \in {"none", "idle", "drain"} => drop' = {}
        BY <1>1 DEF AcceptedKept
    <2>4. protect' \subseteq OnStack'
        BY <1>1, SameSets DEF AcceptedKept
    <2>5. Alone' \subseteq Prompts
        BY DEF Alone
    <2>. QED BY <2>1, <2>2, <2>3, <2>4, <2>5 DEF AcceptedKept
<1>. QED BY <1>8, <1>11, <1>12, <1>13, <1>14, <1>16, <1>17, <1>18
-----------------------------------------------------------------------------
(* The invariant holds.                                                      *)

LEMMA Starts ==
    Init => IInv
<1>. SUFFICES ASSUME Init PROVE IInv
    OBVIOUS
<1>1. /\ <<>> \in Seq(Prompts) /\ <<>> \in Seq([id : Prompts, text : Seq(Prompts)])
      /\ ToSet(<<>>) = {} /\ \A R : Ordered(<<>>, R)
    BY EmptySeq DEF ToSet, Ordered
<1>2. /\ Waits = {} /\ Queued = {} /\ OnStack = {} /\ ToSet(stack) = {}
      /\ \A r \in Prompts : hand[r] = <<>> /\ Held(r) = {} /\ run[r] = "decide"
    <2>1. DOMAIN stack = {}
        BY DEF Init
    <2>. QED BY <1>1, <2>1 DEF Init, Waits, Queued, OnStack, Held
<1>3. Typed
    <2>1. TypeOK
        <3>1. \A p \in Prompts : "decide" \in RunPcs
            BY DEF RunPcs
        <3>2. faults \in 0..MaxFaults
            BY QueueAssumption DEF Init
        <3>. QED BY <1>1, <3>1, <3>2 DEF Init, TypeOK
    <2>2. Bounded
        <3>1. \A p \in Prompts : seq[p] <= 0
            BY DEF Init
        <3>. QED BY <3>1 DEF Bounded
    <2>3. HandTyped
        BY <1>2 DEF HandTyped, Holding
    <2>. QED BY <2>1, <2>2, <2>3 DEF Typed
<1>4. Owned
    BY <1>1, <1>2 DEF Owned, Init
<1>5. Alone = {}
    BY <1>2 DEF Alone, Init
<1>6. Loaded /\ RowsOwn /\ StackOwned
    BY <1>2, <1>5 DEF Loaded, RowsOwn, StackOwned, Init
<1>7. CancelOwned /\ AcceptedKept
    BY <1>2, <1>5 DEF CancelOwned, AcceptedKept, Gone, Init
<1>8. FifoKept
    BY <1>1, <1>2 DEF FifoKept, InOrder, Init
<1>. QED BY <1>3, <1>4, <1>6, <1>7, <1>8 DEF IInv

LEMMA Steps ==
    IInv /\ [Next]_vars => IInv'
<1>. SUFFICES ASSUME IInv, [Next]_vars PROVE IInv'
    OBVIOUS
<1>1. CASE UNCHANGED vars
    <2>1. Quiet
        <3>1. UNCHANGED <<waiting, row, seq, stack, reply, hand, fetched, text, saved, cancel, drop, protect>>
            BY <1>1 DEF vars, store, loop, stopping
        <3>2. UNCHANGED <<queued, overtaken, status, cancelled, expected, run, stop, faults>>
            BY <1>1 DEF vars, stopping
        <3>3. /\ status \in {"Idle", "Queued", "Busy", "Error"} /\ cancelled \in BOOLEAN
              /\ expected \in Prompts \cup {Nobody} /\ faults \in 0..MaxFaults
            BY DEF IInv, Typed, TypeOK
        <3>. QED BY <3>1, <3>2, <3>3 DEF Quiet
    <2>. QED BY <2>1, QuietKeeps
<1>2. CASE \/ Terminate \/ TerminateIdle
           \/ \E p \in Prompts :
                 \/ Decide(p) \/ Start(p) \/ Place(p) \/ Validate(p) \/ Emit(p) \/ Answer(p) \/ AnswerError(p)
                 \/ StoreTools(p) \/ Tools(p) \/ Final(p) \/ StoreAnswer(p) \/ Scan(p) \/ GoIdle(p) \/ GoError(p)
    BY <1>2, QuietSteps, QuietKeeps DEF IInv, Typed
<1>3. CASE DiscardDrain \/ DiscardList \/ DiscardClear \/ DiscardDelete \/ DiscardRetain
    BY <1>3, DiscardDrainKeeps, DiscardListKeeps, DiscardClearKeeps, DiscardDeleteKeeps, DiscardRetainKeeps
<1>4. ASSUME NEW p \in Prompts,
             Enqueue(p) \/ InsertRow(p) \/ ComputeSeq(p) \/ InsertIndex(p) \/ UndoRow(p) \/ UndoMemory(p)
                \/ AppendPrompt(p) \/ Persist(p)
      PROVE  IInv'
    BY <1>4, EnqueueKeeps, InsertRowKeeps, ComputeSeqKeeps, InsertIndexKeeps, UndoRowKeeps, UndoMemoryKeeps,
       AppendPromptKeeps, PersistKeeps
<1>5. ASSUME NEW p \in Prompts,
             Claim(p) \/ Split(p) \/ TakeIndex(p) \/ LoadOne(p) \/ RestoreIndex(p)
                \/ Load(p) \/ Merge(p) \/ GiveBack(p) \/ Push(p)
      PROVE  IInv'
    BY <1>5, ClaimKeeps, SplitKeeps, TakeIndexKeeps, LoadOneKeeps, RestoreIndexKeeps, LoadKeeps, MergeKeeps,
       GiveBackKeeps, PushKeeps
<1>6. ASSUME NEW p \in Prompts, CancelTake(p) \/ CancelDelete(p) \/ CancelDeleteRow(p)
      PROVE  IInv'
    BY <1>6, CancelTakeKeeps, CancelDeleteKeeps, CancelDeleteRowKeeps
<1>. QED BY <1>1, <1>2, <1>3, <1>4, <1>5, <1>6 DEF Next, Stopper, Sender, Loop, Canceller

\* For any number of prompts, any batch size and any failures: queues and texts
\* are sequences of prompts, every future is at one of its await points, every
\* queue_seq is a number (pending_queue.rs, start.rs, finish.rs).
THEOREM TypeCorrect == Spec => []TypeOK
<1>1. IInv => TypeOK
    BY DEF IInv, Typed
<1>. QED BY <1>1, Starts, Steps, PTL DEF Spec

\* For any number of loops that race for the queue: the prompt of a cancel that
\* reported success never reaches the LLM, whether a claim, a merge or a discard
\* is in flight (pending_queue.rs:424-428).
THEOREM CancelsWin == Spec => []CancelWins
<1>1. IInv => CancelWins
    BY DEF IInv, CancelOwned, CancelWins, Gone
<1>. QED BY <1>1, Starts, Steps, PTL DEF Spec
-----------------------------------------------------------------------------
(* What a step may do to an accepted prompt.                                 *)

\* start_workflow answers once.
LEMMA AnsweredOnce ==
    ASSUME IInv, Next, NEW q \in Prompts, reply[q] # "none"
    PROVE  reply'[q] = reply[q]
<1>1. reply \in [Prompts -> {"none", "ok", "error"}] /\ run[q] \notin Unanswered
    BY DEF IInv, Typed, TypeOK, AcceptedKept
<1>2. ASSUME NEW p \in Prompts, InsertIndex(p) \/ UndoMemory(p) \/ Persist(p) PROVE reply'[q] = reply[q]
    <2>1. p # q
        BY <1>1, <1>2 DEF InsertIndex, UndoMemory, Persist, Unanswered, Queueing
    <2>. QED BY <1>1, <1>2, <2>1 DEF InsertIndex, UndoMemory, Persist, Reply
<1>3. CASE Stopper
    BY <1>3 DEF Stopper, Terminate, TerminateIdle, DiscardDrain, DiscardList, DiscardClear, DiscardDelete, DiscardRetain
<1>4. ASSUME NEW p \in Prompts, Sender(p), ~InsertIndex(p), ~UndoMemory(p), ~Persist(p) PROVE reply'[q] = reply[q]
    BY <1>4 DEF Sender, Decide, Enqueue, InsertRow, ComputeSeq, UndoRow, Start, AppendPrompt, Place
<1>5. ASSUME NEW p \in Prompts, Loop(p) PROVE reply'[q] = reply[q]
    BY <1>5 DEF Loop, Validate, Claim, Split, TakeIndex, LoadOne, RestoreIndex, Load, Merge, GiveBack, Push, Emit,
                Answer, AnswerError, StoreTools, Tools, Final, StoreAnswer, Scan, GoIdle, GoError
<1>6. ASSUME NEW p \in Prompts, Canceller(p) PROVE reply'[q] = reply[q]
    BY <1>6 DEF Canceller, CancelTake, CancelDelete, CancelDeleteRow
<1>. QED BY <1>2, <1>3, <1>4, <1>5, <1>6 DEF Next

Owners == Waits \cup InHand

\* A prompt that leaves the queue and the loops without reaching the stack was not
\* accepted, is withdrawn or skipped.
Excused ==
    \A q \in Owners : \/ q \in Owners' \/ q \in OnStack'
                      \/ reply[q] # "ok" \/ q \in Withdrawn' \cup Skipped

\* Where prompts are not moved nobody needs an excuse.
LEMMA Unmoved ==
    ASSUME UNCHANGED <<waiting, hand>>
    PROVE  Excused
BY DEF Excused, Owners, Waits, InHand

\* What one loop does to what it holds leaves the others alone.
LEMMA LoopHands ==
    ASSUME IInv, NEW p \in Prompts, NEW h \in Seq(Prompts), hand' = [hand EXCEPT ![p] = h]
    PROVE  /\ InHand' = ToSet(h) \cup UNION {Held(r) : r \in Prompts \ {p}}
           /\ InHand = Held(p) \cup UNION {Held(r) : r \in Prompts \ {p}}
<1>1. hand \in [Prompts -> Seq(Prompts)]
    BY DEF IInv, Typed, TypeOK
<1>2. hand'[p] = h /\ \A r \in Prompts \ {p} : hand'[r] = hand[r]
    BY <1>1
<1>. QED BY <1>2 DEF InHand, Held

\* A loop leaves out what has no row and was not withdrawn only by a batch.
LEMMA RowlessDropped ==
    ASSUME IInv, NEW p \in Prompts, run[p] # "push", NEW q \in Held(p), row[q] = <<>>, reply[q] = "ok"
    PROVE  q \in drop
<1>1. q \in Alone
    BY Members DEF Alone, IInv, Typed
<1>. QED BY <1>1 DEF IInv, AcceptedKept

LEMMA OwnersExcused ==
    ASSUME IInv, Next
    PROVE  Excused
<1>0. /\ TypeOK /\ waiting \in Seq(Prompts) /\ hand \in [Prompts -> Seq(Prompts)]
      /\ \A r \in Prompts : hand[r] \in Seq(Prompts) /\ Held(r) \subseteq Prompts /\ ToSet(hand[r]) = Held(r)
      /\ Waits \subseteq Prompts /\ ToSet(<<>>) = {} /\ <<>> \in Seq(Prompts) /\ ToSet(waiting) = Waits
    <2>1. TypeOK /\ waiting \in Seq(Prompts) /\ hand \in [Prompts -> Seq(Prompts)]
        BY DEF IInv, Typed, TypeOK
    <2>2. (\A r \in Prompts : Held(r) \subseteq Prompts) /\ Waits \subseteq Prompts
        BY <2>1, Members
    <2>3. ToSet(<<>>) = {} /\ <<>> \in Seq(Prompts)
        BY EmptySeq DEF ToSet
    <2>. QED BY <2>1, <2>2, <2>3 DEF Held, Waits
<1>1. CASE Stopper
    <2>1. CASE DiscardDrain
        <3>1. UNCHANGED hand /\ drop' = Waits
            BY <2>1 DEF DiscardDrain, loop, Waits
        <3>. QED BY <3>1 DEF Excused, Owners, InHand, Withdrawn
    <2>2. CASE ~DiscardDrain
        BY <1>1, <2>2, Unmoved
           DEF Stopper, Terminate, TerminateIdle, DiscardList, DiscardClear, DiscardDelete, DiscardRetain, store, loop
    <2>. QED BY <2>1, <2>2
<1>2. ASSUME NEW p \in Prompts, Sender(p) PROVE Excused
    <2>1. CASE Enqueue(p)
        <3>1. ToSet(waiting') = Waits \cup {p}
            BY <1>0, <2>1, AppendSet DEF Enqueue
        <3>. QED BY <2>1, <3>1 DEF Enqueue, Excused, Owners, Waits, InHand, loop
    <2>2. CASE UndoMemory(p)
        <3>1. ToSet(waiting') = Waits \cap (Prompts \ {p})
            BY <1>0, <2>2, KeptProperties DEF UndoMemory
        <3>2. reply[p] = "none"
            BY <2>2 DEF UndoMemory, IInv, AcceptedKept, Unanswered, Queueing
        <3>3. UNCHANGED hand
            BY <2>2 DEF UndoMemory, loop
        <3>. QED BY <1>0, <3>1, <3>2, <3>3 DEF Excused, Owners, Waits, InHand
    <2>3. CASE ~Enqueue(p) /\ ~UndoMemory(p)
        BY <1>2, <2>3, Unmoved
           DEF Sender, Decide, InsertRow, ComputeSeq, InsertIndex, UndoRow, Start, AppendPrompt, Persist, Place, store, loop
    <2>. QED BY <2>1, <2>2, <2>3
<1>3. ASSUME NEW p \in Prompts, Canceller(p) PROVE Excused
    <2>1. CASE CancelTake(p)
        <3>1. ToSet(waiting') = Waits \cap (Prompts \ {p}) /\ (Contains(waiting, p) <=> p \in Waits)
            BY <1>0, <2>1, KeptProperties, ContainsSet DEF CancelTake
        <3>2. p \in Waits => cancel'[p] = "delete"
            <4>1. cancel \in [Prompts -> {"none", "delete", "deleteRow", "cancelled", "refused"}]
                BY <1>0 DEF TypeOK
            <4>. QED BY <2>1, <3>1, <4>1 DEF CancelTake, Cancelling
        <3>3. UNCHANGED hand
            BY <2>1 DEF CancelTake, loop
        <3>. QED BY <1>0, <3>1, <3>2, <3>3 DEF Excused, Owners, Waits, InHand, Withdrawn
    <2>2. CASE CancelDelete(p)
        <3>1. ToSet(RestoredFront(<<p>>)) = ToSet(<<p>>) \cup Waits
            BY <1>0, OwnText, RestoredFrontSet
        <3>2. Waits \subseteq ToSet(waiting') /\ UNCHANGED hand
            BY <1>0, <2>2, <3>1 DEF CancelDelete, loop
        <3>. QED BY <3>2 DEF Excused, Owners, Waits, InHand
    <2>3. CASE CancelDeleteRow(p)
        BY <2>3, Unmoved DEF CancelDeleteRow, loop
    <2>. QED BY <1>3, <2>1, <2>2, <2>3 DEF Canceller
<1>4. ASSUME NEW p \in Prompts, Loop(p) PROVE Excused
    <2>. DEFINE Rest == UNION {Held(r) : r \in Prompts \ {p}}
    <2>0. InHand = Held(p) \cup Rest
        BY DEF InHand, Held
    <2>. HIDE DEF Rest
    <2>a. ASSUME NEW h \in Seq(Prompts), hand' = [hand EXCEPT ![p] = h] PROVE InHand' = ToSet(h) \cup Rest
        BY <2>a, LoopHands DEF Rest
    <2>1. CASE Claim(p)
        <3>1. InHand' = Waits \cup Rest
            BY <1>0, <2>1, <2>a DEF Claim
        <3>2. Held(p) = {}
            BY <1>0, <2>1 DEF Claim, IInv, Typed, HandTyped, Holding
        <3>. QED BY <2>0, <3>1, <3>2 DEF Excused, Owners
    <2>2. CASE Split(p)
        <3>. DEFINE a == SubSeq(hand[p], 1, ClaimBatch)
                    b == SubSeq(hand[p], ClaimBatch + 1, Len(hand[p]))
        <3>1. ClaimBatch \in 0..Len(hand[p])
            <4>1. Len(hand[p]) > ClaimBatch
                BY <2>2 DEF Split, IInv, Typed, HandTyped
            <4>. QED BY <1>0, <4>1, LenProperties, QueueAssumption
        <3>2. Ordered(hand[p], Differ(Prompts))
            BY DEF IInv, Owned
        <3>3. a \in Seq(Prompts) /\ b \in Seq(Prompts) /\ Held(p) = ToSet(a) \cup ToSet(b)
            BY <1>0, <3>1, <3>2, Halves
        <3>4. hand' = [hand EXCEPT ![p] = a] /\ waiting' = RestoredFront(b)
            BY <2>2 DEF Split
        <3>. HIDE DEF a, b
        <3>5. ToSet(waiting') = ToSet(b) \cup Waits
            BY <1>0, <3>3, <3>4, RestoredFrontSet
        <3>6. InHand' = ToSet(a) \cup Rest
            BY <2>a, <3>3, <3>4
        <3>. QED BY <2>0, <3>3, <3>5, <3>6 DEF Excused, Owners, Waits
    <2>3. CASE GiveBack(p)
        <3>1. ToSet(waiting') = Held(p) \cup Waits
            BY <1>0, <2>3, RestoredFrontSet DEF GiveBack
        <3>2. InHand' = Rest
            BY <1>0, <2>3, <2>a DEF GiveBack, Forget
        <3>. QED BY <2>0, <3>1, <3>2 DEF Excused, Owners, Waits
    <2>4. CASE Push(p)
        <3>1. InHand' = Rest /\ UNCHANGED waiting
            BY <1>0, <2>4, <2>a DEF Push, Forget
        <3>2. ToSet(text[p]) = Held(p) /\ hand[p] # <<>>
            BY <2>4 DEF Push, IInv, Loaded, Typed, HandTyped, Holding
        <3>3. Head(hand[p]) \in Held(p) /\ Held(p) \cap OnStack = {}
            BY <1>0, <3>2, SmallSets DEF IInv, StackOwned
        <3>4. Head(hand[p]) \notin StackIds
            BY <1>0, <3>3, StackSets DEF IInv
        <3>. DEFINE E == [id : Prompts, text : Seq(Prompts)]
                    new == [id |-> Head(hand[p]), text |-> text[p]]
        <3>5. stack \in Seq(E) /\ new \in E /\ stack' = Append(stack, new) /\ new.text = text[p]
            BY <1>0, <2>4, <3>3, <3>4 DEF Push, TypeOK
        <3>. HIDE DEF E, new
        <3>6. new \in ToSet(stack')
            BY <3>5, AppendSet
        <3>7. OnStack' = UNION {ToSet(m.text) : m \in ToSet(stack')}
            BY DEF OnStack, ToSet
        <3>8. Held(p) \subseteq OnStack'
            BY <3>2, <3>5, <3>6, <3>7
        <3>. QED BY <2>0, <3>1, <3>8 DEF Excused, Owners, Waits
    <2>5. CASE TakeIndex(p)
        <3>1. CASE UNCHANGED loop
            BY <2>5, <3>1, Unmoved DEF TakeIndex, loop
        <3>2. CASE UNCHANGED <<hand, fetched, text, faults>>
            BY <2>5, <3>2, Unmoved DEF TakeIndex
        <3>3. CASE seq[Head(hand[p])] = 0 /\ Forget(p)
            <4>1. InHand' = Rest /\ UNCHANGED waiting /\ run[p] = "takeIndex"
                BY <1>0, <2>5, <3>3, <2>a DEF TakeIndex, Forget
            <4>2. Len(hand[p]) = 1
                BY <4>1 DEF IInv, Typed, HandTyped
            <4>3. hand[p] = <<Head(hand[p])>> /\ Held(p) = {Head(hand[p])}
                BY <1>0, <4>2, SmallSets
            <4>4. Held(p) \subseteq Skipped
                BY <1>0, <3>3, <4>1, <4>3 DEF Skipped
            <4>. QED BY <2>0, <4>1, <4>4 DEF Excused, Owners, Waits
        <3>. QED BY <2>5, <3>1, <3>2, <3>3 DEF TakeIndex
    <2>6. CASE LoadOne(p)
        <3>1. CASE UNCHANGED loop \/ UNCHANGED <<hand, fetched, saved, faults>>
            BY <2>6, <3>1, Unmoved DEF LoadOne, loop, store
        <3>2. CASE row[Head(hand[p])] = <<>> /\ Forget(p)
            <4>1. InHand' = Rest /\ UNCHANGED <<waiting, drop>> /\ run[p] = "loadOne"
                BY <1>0, <2>6, <3>2, <2>a DEF LoadOne, Forget, store, stopping
            <4>2. Len(hand[p]) = 1
                BY <4>1 DEF IInv, Typed, HandTyped
            <4>3. Held(p) = {Head(hand[p])}
                BY <1>0, <4>2, SmallSets
            <4>4. \A q \in Held(p) : reply[q] = "ok" => q \in drop'
                BY <3>2, <4>1, <4>3, RowlessDropped
            <4>. QED BY <2>0, <4>1, <4>4 DEF Excused, Owners, Waits, Withdrawn
        <3>. QED BY <2>6, <3>1, <3>2 DEF LoadOne
    <2>7. CASE Load(p)
        <3>. DEFINE found == Kept(hand[p], {m \in Prompts : row[m] # <<>>})
        <3>0. found \in Seq(Prompts) /\ ToSet(found) = Held(p) \cap {m \in Prompts : row[m] # <<>>}
            BY <1>0, KeptProperties
        <3>1. CASE UNCHANGED hand
            BY <2>7, <3>1, Unmoved DEF Load, store
        <3>2. CASE hand' = [hand EXCEPT ![p] = found] \/ (found = <<>> /\ Forget(p))
            <4>1. hand' = [hand EXCEPT ![p] = found] /\ UNCHANGED <<waiting, drop>> /\ run[p] = "load"
                BY <2>7, <3>2 DEF Load, Forget, store, stopping
            <4>. HIDE DEF found
            <4>2. InHand' = ToSet(found) \cup Rest
                BY <3>0, <4>1, <2>a
            <4>3. \A q \in Held(p) : q \notin ToSet(found) /\ reply[q] = "ok" => q \in drop'
                BY <1>0, <3>0, <4>1, RowlessDropped
            <4>. QED BY <2>0, <4>1, <4>2, <4>3 DEF Excused, Owners, Waits, Withdrawn
        <3>3. UNCHANGED hand \/ hand' = [hand EXCEPT ![p] = found] \/ (found = <<>> /\ Forget(p))
            BY <2>7 DEF Load, loop
        <3>. HIDE DEF found
        <3>. QED BY <3>1, <3>2, <3>3
    <2>8. CASE Merge(p)
        <3>1. CASE UNCHANGED hand
            BY <2>8, <3>1, Unmoved DEF Merge
        <3>2. CASE hand' = [hand EXCEPT ![p] = fetched[p]]
            <4>1. InHand' = ToSet(fetched[p]) \cup Rest /\ UNCHANGED waiting /\ run[p] = "merge"
                BY <1>0, <2>8, <3>2, <2>a DEF Merge, TypeOK
            <4>2. Held(p) \ ToSet(fetched[p]) \subseteq Skipped
                BY <1>0, <4>1 DEF Skipped
            <4>. QED BY <2>0, <4>1, <4>2 DEF Excused, Owners, Waits
        <3>. QED BY <2>8, <3>1, <3>2 DEF Merge
    <2>9. CASE \/ Validate(p) \/ RestoreIndex(p) \/ Emit(p) \/ Answer(p) \/ AnswerError(p) \/ StoreTools(p) \/ Tools(p)
               \/ Final(p) \/ StoreAnswer(p) \/ Scan(p) \/ GoIdle(p) \/ GoError(p)
        BY <2>9, Unmoved DEF Validate, RestoreIndex, Emit, Answer, AnswerError, StoreTools, Tools, Final, StoreAnswer,
                             Scan, GoIdle, GoError, store, loop
    <2>. QED BY <1>4, <2>1, <2>2, <2>3, <2>4, <2>5, <2>6, <2>7, <2>8, <2>9 DEF Loop
<1>. QED BY <1>1, <1>2, <1>3, <1>4 DEF Next

\* For any number of prompts, loops and failures: an accepted prompt that waits
\* goes on waiting, is claimed, or reaches the LLM, unless the user withdraws it,
\* its index row was lost or a batch drained it before its row was written
\* (pending_queue.rs:274-420).
THEOREM KeptAlways == Spec => KeptUntilAnswered
<1>1. IInv /\ [Next]_vars => [\A p \in Pending \ Skipped : p \in Pending' \cup OnStack' \cup Withdrawn']_vars
    <2>. SUFFICES ASSUME IInv, Next, NEW p \in Pending \ Skipped PROVE p \in Pending' \cup OnStack' \cup Withdrawn'
        OBVIOUS
    <2>1. Pending = {q \in Owners : reply[q] = "ok"} /\ Pending' = {q \in Owners' : reply'[q] = "ok"}
        BY DEF Pending, Owners, Waits
    <2>2. Owners \subseteq Prompts
        BY Members DEF Owners, InHand, Held, IInv, Typed
    <2>3. reply'[p] = "ok"
        BY <2>1, <2>2, AnsweredOnce
    <2>. QED BY <2>1, <2>3, OwnersExcused DEF Excused
<1>. QED BY <1>1, Starts, Steps, PTL DEF Spec, KeptUntilAnswered
-----------------------------------------------------------------------------
(* What a step may do to the rows.                                           *)

\* A prompt that is stored stays stored or has the excuse of StoredSurvives.
Survives ==
    \A p \in Stored : reply[p] = "ok" =>
          \/ p \in Stored' \cup Withdrawn'
          \/ \E m \in Prompts : p \in ToSet(row[m]) /\ (run[m] = "undoRow" \/ m \in drop)

\* Where the row of a prompt still holds it, it is stored.
LEMMA RowsSurvive ==
    ASSUME \A m \in Prompts : \A p \in ToSet(row[m]) :
               \/ p \in ToSet(row'[m]) \/ p \in Withdrawn' \/ run[m] = "undoRow" \/ m \in drop
    PROVE  Survives
<1>1. \A p \in Stored : \E m \in Prompts : p \in ToSet(row[m])
    BY DEF Stored
<1>2. \A m \in Prompts : \A p \in ToSet(row'[m]) : p \in Stored'
    BY DEF Stored
<1>. QED BY <1>1, <1>2 DEF Survives

LEMMA NothingLost ==
    ASSUME IInv, Next
    PROVE  Survives
<1>0. row \in [Prompts -> Seq(Prompts)] /\ ToSet(<<>>) = {} /\ Alone \subseteq Prompts
    BY DEF IInv, Typed, TypeOK, ToSet, Alone
<1>a. \A m \in Alone : ToSet(row[m]) \subseteq {m}
    BY <1>0, OwnText DEF IInv, RowsOwn
<1>b. CASE UNCHANGED row
    BY <1>b, RowsSurvive
<1>1. ASSUME NEW p \in Prompts, InsertRow(p) \/ Persist(p) PROVE Survives
    <2>1. row[p] = <<>>
        BY <1>1 DEF InsertRow, Persist, IInv, RowsOwn
    <2>2. \A m \in Prompts : m # p => row'[m] = row[m]
        BY <1>0, <1>1 DEF InsertRow, Persist
    <2>. QED BY <1>0, <2>1, <2>2, RowsSurvive
<1>2. ASSUME NEW p \in Prompts, UndoRow(p) PROVE Survives
    <2>1. run[p] = "undoRow" /\ \A m \in Prompts : m # p => row'[m] = row[m]
        BY <1>0, <1>2 DEF UndoRow, DeleteRows
    <2>. QED BY <2>1, RowsSurvive
<1>3. ASSUME NEW p \in Prompts, CancelDelete(p) \/ CancelDeleteRow(p) PROVE Survives
    <2>1. CASE UNCHANGED row
        BY <2>1, <1>b
    <2>2. CASE DeleteRows({p}) /\ Cancelling(p, "cancelled")
        <3>1. \A m \in Prompts : m # p => row'[m] = row[m]
            BY <1>0, <2>2 DEF DeleteRows
        <3>2. p \in Alone
            BY <1>3 DEF CancelDelete, CancelDeleteRow, Alone
        <3>3. p \in Withdrawn'
            <4>1. cancel \in [Prompts -> {"none", "delete", "deleteRow", "cancelled", "refused"}]
                BY DEF IInv, Typed, TypeOK
            <4>. QED BY <2>2, <4>1 DEF Cancelling, Withdrawn
        <3>. QED BY <1>a, <3>1, <3>2, <3>3, RowsSurvive
    <2>. QED BY <1>3, <2>1, <2>2 DEF CancelDelete, CancelDeleteRow
<1>4. CASE DiscardDelete
    <2>1. \A m \in Prompts : m \notin drop => row'[m] = row[m]
        <3>1. ASSUME NEW P, P \subseteq drop, DeleteRows(P) PROVE \A m \in Prompts : m \notin drop => row'[m] = row[m]
            BY <1>0, <3>1 DEF DeleteRows
        <3>. QED BY <1>4, <3>1 DEF DiscardDelete
    <2>. QED BY <2>1, RowsSurvive
<1>5. ASSUME NEW p \in Prompts, Merge(p) PROVE Survives
    <2>1. CASE UNCHANGED row
        BY <2>1, <1>b
    <2>2. CASE row' = [m \in Prompts |-> IF m = Head(fetched[p]) THEN text[p]
                                         ELSE IF m \in ToSet(fetched[p]) THEN <<>> ELSE row[m]]
        <3>1. fetched[p] \in Seq(Prompts) /\ fetched[p] # <<>> /\ run[p] = "merge"
            BY <1>5 DEF Merge, IInv, Typed, TypeOK, HandTyped
        <3>2. Head(fetched[p]) \in ToSet(fetched[p]) /\ ToSet(fetched[p]) \subseteq Prompts
            BY <3>1, SmallSets
        <3>3. row'[Head(fetched[p])] = text[p] /\ \A m \in Prompts : m \notin ToSet(fetched[p]) => row'[m] = row[m]
            BY <2>2, <3>2
        <3>4. ToSet(text[p]) = ToSet(fetched[p]) /\ ToSet(fetched[p]) \subseteq Alone
            BY <3>1, <3>2 DEF IInv, Loaded, Alone
        <3>5. ToSet(fetched[p]) \subseteq Stored'
            BY <3>2, <3>3, <3>4 DEF Stored
        <3>6. \A m \in Prompts : m \notin ToSet(fetched[p]) => ToSet(row[m]) \subseteq Stored'
            BY <3>3 DEF Stored
        <3>7. \A m \in Prompts : ToSet(row[m]) \subseteq Stored'
            BY <1>a, <3>4, <3>5, <3>6
        <3>8. Stored = UNION {ToSet(row[m]) : m \in Prompts}
            BY DEF Stored
        <3>9. Stored \subseteq Stored'
            <4>. HIDE DEF Stored
            <4>. QED BY <3>7, <3>8
        <3>. QED BY <3>9 DEF Survives
    <2>. QED BY <1>5, <2>1, <2>2 DEF Merge
<1>6. CASE Stopper
    BY <1>6, <1>b, <1>4
       DEF Stopper, Terminate, TerminateIdle, DiscardDrain, DiscardList, DiscardClear, DiscardRetain, store
<1>7. ASSUME NEW p \in Prompts, Sender(p) PROVE Survives
    BY <1>7, <1>b, <1>1, <1>2 DEF Sender, Decide, Enqueue, ComputeSeq, InsertIndex, UndoMemory, Start, AppendPrompt, Place, store
<1>8. ASSUME NEW p \in Prompts, Loop(p) PROVE Survives
    BY <1>8, <1>b, <1>5 DEF Loop, Validate, Claim, Split, TakeIndex, LoadOne, RestoreIndex, Load, GiveBack, Push, Emit,
                Answer, AnswerError, StoreTools, Tools, Final, StoreAnswer, Scan, GoIdle, GoError, store
<1>9. ASSUME NEW p \in Prompts, Canceller(p) PROVE Survives
    BY <1>9, <1>b, <1>3 DEF Canceller, CancelTake
<1>. QED BY <1>6, <1>7, <1>8, <1>9 DEF Next

\* For any number of prompts, loops and failures: an accepted prompt stays in the
\* messages table, in its own row or in the one it was merged into, unless it is
\* withdrawn or that row goes (pending_queue.rs:1, 346-420).
THEOREM RowsKept == Spec => StoredSurvives
<1>1. IInv /\ [Next]_vars =>
        [\A p \in Stored : reply[p] = "ok" =>
          \/ p \in Stored' \cup Withdrawn'
          \/ \E m \in Prompts : p \in ToSet(row[m]) /\ (run[m] = "undoRow" \/ m \in drop)]_vars
    BY NothingLost DEF Survives
<1>. QED BY <1>1, Starts, Steps, PTL DEF Spec, StoredSurvives
-----------------------------------------------------------------------------
(* The order in which prompts reach the LLM.                                 *)

\* A prompt is queued once, so two prompts are queued in one order.
LEMMA OneOrder ==
    ASSUME queued \in Seq(Prompts), Ordered(queued, Differ(Prompts)), NEW p, NEW q, Before(p, q), Before(q, p)
    PROVE  FALSE
<1>1. DOMAIN queued = 1..Len(queued) /\ Len(queued) \in Nat
    BY LenProperties
<1>2. PICK i, j \in 1..Len(queued) : i < j /\ queued[i] = p /\ queued[j] = q
    BY <1>1 DEF Before
<1>3. PICK k, l \in 1..Len(queued) : k < l /\ queued[k] = q /\ queued[l] = p
    BY <1>1 DEF Before
<1>4. \A x, y \in 1..Len(queued) : x < y => queued[x] # queued[y]
    BY DEF Ordered, Differ
<1>5. i = l /\ j = k
    BY <1>1, <1>2, <1>3, <1>4
<1>. QED BY <1>1, <1>2, <1>3, <1>5

\* The stack grows where a workflow starts with a prompt and where a claim pushes.
LEMMA StackGrows ==
    ASSUME IInv, Next, ~\E p \in Prompts : AppendPrompt(p) \/ Push(p)
    PROVE  OnStack' \subseteq OnStack
<1>1. CASE UNCHANGED stack
    BY <1>1, SameSets
<1>2. CASE DiscardRetain
    <2>. DEFINE E == [id : Prompts, text : Seq(Prompts)]
    <2>1. stack \in Seq(E) /\ TypeOK
        BY DEF IInv, Typed, TypeOK
    <2>. HIDE DEF E
    <2>2. ToSet(stack') \subseteq ToSet(stack)
        BY <1>2, <2>1, KeptProperties DEF DiscardRetain
    <2>3. OnStack = UNION {ToSet(m.text) : m \in ToSet(stack)}
        BY <2>1, StackSets
    <2>4. OnStack' = UNION {ToSet(m.text) : m \in ToSet(stack')}
        BY DEF OnStack, ToSet
    <2>. QED BY <2>2, <2>3, <2>4
<1>3. CASE Stopper
    BY <1>3, <1>1, <1>2 DEF Stopper, Terminate, TerminateIdle, DiscardDrain, DiscardList, DiscardClear, DiscardDelete, store
<1>4. ASSUME NEW p \in Prompts, Sender(p) PROVE OnStack' \subseteq OnStack
    BY <1>4, <1>1 DEF Sender, Decide, Enqueue, InsertRow, ComputeSeq, InsertIndex, UndoRow, UndoMemory, Start, Persist,
                      Place, store
<1>5. ASSUME NEW p \in Prompts, Loop(p) PROVE OnStack' \subseteq OnStack
    BY <1>5, <1>1 DEF Loop, Validate, Claim, Split, TakeIndex, LoadOne, RestoreIndex, Load, Merge, GiveBack, Emit,
                Answer, AnswerError, StoreTools, Tools, Final, StoreAnswer, Scan, GoIdle, GoError, store
<1>6. ASSUME NEW p \in Prompts, Canceller(p) PROVE OnStack' \subseteq OnStack
    BY <1>6, <1>1 DEF Canceller, CancelTake, CancelDelete, CancelDeleteRow
<1>. QED BY <1>3, <1>4, <1>5, <1>6 DEF Next

\* What a claim pushes, or a workflow starts with.
LEMMA StackGains ==
    ASSUME IInv, NEW r \in Prompts, AppendPrompt(r) \/ Push(r)
    PROVE  /\ OnStack' \subseteq OnStack \cup (IF AppendPrompt(r) THEN {r} ELSE Held(r))
           /\ UNCHANGED <<waiting, overtaken, queued>> /\ (faults' = 0 => faults = 0)
<1>. DEFINE E == [id : Prompts, text : Seq(Prompts)]
<1>1. stack \in Seq(E) /\ TypeOK /\ text[r] \in Seq(Prompts) /\ hand[r] \in Seq(Prompts)
    BY DEF IInv, Typed, TypeOK
<1>2. OnStack = UNION {ToSet(m.text) : m \in ToSet(stack)}
    BY <1>1, StackSets
<1>3. OnStack' = UNION {ToSet(m.text) : m \in ToSet(stack')}
    BY DEF OnStack, ToSet
<1>4. ASSUME NEW m \in E, stack' = Append(stack, m) PROVE OnStack' = OnStack \cup ToSet(m.text)
    <2>. HIDE DEF E
    <2>1. ToSet(stack') = ToSet(stack) \cup {m}
        BY <1>1, <1>4, AppendSet
    <2>. QED BY <1>2, <1>3, <2>1
<1>5. UNCHANGED <<waiting, overtaken, queued>> /\ (faults' = 0 => faults = 0)
    <2>1. UNCHANGED <<waiting, overtaken, queued>>
        BY DEF AppendPrompt, Push
    <2>2. UNCHANGED faults \/ Fault
        BY DEF AppendPrompt, Push
    <2>3. faults \in Nat /\ faults' \in 0..MaxFaults /\ faults <= faults'
        BY <1>1, <2>2, FaultBound
    <2>. QED BY <2>1, <2>3
<1>6. CASE AppendPrompt(r)
    <2>. DEFINE new == [id |-> r, text |-> <<r>>]
    <2>1. new \in E /\ stack' = Append(stack, new) /\ ToSet(new.text) = {r}
        BY <1>6, OwnText DEF AppendPrompt
    <2>. HIDE DEF new
    <2>. QED BY <1>4, <1>5, <1>6, <2>1
<1>7. CASE ~AppendPrompt(r) /\ Push(r)
    <2>. DEFINE new == [id |-> Head(hand[r]), text |-> text[r]]
    <2>1. ToSet(text[r]) = Held(r) /\ hand[r] # <<>>
        BY <1>7 DEF Push, IInv, Loaded, Typed, HandTyped, Holding
    <2>2. Head(hand[r]) \in Prompts
        BY <1>1, <2>1, SmallSets
    <2>3. new \in E /\ (stack' = stack \/ stack' = Append(stack, new)) /\ ToSet(new.text) = Held(r)
        BY <1>1, <1>7, <2>1, <2>2 DEF Push
    <2>. HIDE DEF new
    <2>4. stack' = stack => OnStack' = OnStack
        BY SameSets
    <2>. QED BY <1>4, <1>5, <1>7, <2>3, <2>4
<1>. QED BY <1>6, <1>7

\* For any number of prompts, any batch size, any cancels and a terminate: when a
\* prompt reaches the LLM none queued before it is left behind, as long as no
\* claim failed and none was overtaken (pending_queue.rs:274-330).
THEOREM FirstInFirstOut == Spec => FifoClaims
<1>1. IInv /\ [Next]_vars =>
        [faults' = 0 /\ ~overtaken' => \A p \in OnStack' \ OnStack, q \in ToSet(waiting') : ~Before(q, p)]_vars
    <2>. SUFFICES ASSUME IInv, Next, faults' = 0, ~overtaken', NEW p \in OnStack' \ OnStack, NEW q \in ToSet(waiting'),
                         Before(q, p)
                  PROVE  FALSE
        OBVIOUS
    <2>1. PICK r \in Prompts : AppendPrompt(r) \/ Push(r)
        BY StackGrows
    <2>2. /\ UNCHANGED <<waiting, overtaken, queued>> /\ faults = 0 /\ ~overtaken
          /\ p \in (IF AppendPrompt(r) THEN {r} ELSE Held(r))
        BY <2>1, StackGains
    <2>3. queued \in Seq(Prompts) /\ Ordered(queued, Differ(Prompts)) /\ q \in Waits
        BY <2>2 DEF IInv, Typed, TypeOK, Owned, Waits
    <2>4. CASE AppendPrompt(r)
        <3>1. p = r /\ r \notin Queued
            BY <2>2, <2>4 DEF AppendPrompt, IInv, Owned, Queueing
        <3>2. p \in Queued
            BY <2>3, LenProperties DEF Before, Queued, ToSet
        <3>. QED BY <3>1, <3>2
    <2>5. CASE ~AppendPrompt(r)
        <3>1. <<p, q>> \in Earlier
            BY <2>2, <2>3, <2>5 DEF IInv, FifoKept, InOrder
        <3>2. Before(p, q)
            BY <3>1 DEF Earlier
        <3>. QED BY <2>3, <3>2, OneOrder
    <2>. QED BY <2>4, <2>5
<1>. QED BY <1>1, Starts, Steps, PTL DEF Spec, FifoClaims
=============================================================================
