-------------------------- MODULE CompactionProofs --------------------------
(***************************************************************************)
(* Theorems about Compaction, for any number of futures and messages, any   *)
(* retry limits and any number of troubles.  The types are proved in four   *)
(* parts, so that a leaf opens only what its part needs.  The second part   *)
(* proves that a parked workflow is always woken up, that it is woken up    *)
(* once, and that the summary only grows: Ends is the inductive invariant.  *)
(***************************************************************************)
EXTENDS Compaction, FiniteSetTheorems, TLAPS

FlagsTyped ==
    /\ status \in Statuses /\ cancelled \in BOOLEAN /\ asked \in {"none", "expected", "late"}
    /\ phase \in Phases
    /\ crossed \in BOOLEAN /\ overtaken \in BOOLEAN /\ failed \in BOOLEAN
NumbersTyped ==
    /\ first \in 0..MaxMessages /\ last \in 0..MaxMessages
    /\ record \in 0..MaxMessages /\ request \in 0..MaxMessages
    /\ rung \in Rungs /\ retries \in 0..MaxSummaryRetries
    /\ troubles \in 0..MaxTroubles
EmittedTyped == emitted \in [Messages -> Nat]
LocalsTyped ==
    /\ pc \in [Futures -> Points] /\ after \in [Futures -> Points]
    /\ to \in [Futures -> 0..MaxMessages] /\ plan \in [Futures -> Rungs]

AllTyped == FlagsTyped /\ NumbersTyped /\ EmittedTyped /\ LocalsTyped

\* A prompt on the way to the start has room for its message, nobody else is
\* on that way, and no workflow runs that could add a message before it.
LaunchAlone ==
    \A f \in Futures :
        Launching(f) =>
            status # "Busy" /\ last < MaxMessages /\ \A g \in Futures \ {f} : ~Launching(g)
IInv == AllTyped /\ LaunchAlone

\* TypeOK is the four parts.
LEMMA Parts == TypeOK <=> AllTyped
BY DEF TypeOK, AllTyped, FlagsTyped, NumbersTyped, EmittedTyped, LocalsTyped

\* The initial state has its types.
LEMMA InitTyped == Init => TypeOK
<1> SUFFICES ASSUME Init PROVE AllTyped
    BY Parts
<1>1. FlagsTyped
    BY DEF Init, FlagsTyped, Statuses, Phases
<1>2. NumbersTyped
    BY CompactionAssumption DEF Init, NumbersTyped, NoMessage, Rungs, DegradedTools
<1>3. EmittedTyped
    BY DEF Init, EmittedTyped
<1>4. LocalsTyped
    BY CompactionAssumption DEF Init, LocalsTyped, Points, NoMessage, Rungs, DegradedTools
<1> QED
    BY <1>1, <1>2, <1>3, <1>4 DEF AllTyped

\* A future that goes to another await point keeps its types.
LEMMA GotoTyped ==
    ASSUME LocalsTyped, NEW f \in Futures, NEW p \in Points, Goto(f, p), UNCHANGED <<to, plan, after>>
    PROVE  LocalsTyped'
BY DEF LocalsTyped, Goto

\* A future that drops its local variables keeps its types.
LEMMA ProceedTyped ==
    ASSUME LocalsTyped, NEW f \in Futures, NEW p \in Points, Proceed(f, p)
    PROVE  LocalsTyped'
<1>1. "done" \in Points /\ NoMessage \in 0..MaxMessages /\ 0 \in Rungs
    BY CompactionAssumption DEF Points, NoMessage, Rungs, DegradedTools
<1> QED
    BY <1>1 DEF LocalsTyped, Proceed

\* A future that clears the runtime state keeps its types.
LEMMA ClearThenTyped ==
    ASSUME LocalsTyped, NEW f \in Futures, NEW p \in Points, ClearThen(f, p), UNCHANGED <<to, plan>>
    PROVE  LocalsTyped'
<1>1. "clearPhase" \in Points
    BY DEF Points
<1> QED
    BY <1>1 DEF LocalsTyped, ClearThen, Goto

\* A request that goes out is one more to answer.
LEMMA EmitTyped ==
    ASSUME EmittedTyped, NEW b, Emit(b)
    PROVE  EmittedTyped'
<1>1. CASE b \in Messages
    BY <1>1 DEF EmittedTyped, Emit
<1>2. CASE b \notin Messages
    BY <1>2 DEF EmittedTyped, Emit
<1> QED
    BY <1>1, <1>2

\* The await points that the leaves below name.
LEMMA PointsNamed ==
    /\ {"done", "clearPhase", "clearRest", "launch", "wipe", "again", "validate", "prepare"} \subseteq Points
    /\ {"recover", "compact", "begin", "arm", "publish", "fail", "return", "accept"} \subseteq Points
    /\ {"invalid", "persist", "complete", "settle", "errorRead", "errorState"} \subseteq Points
BY DEF Points

\* A step of a future keeps the invariant.
LEMMA LocalKeeps ==
    ASSUME IInv, NEW f \in Futures, Local(f)
    PROVE  IInv'
<1> USE DEF AllTyped, IInv
<1>1. CASE ClearPhase(f)
    <2>1. FlagsTyped'
        BY <1>1 DEF ClearPhase, FlagsTyped, Statuses, Phases, session, runtime, locals, bounds
    <2>2. NumbersTyped'
        BY <1>1, CompactionAssumption DEF ClearPhase, NumbersTyped, Messages, Rungs, NoMessage, DegradedTools,
            Present, session, runtime, locals, bounds
    <2>3. EmittedTyped'
        BY <1>1 DEF ClearPhase, EmittedTyped, session, runtime, locals, bounds
    <2>4. LocalsTyped'
        BY <1>1, PointsNamed, GotoTyped, ProceedTyped, ClearThenTyped DEF ClearPhase, Return, LocalsTyped,
            session, runtime, locals, bounds
    <2>5. LaunchAlone'
        BY <1>1 DEF ClearPhase, Goto, Return, Proceed, ClearThen, LaunchAlone, Launching, LocalsTyped, session,
            runtime, locals, bounds
    <2> QED
        BY <2>1, <2>2, <2>3, <2>4, <2>5
<1>2. CASE ClearRest(f)
    <2>1. FlagsTyped'
        BY <1>2 DEF ClearRest, FlagsTyped, Statuses, Phases, session, runtime, locals, bounds
    <2>2. NumbersTyped'
        BY <1>2, CompactionAssumption DEF ClearRest, NumbersTyped, Messages, Rungs, NoMessage, DegradedTools,
            Present, session, runtime, locals, bounds
    <2>3. EmittedTyped'
        BY <1>2 DEF ClearRest, EmittedTyped, session, runtime, locals, bounds
    <2>4. LocalsTyped'
        BY <1>2, PointsNamed, GotoTyped, ProceedTyped, ClearThenTyped DEF ClearRest, Return, LocalsTyped,
            session, runtime, locals, bounds
    <2>5. LaunchAlone'
        BY <1>2 DEF ClearRest, Goto, Return, Proceed, ClearThen, LaunchAlone, Launching, LocalsTyped, session,
            runtime, locals, bounds
    <2> QED
        BY <2>1, <2>2, <2>3, <2>4, <2>5
<1>3. CASE Launch(f)
    <2>1. FlagsTyped'
        BY <1>3 DEF Launch, FlagsTyped, Statuses, Phases, session, runtime, locals, bounds
    <2>2. NumbersTyped'
        BY <1>3, CompactionAssumption DEF Launch, LaunchAlone, Launching, NumbersTyped, Messages, Rungs,
            NoMessage, DegradedTools, Present, session, runtime, locals, bounds
    <2>3. EmittedTyped'
        BY <1>3 DEF Launch, EmittedTyped, session, runtime, locals, bounds
    <2>4. LocalsTyped'
        BY <1>3, PointsNamed, GotoTyped, ProceedTyped, ClearThenTyped DEF Launch, Return, LocalsTyped, session,
            runtime, locals, bounds
    <2>5. LaunchAlone'
        BY <1>3 DEF Launch, Goto, Return, Proceed, ClearThen, LaunchAlone, Launching, LocalsTyped, session,
            runtime, locals, bounds
    <2> QED
        BY <2>1, <2>2, <2>3, <2>4, <2>5
<1>4. CASE Wipe(f)
    <2>1. FlagsTyped'
        BY <1>4 DEF Wipe, FlagsTyped, Statuses, Phases, session, runtime, locals, bounds
    <2>2. NumbersTyped'
        BY <1>4, CompactionAssumption DEF Wipe, NumbersTyped, Messages, Rungs, NoMessage, DegradedTools, Present,
            session, runtime, locals, bounds
    <2>3. EmittedTyped'
        BY <1>4 DEF Wipe, EmittedTyped, session, runtime, locals, bounds
    <2>4. LocalsTyped'
        BY <1>4, PointsNamed, GotoTyped, ProceedTyped, ClearThenTyped DEF Wipe, Return, LocalsTyped, session,
            runtime, locals, bounds
    <2>5. LaunchAlone'
        BY <1>4 DEF Wipe, Goto, Return, Proceed, ClearThen, LaunchAlone, Launching, LocalsTyped, session,
            runtime, locals, bounds
    <2> QED
        BY <2>1, <2>2, <2>3, <2>4, <2>5
<1>5. CASE ResetAgain(f)
    <2>1. FlagsTyped'
        BY <1>5 DEF ResetAgain, FlagsTyped, Statuses, Phases, session, runtime, locals, bounds
    <2>2. NumbersTyped'
        BY <1>5, CompactionAssumption DEF ResetAgain, NumbersTyped, Messages, Rungs, NoMessage, DegradedTools,
            Present, session, runtime, locals, bounds
    <2>3. EmittedTyped'
        BY <1>5 DEF ResetAgain, EmittedTyped, session, runtime, locals, bounds
    <2>4. LocalsTyped'
        BY <1>5, PointsNamed, GotoTyped, ProceedTyped, ClearThenTyped DEF ResetAgain, Return, LocalsTyped,
            session, runtime, locals, bounds
    <2>5. LaunchAlone'
        BY <1>5 DEF ResetAgain, Goto, Return, Proceed, ClearThen, LaunchAlone, Launching, LocalsTyped, session,
            runtime, locals, bounds
    <2> QED
        BY <2>1, <2>2, <2>3, <2>4, <2>5
<1>6. CASE Validate(f)
    <2>1. FlagsTyped'
        BY <1>6 DEF Validate, FailWorkflow, FlagsTyped, Statuses, Phases, session, runtime, locals, bounds
    <2>2. NumbersTyped'
        BY <1>6, CompactionAssumption DEF Validate, NumbersTyped, Messages, Rungs, NoMessage, DegradedTools,
            Present, session, runtime, locals, bounds
    <2>3. EmittedTyped'
        BY <1>6 DEF Validate, EmittedTyped, session, runtime, locals, bounds
    <2>4. LocalsTyped'
        BY <1>6, PointsNamed, GotoTyped, ProceedTyped, ClearThenTyped DEF Validate, Return, FailWorkflow,
            LocalsTyped, session, runtime, locals, bounds
    <2>5. LaunchAlone'
        BY <1>6 DEF Validate, FailWorkflow, Goto, Return, Proceed, ClearThen, LaunchAlone, Launching,
            LocalsTyped, session, runtime, locals, bounds
    <2> QED
        BY <2>1, <2>2, <2>3, <2>4, <2>5
<1>7. CASE SendRequest(f)
    <2>1. FlagsTyped'
        BY <1>7 DEF SendRequest, FlagsTyped, Statuses, Phases, session, runtime, locals, bounds
    <2>2. NumbersTyped'
        BY <1>7, CompactionAssumption DEF SendRequest, NumbersTyped, Messages, Rungs, NoMessage, DegradedTools,
            Present, session, runtime, locals, bounds
    <2>3. EmittedTyped'
        BY <1>7 DEF SendRequest, EmittedTyped, session, runtime, locals, bounds
    <2>4. LocalsTyped'
        BY <1>7, PointsNamed, GotoTyped, ProceedTyped, ClearThenTyped DEF SendRequest, Return, LocalsTyped,
            session, runtime, locals, bounds
    <2>5. LaunchAlone'
        BY <1>7 DEF SendRequest, Goto, Return, Proceed, ClearThen, LaunchAlone, Launching, LocalsTyped, session,
            runtime, locals, bounds
    <2> QED
        BY <2>1, <2>2, <2>3, <2>4, <2>5
<1>8. CASE NothingToCompact(f)
    <2>1. FlagsTyped'
        BY <1>8 DEF NothingToCompact, FailWorkflow, FlagsTyped, Statuses, Phases, session, runtime, locals, bounds
    <2>2. NumbersTyped'
        BY <1>8, CompactionAssumption DEF NothingToCompact, NumbersTyped, Messages, Rungs, NoMessage,
            DegradedTools, Present, session, runtime, locals, bounds
    <2>3. EmittedTyped'
        BY <1>8 DEF NothingToCompact, EmittedTyped, session, runtime, locals, bounds
    <2>4. LocalsTyped'
        BY <1>8, PointsNamed, GotoTyped, ProceedTyped, ClearThenTyped DEF NothingToCompact, Return, FailWorkflow,
            LocalsTyped, session, runtime, locals, bounds
    <2>5. LaunchAlone'
        BY <1>8 DEF NothingToCompact, FailWorkflow, Goto, Return, Proceed, ClearThen, LaunchAlone, Launching,
            LocalsTyped, session, runtime, locals, bounds
    <2> QED
        BY <2>1, <2>2, <2>3, <2>4, <2>5
<1>9. CASE SelectSplit(f)
    <2>1. FlagsTyped'
        BY <1>9 DEF SelectSplit, FlagsTyped, Statuses, Phases, session, runtime, locals, bounds
    <2>2. NumbersTyped'
        BY <1>9, CompactionAssumption DEF SelectSplit, NumbersTyped, Messages, Rungs, NoMessage, DegradedTools,
            Present, session, runtime, locals, bounds
    <2>3. EmittedTyped'
        BY <1>9 DEF SelectSplit, EmittedTyped, session, runtime, locals, bounds
    <2>4. LocalsTyped'
        BY <1>9, PointsNamed, CompactionAssumption DEF SelectSplit, Goto, LocalsTyped, NumbersTyped, Messages,
            Present, Rungs, NoMessage, session, runtime, locals, bounds
    <2>5. LaunchAlone'
        BY <1>9 DEF SelectSplit, Goto, Return, Proceed, ClearThen, LaunchAlone, Launching, LocalsTyped, session,
            runtime, locals, bounds
    <2> QED
        BY <2>1, <2>2, <2>3, <2>4, <2>5
<1>10. CASE TryBegin(f)
    <2>1. FlagsTyped'
        BY <1>10 DEF TryBegin, FlagsTyped, Statuses, Phases, session, runtime, locals, bounds
    <2>2. NumbersTyped'
        BY <1>10, CompactionAssumption DEF TryBegin, NumbersTyped, Messages, Rungs, NoMessage, DegradedTools,
            Present, session, runtime, locals, bounds
    <2>3. EmittedTyped'
        BY <1>10 DEF TryBegin, EmittedTyped, session, runtime, locals, bounds
    <2>4. LocalsTyped'
        BY <1>10, PointsNamed, GotoTyped, ProceedTyped, ClearThenTyped DEF TryBegin, Return, LocalsTyped,
            session, runtime, locals, bounds
    <2>5. LaunchAlone'
        BY <1>10 DEF TryBegin, Goto, Return, Proceed, ClearThen, LaunchAlone, Launching, LocalsTyped, session,
            runtime, locals, bounds
    <2> QED
        BY <2>1, <2>2, <2>3, <2>4, <2>5
<1>11. CASE Arm(f)
    <2>1. FlagsTyped'
        BY <1>11 DEF Arm, FlagsTyped, Statuses, Phases, session, runtime, locals, bounds
    <2>2. NumbersTyped'
        BY <1>11, CompactionAssumption DEF Arm, NumbersTyped, Messages, Rungs, NoMessage, DegradedTools, Present,
            session, runtime, locals, bounds
    <2>3. EmittedTyped'
        BY <1>11 DEF Arm, EmittedTyped, session, runtime, locals, bounds
    <2>4. LocalsTyped'
        BY <1>11, PointsNamed, GotoTyped, ProceedTyped, ClearThenTyped DEF Arm, Return, LocalsTyped, session,
            runtime, locals, bounds
    <2>5. LaunchAlone'
        BY <1>11 DEF Arm, Goto, Return, Proceed, ClearThen, LaunchAlone, Launching, LocalsTyped, session,
            runtime, locals, bounds
    <2> QED
        BY <2>1, <2>2, <2>3, <2>4, <2>5
<1>12. CASE Publish(f)
    <2>1. FlagsTyped'
        BY <1>12 DEF Publish, Trouble, FlagsTyped, Statuses, Phases, session, runtime, locals, bounds
    <2>2. NumbersTyped'
        BY <1>12, CompactionAssumption DEF Publish, LocalsTyped, Trouble, NumbersTyped, Messages, Rungs,
            NoMessage, DegradedTools, Present, session, runtime, locals, bounds
    <2>3. EmittedTyped'
        BY <1>12, EmitTyped DEF Publish, EmittedTyped
    <2>4. LocalsTyped'
        BY <1>12, PointsNamed, GotoTyped, ProceedTyped, ClearThenTyped DEF Publish, Return, LocalsTyped, session,
            runtime, locals, bounds
    <2>5. LaunchAlone'
        BY <1>12 DEF Publish, Goto, Return, Proceed, ClearThen, LaunchAlone, Launching, LocalsTyped, session,
            runtime, locals, bounds
    <2> QED
        BY <2>1, <2>2, <2>3, <2>4, <2>5
<1>13. CASE Fail(f)
    <2>1. FlagsTyped'
        BY <1>13 DEF Fail, FailWorkflow, FlagsTyped, Statuses, Phases, session, runtime, locals, bounds
    <2>2. NumbersTyped'
        BY <1>13, CompactionAssumption DEF Fail, NumbersTyped, Messages, Rungs, NoMessage, DegradedTools,
            Present, session, runtime, locals, bounds
    <2>3. EmittedTyped'
        BY <1>13 DEF Fail, EmittedTyped, session, runtime, locals, bounds
    <2>4. LocalsTyped'
        BY <1>13, PointsNamed, GotoTyped, ProceedTyped, ClearThenTyped DEF Fail, Return, FailWorkflow,
            LocalsTyped, session, runtime, locals, bounds
    <2>5. LaunchAlone'
        BY <1>13 DEF Fail, FailWorkflow, Goto, Return, Proceed, ClearThen, LaunchAlone, Launching, LocalsTyped,
            session, runtime, locals, bounds
    <2> QED
        BY <2>1, <2>2, <2>3, <2>4, <2>5
<1>14. CASE Accept(f)
    <2>1. FlagsTyped'
        BY <1>14 DEF Accept, FlagsTyped, Statuses, Phases, session, runtime, locals, bounds
    <2>2. NumbersTyped'
        BY <1>14, CompactionAssumption DEF Accept, NumbersTyped, Messages, Rungs, NoMessage, DegradedTools,
            Present, session, runtime, locals, bounds
    <2>3. EmittedTyped'
        BY <1>14 DEF Accept, EmittedTyped, session, runtime, locals, bounds
    <2>4. LocalsTyped'
        BY <1>14, PointsNamed, GotoTyped, ProceedTyped, ClearThenTyped DEF Accept, Return, LocalsTyped, session,
            runtime, locals, bounds
    <2>5. LaunchAlone'
        BY <1>14 DEF Accept, Goto, Return, Proceed, ClearThen, LaunchAlone, Launching, LocalsTyped, session,
            runtime, locals, bounds
    <2> QED
        BY <2>1, <2>2, <2>3, <2>4, <2>5
<1>15. CASE RetrySummary(f)
    <2>1. FlagsTyped'
        BY <1>15 DEF RetrySummary, Trouble, FlagsTyped, Statuses, Phases, session, runtime, locals, bounds
    <2>2. NumbersTyped'
        BY <1>15, CompactionAssumption DEF RetrySummary, Trouble, NumbersTyped, Messages, Rungs, NoMessage,
            DegradedTools, Present, session, runtime, locals, bounds
    <2>3. EmittedTyped'
        BY <1>15, EmitTyped DEF RetrySummary, EmittedTyped
    <2>4. LocalsTyped'
        BY <1>15, PointsNamed, GotoTyped, ProceedTyped, ClearThenTyped DEF RetrySummary, Return, LocalsTyped,
            session, runtime, locals, bounds
    <2>5. LaunchAlone'
        BY <1>15 DEF RetrySummary, Goto, Return, Proceed, ClearThen, LaunchAlone, Launching, LocalsTyped,
            session, runtime, locals, bounds
    <2> QED
        BY <2>1, <2>2, <2>3, <2>4, <2>5
<1>16. CASE Persist(f)
    <2>1. FlagsTyped'
        BY <1>16 DEF Persist, Trouble, FlagsTyped, Statuses, Phases, session, runtime, locals, bounds
    <2>2. NumbersTyped'
        BY <1>16, CompactionAssumption DEF Persist, LocalsTyped, Trouble, NumbersTyped, Messages, Rungs,
            NoMessage, DegradedTools, Present, session, runtime, locals, bounds
    <2>3. EmittedTyped'
        BY <1>16 DEF Persist, EmittedTyped, session, runtime, locals, bounds
    <2>4. LocalsTyped'
        BY <1>16, PointsNamed, GotoTyped, ProceedTyped, ClearThenTyped DEF Persist, Return, LocalsTyped, session,
            runtime, locals, bounds
    <2>5. LaunchAlone'
        BY <1>16 DEF Persist, Goto, Return, Proceed, ClearThen, LaunchAlone, Launching, LocalsTyped, session,
            runtime, locals, bounds
    <2> QED
        BY <2>1, <2>2, <2>3, <2>4, <2>5
<1>17. CASE Complete(f)
    <2>1. FlagsTyped'
        BY <1>17 DEF Complete, FlagsTyped, Statuses, Phases, session, runtime, locals, bounds
    <2>2. NumbersTyped'
        BY <1>17, CompactionAssumption DEF Complete, NumbersTyped, Messages, Rungs, NoMessage, DegradedTools,
            Present, session, runtime, locals, bounds
    <2>3. EmittedTyped'
        BY <1>17 DEF Complete, EmittedTyped, session, runtime, locals, bounds
    <2>4. LocalsTyped'
        BY <1>17, PointsNamed, GotoTyped, ProceedTyped, ClearThenTyped DEF Complete, Return, LocalsTyped,
            session, runtime, locals, bounds
    <2>5. LaunchAlone'
        BY <1>17 DEF Complete, Goto, Return, Proceed, ClearThen, LaunchAlone, Launching, LocalsTyped, session,
            runtime, locals, bounds
    <2> QED
        BY <2>1, <2>2, <2>3, <2>4, <2>5
<1>18. CASE Settle(f)
    <2>1. FlagsTyped'
        BY <1>18 DEF Settle, FlagsTyped, Statuses, Phases, session, runtime, locals, bounds
    <2>2. NumbersTyped'
        BY <1>18, CompactionAssumption DEF Settle, NumbersTyped, Messages, Rungs, NoMessage, DegradedTools,
            Present, session, runtime, locals, bounds
    <2>3. EmittedTyped'
        BY <1>18 DEF Settle, EmittedTyped, session, runtime, locals, bounds
    <2>4. LocalsTyped'
        BY <1>18, PointsNamed, GotoTyped, ProceedTyped, ClearThenTyped DEF Settle, Return, LocalsTyped, session,
            runtime, locals, bounds
    <2>5. LaunchAlone'
        BY <1>18 DEF Settle, Goto, Return, Proceed, ClearThen, LaunchAlone, Launching, LocalsTyped, session,
            runtime, locals, bounds
    <2> QED
        BY <2>1, <2>2, <2>3, <2>4, <2>5
<1>19. CASE ErrorTooLong(f)
    <2>1. FlagsTyped'
        BY <1>19 DEF ErrorTooLong, FlagsTyped, Statuses, Phases, session, runtime, locals, bounds
    <2>2. NumbersTyped'
        BY <1>19, CompactionAssumption DEF ErrorTooLong, NumbersTyped, Messages, Rungs, NoMessage, DegradedTools,
            Present, session, runtime, locals, bounds
    <2>3. EmittedTyped'
        BY <1>19 DEF ErrorTooLong, EmittedTyped, session, runtime, locals, bounds
    <2>4. LocalsTyped'
        BY <1>19, PointsNamed, GotoTyped, ProceedTyped, ClearThenTyped DEF ErrorTooLong, Return, LocalsTyped,
            session, runtime, locals, bounds
    <2>5. LaunchAlone'
        BY <1>19 DEF ErrorTooLong, Goto, Return, Proceed, ClearThen, LaunchAlone, Launching, LocalsTyped,
            session, runtime, locals, bounds
    <2> QED
        BY <2>1, <2>2, <2>3, <2>4, <2>5
<1>20. CASE ErrorFallback(f)
    <2>1. FlagsTyped'
        BY <1>20 DEF ErrorFallback, FlagsTyped, Statuses, Phases, session, runtime, locals, bounds
    <2>2. NumbersTyped'
        BY <1>20, CompactionAssumption DEF ErrorFallback, NumbersTyped, Messages, Rungs, NoMessage,
            DegradedTools, Present, session, runtime, locals, bounds
    <2>3. EmittedTyped'
        BY <1>20 DEF ErrorFallback, EmittedTyped, session, runtime, locals, bounds
    <2>4. LocalsTyped'
        BY <1>20, PointsNamed, CompactionAssumption DEF ErrorFallback, Goto, LocalsTyped, NumbersTyped, Messages,
            Present, Rungs, NoMessage, session, runtime, locals, bounds
    <2>5. LaunchAlone'
        BY <1>20 DEF ErrorFallback, Goto, Return, Proceed, ClearThen, LaunchAlone, Launching, LocalsTyped,
            session, runtime, locals, bounds
    <2> QED
        BY <2>1, <2>2, <2>3, <2>4, <2>5
<1>21. CASE ErrorOther(f)
    <2>1. FlagsTyped'
        BY <1>21 DEF ErrorOther, FlagsTyped, Statuses, Phases, session, runtime, locals, bounds
    <2>2. NumbersTyped'
        BY <1>21, CompactionAssumption DEF ErrorOther, NumbersTyped, Messages, Rungs, NoMessage, DegradedTools,
            Present, session, runtime, locals, bounds
    <2>3. EmittedTyped'
        BY <1>21 DEF ErrorOther, EmittedTyped, session, runtime, locals, bounds
    <2>4. LocalsTyped'
        BY <1>21, PointsNamed, GotoTyped, ProceedTyped, ClearThenTyped DEF ErrorOther, Return, LocalsTyped,
            session, runtime, locals, bounds
    <2>5. LaunchAlone'
        BY <1>21 DEF ErrorOther, Goto, Return, Proceed, ClearThen, LaunchAlone, Launching, LocalsTyped, session,
            runtime, locals, bounds
    <2> QED
        BY <2>1, <2>2, <2>3, <2>4, <2>5
<1>22. CASE ErrorState(f)
    <2>1. FlagsTyped'
        BY <1>22 DEF ErrorState, FlagsTyped, Statuses, Phases, session, runtime, locals, bounds
    <2>2. NumbersTyped'
        BY <1>22, CompactionAssumption DEF ErrorState, NumbersTyped, Messages, Rungs, NoMessage, DegradedTools,
            Present, session, runtime, locals, bounds
    <2>3. EmittedTyped'
        BY <1>22 DEF ErrorState, EmittedTyped, session, runtime, locals, bounds
    <2>4. LocalsTyped'
        BY <1>22, PointsNamed, GotoTyped, ProceedTyped, ClearThenTyped DEF ErrorState, Return, LocalsTyped,
            session, runtime, locals, bounds
    <2>5. LaunchAlone'
        BY <1>22 DEF ErrorState, Goto, Return, Proceed, ClearThen, LaunchAlone, Launching, LocalsTyped, session,
            runtime, locals, bounds
    <2> QED
        BY <2>1, <2>2, <2>3, <2>4, <2>5
<1>23. CASE ErrorReturn(f)
    <2>1. FlagsTyped'
        BY <1>23 DEF ErrorReturn, FlagsTyped, Statuses, Phases, session, runtime, locals, bounds
    <2>2. NumbersTyped'
        BY <1>23, CompactionAssumption DEF ErrorReturn, NumbersTyped, Messages, Rungs, NoMessage, DegradedTools,
            Present, session, runtime, locals, bounds
    <2>3. EmittedTyped'
        BY <1>23 DEF ErrorReturn, EmittedTyped, session, runtime, locals, bounds
    <2>4. LocalsTyped'
        BY <1>23, PointsNamed, GotoTyped, ProceedTyped, ClearThenTyped DEF ErrorReturn, Return, LocalsTyped,
            session, runtime, locals, bounds
    <2>5. LaunchAlone'
        BY <1>23 DEF ErrorReturn, Goto, Return, Proceed, ClearThen, LaunchAlone, Launching, LocalsTyped, session,
            runtime, locals, bounds
    <2> QED
        BY <2>1, <2>2, <2>3, <2>4, <2>5
<1> QED
    BY <1>1, <1>2, <1>3, <1>4, <1>5, <1>6, <1>7, <1>8, <1>9, <1>10, <1>11, <1>12, <1>13, <1>14, <1>15, <1>16,
        <1>17, <1>18, <1>19, <1>20, <1>21, <1>22, <1>23 DEF Local

\* A command, an answer or a report keeps the invariant.
LEMMA CommandKeeps ==
    ASSUME IInv, NEW f \in Futures, Llm(f) \/ Frontend(f) \/ Client(f)
    PROVE  IInv'
<1> USE DEF AllTyped, IInv
<1>1. CASE LlmAnswer(f)
    <2>1. FlagsTyped'
        BY <1>1 DEF LlmAnswer, FlagsTyped, Statuses, Phases, session, runtime, locals, bounds
    <2>2. NumbersTyped'
        BY <1>1, CompactionAssumption DEF LlmAnswer, NumbersTyped, Messages, Rungs, NoMessage, DegradedTools,
            Present, session, runtime, locals, bounds
    <2>3. EmittedTyped'
        BY <1>1 DEF LlmAnswer, EmittedTyped, session, runtime, locals, bounds
    <2>4. LocalsTyped'
        BY <1>1, PointsNamed, GotoTyped, ProceedTyped, ClearThenTyped DEF LlmAnswer, Return, LocalsTyped,
            session, runtime, locals, bounds
    <2>5. LaunchAlone'
        BY <1>1 DEF LlmAnswer, Goto, Return, Proceed, ClearThen, LaunchAlone, Launching, LocalsTyped, session,
            runtime, locals, bounds
    <2> QED
        BY <2>1, <2>2, <2>3, <2>4, <2>5
<1>2. CASE LlmTooLong(f)
    <2>1. FlagsTyped'
        BY <1>2 DEF LlmTooLong, FlagsTyped, Statuses, Phases, session, runtime, locals, bounds
    <2>2. NumbersTyped'
        BY <1>2, CompactionAssumption DEF LlmTooLong, NumbersTyped, Messages, Rungs, NoMessage, DegradedTools,
            Present, session, runtime, locals, bounds
    <2>3. EmittedTyped'
        BY <1>2 DEF LlmTooLong, EmittedTyped, session, runtime, locals, bounds
    <2>4. LocalsTyped'
        BY <1>2, PointsNamed, GotoTyped, ProceedTyped, ClearThenTyped DEF LlmTooLong, Return, LocalsTyped,
            session, runtime, locals, bounds
    <2>5. LaunchAlone'
        BY <1>2 DEF LlmTooLong, Goto, Return, Proceed, ClearThen, LaunchAlone, Launching, LocalsTyped, session,
            runtime, locals, bounds
    <2> QED
        BY <2>1, <2>2, <2>3, <2>4, <2>5
<1>3. CASE Start(f)
    <2>1. FlagsTyped'
        BY <1>3 DEF Start, Trouble, FlagsTyped, Statuses, Phases, session, runtime, locals, bounds
    <2>2. NumbersTyped'
        BY <1>3, CompactionAssumption DEF Start, Trouble, NumbersTyped, Messages, Rungs, NoMessage,
            DegradedTools, Present, session, runtime, locals, bounds
    <2>3. EmittedTyped'
        BY <1>3 DEF Start, EmittedTyped, session, runtime, locals, bounds
    <2>4. LocalsTyped'
        BY <1>3, PointsNamed, GotoTyped, ProceedTyped, ClearThenTyped DEF Start, Return, LocalsTyped, session,
            runtime, locals, bounds
    <2>5. LaunchAlone'
        BY <1>3 DEF Start, Goto, Return, Proceed, ClearThen, LaunchAlone, Launching, LocalsTyped, session,
            runtime, locals, bounds
    <2> QED
        BY <2>1, <2>2, <2>3, <2>4, <2>5
<1>4. CASE Reset(f)
    <2>1. FlagsTyped'
        BY <1>4 DEF Reset, FlagsTyped, Statuses, Phases, session, runtime, locals, bounds
    <2>2. NumbersTyped'
        BY <1>4, CompactionAssumption DEF Reset, NumbersTyped, Messages, Rungs, NoMessage, DegradedTools,
            Present, session, runtime, locals, bounds
    <2>3. EmittedTyped'
        BY <1>4 DEF Reset, EmittedTyped, session, runtime, locals, bounds
    <2>4. LocalsTyped'
        BY <1>4, PointsNamed, GotoTyped, ProceedTyped, ClearThenTyped DEF Reset, Return, LocalsTyped, session,
            runtime, locals, bounds
    <2>5. LaunchAlone'
        BY <1>4 DEF Reset, Goto, Return, Proceed, ClearThen, LaunchAlone, Launching, LocalsTyped, session,
            runtime, locals, bounds
    <2> QED
        BY <2>1, <2>2, <2>3, <2>4, <2>5
<1>5. CASE CompactSession(f)
    <2>1. FlagsTyped'
        BY <1>5 DEF CompactSession, Trouble, FlagsTyped, Statuses, Phases, session, runtime, locals, bounds
    <2>2. NumbersTyped'
        BY <1>5, CompactionAssumption DEF CompactSession, Trouble, NumbersTyped, Messages, Rungs, NoMessage,
            DegradedTools, Present, session, runtime, locals, bounds
    <2>3. EmittedTyped'
        BY <1>5 DEF CompactSession, EmittedTyped, session, runtime, locals, bounds
    <2>4. LocalsTyped'
        BY <1>5, PointsNamed, GotoTyped, ProceedTyped, ClearThenTyped DEF CompactSession, Return, LocalsTyped,
            session, runtime, locals, bounds
    <2>5. LaunchAlone'
        BY <1>5 DEF CompactSession, Goto, Return, Proceed, ClearThen, LaunchAlone, Launching, LocalsTyped,
            session, runtime, locals, bounds
    <2> QED
        BY <2>1, <2>2, <2>3, <2>4, <2>5
<1>6. ASSUME NEW b \in Messages, Respond(f, b) PROVE IInv'
    <2>1. FlagsTyped'
        BY <1>6 DEF Respond, FlagsTyped, Statuses, Phases, session, runtime, locals, bounds
    <2>2. NumbersTyped'
        BY <1>6, CompactionAssumption DEF Respond, NumbersTyped, Messages, Rungs, NoMessage, DegradedTools,
            Present, session, runtime, locals, bounds
    <2>3. EmittedTyped'
        BY <1>6 DEF Respond, EmittedTyped, Messages
    <2>4. LocalsTyped'
        BY <1>6, PointsNamed, CompactionAssumption DEF Respond, Goto, LocalsTyped, NumbersTyped, Messages,
            Present, Rungs, NoMessage, session, runtime, locals, bounds
    <2>5. LaunchAlone'
        BY <1>6 DEF Respond, Goto, Return, Proceed, ClearThen, LaunchAlone, Launching, LocalsTyped, session,
            runtime, locals, bounds
    <2> QED
        BY <2>1, <2>2, <2>3, <2>4, <2>5
<1>7. ASSUME NEW b \in Messages, ReportError(f, b) PROVE IInv'
    <2>1. FlagsTyped'
        BY <1>7 DEF ReportError, FlagsTyped, Statuses, Phases, session, runtime, locals, bounds
    <2>2. NumbersTyped'
        BY <1>7, CompactionAssumption DEF ReportError, NumbersTyped, Messages, Rungs, NoMessage, DegradedTools,
            Present, session, runtime, locals, bounds
    <2>3. EmittedTyped'
        BY <1>7 DEF ReportError, EmittedTyped, Messages
    <2>4. LocalsTyped'
        BY <1>7, PointsNamed, GotoTyped, ProceedTyped, ClearThenTyped DEF ReportError, Return, LocalsTyped,
            session, runtime, locals, bounds
    <2>5. LaunchAlone'
        BY <1>7 DEF ReportError, Goto, Return, Proceed, ClearThen, LaunchAlone, Launching, LocalsTyped, session,
            runtime, locals, bounds
    <2> QED
        BY <2>1, <2>2, <2>3, <2>4, <2>5
<1> QED
    BY <1>1, <1>2, <1>3, <1>4, <1>5, <1>6, <1>7 DEF Llm, Frontend, Client

\* The invariant holds at the start.
LEMMA InitInvariant == Init => IInv
BY InitTyped, Parts DEF IInv, LaunchAlone, Launching, Init

\* Every step keeps the invariant.
LEMMA InvariantKept == IInv /\ [Next]_vars => IInv'
<1> SUFFICES ASSUME IInv, [Next]_vars PROVE IInv'
    OBVIOUS
<1>1. CASE Stop
    <2> USE <1>1 DEF Stop, IInv, AllTyped, runtime, locals, bounds
    <2>1. FlagsTyped'
        BY DEF FlagsTyped, Statuses
    <2>2. NumbersTyped' /\ EmittedTyped' /\ LocalsTyped'
        BY DEF NumbersTyped, EmittedTyped, LocalsTyped
    <2>3. LaunchAlone'
        BY DEF LaunchAlone, Launching
    <2> QED
        BY <2>1, <2>2, <2>3
<1>2. ASSUME NEW f \in Futures, Local(f) PROVE IInv'
    BY <1>2, LocalKeeps
<1>3. ASSUME NEW f \in Futures, Llm(f) \/ Frontend(f) \/ Client(f) PROVE IInv'
    BY <1>3, CommandKeeps
<1>4. CASE UNCHANGED vars
    <2> USE <1>4 DEF vars, session, runtime, locals, bounds
    <2>1. AllTyped'
        BY DEF IInv, AllTyped, FlagsTyped, NumbersTyped, EmittedTyped, LocalsTyped
    <2>2. LaunchAlone'
        BY DEF IInv, LaunchAlone, Launching
    <2> QED
        BY <2>1, <2>2 DEF IInv
<1> QED
    BY <1>1, <1>2, <1>3, <1>4 DEF Next

\* Every variable keeps its type: the ladder ends at DegradedTools, and a
\* summary is asked for again at most MAX_COMPACTION_SUMMARY_RETRY_ATTEMPTS times.
THEOREM Typed == Spec => []TypeOK
<1>1. IInv => TypeOK
    BY Parts DEF IInv
<1> QED
    BY <1>1, InitInvariant, InvariantKept, PTL DEF Spec
-----------------------------------------------------------------------------
Clearing(f) == pc[f] \in {"clearPhase", "clearRest"}

\* The local variables at each await point.
OwnPlans ==
    \A f \in Futures :
        /\ pc[f] \in {"begin", "publish"} => after[f] \in {"fail", "return"}
        /\ pc[f] = "arm" => after[f] = "fail"
        /\ Clearing(f) => after[f] \in {"launch", "again", "validate", "fail", "return"}
        /\ pc[f] \in {"accept", "invalid"} => after[f] = "errorRead"
        /\ pc[f] = "persist" => after[f] \in {"errorRead", "return"}
        /\ pc[f] \in {"begin", "publish", "accept", "invalid", "persist"} => to[f] \in Messages

\* Unless one compaction began in the middle of the end of another: the phase
\* stays Idle between the two halves of a clear, and a compaction that has begun
\* and is not published yet has no request and nobody at the end of another.
Apart == ~crossed =>
    \A f \in Futures :
        /\ pc[f] = "clearRest" => phase = "idle"
        /\ pc[f] = "publish" => request = NoMessage
        /\ pc[f] = "publish" =>
            \A g \in Futures \ {f} : pc[g] \notin {"publish", "invalid", "persist", "complete", "settle"}

\* The messages that exist are messages.
LEMMA PresentMessages ==
    ASSUME NumbersTyped
    PROVE  Present \subseteq Messages
BY CompactionAssumption DEF NumbersTyped, Present, Messages

\* A compaction that begins while no other is being ended.
LEMMA BeginsApart ==
    ASSUME NEW f \in Futures, TryBegin(f), ~crossed'
    PROVE  ~crossed /\ (phase = "idle" => \A g \in Futures : pc[g] \notin Finishing)
BY DEF TryBegin

\* A compaction that wakes nobody is under way.
Manual(f) == pc[f] = "compact" \/ (pc[f] \in {"begin", "publish"} /\ ~Wakes(f))
NoManual == phase # "manual" /\ \A f \in Futures : ~Manual(f)

\* Something has failed.
Erring(f) ==
    \/ pc[f] \in {"errorRead", "errorState", "return"}
    \/ Clearing(f) /\ after[f] \in {"validate", "fail", "return"}
    \/ pc[f] = "persist" /\ after[f] = "return"
NoErrors == \A f \in Futures : ~Erring(f)

\* A manual compaction is a trouble, and so is an error unless the frontend
\* reported it: who has both is excused.
Paid ==
    /\ NoManual \/ troubles > 0
    /\ NoErrors \/ failed \/ troubles > 0
    /\ NoManual \/ NoErrors \/ Excused

\* The phase that a clear which wakes nobody will clear is Idle already.
ReturnsIdle ==
    \A f \in Futures : pc[f] = "clearPhase" /\ after[f] = "return" => phase = "idle" \/ Excused

\* Somebody is going to end the compaction.
Carrier(f) ==
    \/ pc[f] \in {"publish", "invalid", "persist", "complete", "settle", "errorRead", "errorState", "clearPhase"}
    \/ pc[f] = "accept" /\ to[f] = request
Carried ==
    phase # "idle" =>
        \/ Excused
        \/ request # NoMessage /\ emitted[request] > 0
        \/ \E f \in Futures : Carrier(f)

\* A Busy session is not cancelled, and somebody is going to take its next turn.
Turns(f) ==
    \/ pc[f] \in {"validate", "prepare", "recover", "arm", "fail", "wipe", "again"}
    \/ pc[f] = "begin" /\ Wakes(f)
    \/ Clearing(f) /\ after[f] \in {"validate", "fail", "again"}
Live ==
    status = "Busy" =>
        /\ ~cancelled
        /\ \/ Excused
           \/ asked = "expected"
           \/ phase = "preflight"
           \/ \E f \in Futures : Turns(f)

\* Two troubles, or one and an error of the frontend, are two.
LEMMA CountedTroubles ==
    ASSUME NEW n \in Nat, NEW b
    PROVE  (b /\ n > 0) \/ n > 1 => n + (IF b THEN 1 ELSE 0) > 1
<1>1. CASE b
    BY <1>1
<1>2. CASE ~b
    BY <1>2
<1> QED
    BY <1>1, <1>2

\* What excuses a run is never taken back.
LEMMA ExcusesStay ==
    ASSUME AllTyped, [Next]_vars
    PROVE  /\ troubles' \in Nat /\ troubles' >= troubles
           /\ failed => failed'
           /\ crossed => crossed'
           /\ Excused => Excused'
           /\ (failed' /\ troubles' > 0) \/ troubles' > 1 => Excused'
           /\ ~Excused => ~crossed
<1>1. troubles' \in Nat /\ troubles' >= troubles
    <2> USE DEF session, runtime, locals, bounds, AllTyped, NumbersTyped
    <2>1. ASSUME NEW f \in Futures, Local(f) PROVE troubles' = troubles \/ Trouble
        BY <2>1 DEF Local, ClearPhase, ClearRest, Launch, Wipe, ResetAgain, Validate, SendRequest,
            NothingToCompact, SelectSplit, TryBegin, Arm, Publish, Fail, Accept, RetrySummary, Persist, Complete,
            Settle, ErrorTooLong, ErrorFallback, ErrorOther, ErrorState, ErrorReturn
    <2>2. ASSUME NEW f \in Futures, Llm(f) \/ Frontend(f) \/ Client(f) PROVE troubles' = troubles \/ Trouble
        BY <2>2 DEF Llm, LlmAnswer, LlmTooLong, Frontend, Respond, ReportError, Client, Start, Reset, CompactSession
    <2>3. troubles' = troubles \/ Trouble
        BY <2>1, <2>2 DEF Next, Stop, vars
    <2> QED
        BY <2>3, CompactionAssumption DEF Trouble
<1>2. failed => failed'
    <2>1. ASSUME NEW f \in Futures, Local(f) PROVE failed' = failed
        BY <2>1 DEF Local, ClearPhase, ClearRest, Launch, Wipe, ResetAgain, Validate, SendRequest,
            NothingToCompact, SelectSplit, TryBegin, Arm, Publish, Fail, Accept, RetrySummary, Persist, Complete,
            Settle, ErrorTooLong, ErrorFallback, ErrorOther, ErrorState, ErrorReturn, bounds
    <2>2. ASSUME NEW f \in Futures, Llm(f) \/ Frontend(f) \/ Client(f) PROVE failed' = failed \/ failed' = TRUE
        BY <2>2 DEF Llm, LlmAnswer, LlmTooLong, Frontend, Respond, ReportError, Client, Start, Reset,
            CompactSession, bounds
    <2> QED
        BY <2>1, <2>2 DEF Next, Stop, vars, bounds
<1>3. crossed => crossed'
    <2>1. ASSUME NEW f \in Futures, Local(f) PROVE crossed' = crossed \/ TryBegin(f)
        BY <2>1 DEF Local, ClearPhase, ClearRest, Launch, Wipe, ResetAgain, Validate, SendRequest,
            NothingToCompact, SelectSplit, Arm, Publish, Fail, Accept, RetrySummary, Persist, Complete,
            Settle, ErrorTooLong, ErrorFallback, ErrorOther, ErrorState, ErrorReturn, bounds
    <2>2. ASSUME NEW f \in Futures, TryBegin(f), crossed PROVE crossed'
        BY <2>2 DEF TryBegin
    <2>3. ASSUME NEW f \in Futures, Llm(f) \/ Frontend(f) \/ Client(f) PROVE crossed' = crossed
        BY <2>3 DEF Llm, LlmAnswer, LlmTooLong, Frontend, Respond, ReportError, Client, Start, Reset,
            CompactSession, bounds
    <2> QED
        BY <2>1, <2>2, <2>3 DEF Next, Stop, vars, bounds
<1>4. troubles \in Nat
    BY DEF AllTyped, NumbersTyped
<1>5. troubles > 0 => troubles' > 0
    BY <1>1, <1>4
<1>6. troubles > 1 => troubles' > 1
    BY <1>1, <1>4
<1>9. (failed' /\ troubles' > 0) \/ troubles' > 1 => Excused'
    BY <1>1, CountedTroubles, Zenon DEF Excused
<1>7. Excused => crossed \/ troubles > 1 \/ (failed /\ troubles > 0)
    BY <1>4 DEF Excused
<1>8. crossed => Excused'
    BY <1>3 DEF Excused
<1> QED
    BY <1>1, <1>2, <1>3, <1>5, <1>6, <1>7, <1>8, <1>9 DEF Excused

\* A request that goes out is there to be answered.
LEMMA Emits ==
    ASSUME EmittedTyped, NEW b \in Messages, Emit(b)
    PROVE  emitted'[b] > 0
BY DEF EmittedTyped, Emit

\* Work that leads to an LLM request, now or as soon as a clear is over.
Working(f) ==
    \/ pc[f] \in {"launch", "validate", "prepare", "recover", "arm"}
    \/ pc[f] \in {"begin", "publish"} /\ Wakes(f)
    \/ Clearing(f) /\ after[f] \in {"launch", "validate"}

\* One future works, or one LLM request is out, or one compaction is in flight
\* for a workflow; a future that has begun it or is about to clear it is the
\* one that works.
WorkAlone ==
    /\ \A f \in Futures : Working(f) =>
        /\ asked = "none"
        /\ \A g \in Futures \ {f} : ~Working(g)
        /\ phase = "preflight" => pc[f] = "publish" \/ (pc[f] = "clearPhase" /\ after[f] = "validate")
    /\ phase = "preflight" => asked = "none"

\* Whatever is under way, a reset apart, is one thing: a future, an LLM request
\* or a question for the frontend.
Task(f) == pc[f] \notin {"done", "wipe", "again"} /\ ~(Clearing(f) /\ after[f] = "again")
Quiet == \A b \in Messages : emitted[b] = 0
OneTask ==
    \A f \in Futures : Task(f) => asked = "none" /\ Quiet /\ \A g \in Futures \ {f} : ~Task(g)
OneQuestion ==
    /\ asked # "none" => Quiet
    /\ \A b \in Messages : emitted[b] > 0 => emitted[b] = 1 /\ \A c \in Messages \ {b} : emitted[c] = 0
NobodyArms == \A f \in Futures : pc[f] # "arm"
Single == NoManual /\ WorkAlone /\ OneTask /\ OneQuestion /\ NobodyArms

\* That is so until the first trouble; after it nothing has failed, or it is
\* still so.
Turn ==
    /\ troubles = 0 => Single
    /\ overtaken \/ Excused \/ Single \/ (NoErrors /\ troubles > 0 /\ WorkAlone)

\* Every boundary that is on its way covers what the summary covers; it is so
\* until the first trouble.
Newer ==
    /\ \A b \in Messages : emitted[b] > 0 => b >= record
    /\ request # NoMessage => request >= record
    /\ \A f \in Futures :
        /\ pc[f] \in {"begin", "publish", "accept", "invalid", "persist"} => to[f] >= record
        /\ pc[f] \in {"invalid", "persist"} => request \in {NoMessage, to[f]}

\* A task that goes on is still the only one.
LEMMA TaskMoves ==
    ASSUME OneTask, OneQuestion, NEW f \in Futures, Task(f),
           \A g \in Futures \ {f} : pc'[g] = pc[g] /\ after'[g] = after[g],
           asked' = asked, emitted' = emitted
    PROVE  OneTask' /\ OneQuestion'
<1>1. asked' = "none" /\ Quiet'
    BY DEF OneTask, Quiet
<1>2. \A g \in Futures \ {f} : ~Task(g)'
    BY DEF OneTask, Task, Clearing
<1> QED
    BY <1>1, <1>2 DEF OneTask, OneQuestion, Quiet

\* A task that ends may leave one LLM request or one question.
LEMMA TaskEnds ==
    ASSUME EmittedTyped, OneTask, OneQuestion, NEW f \in Futures, Task(f),
           \A g \in Futures \ {f} : pc'[g] = pc[g] /\ after'[g] = after[g], pc'[f] = "done",
           emitted' = emitted \/ (asked' = asked /\ \E b \in Messages : Emit(b))
    PROVE  OneTask' /\ OneQuestion'
<1>1. \A g \in Futures : ~Task(g)'
    BY DEF OneTask, Task, Clearing
<1>2. asked = "none" /\ Quiet
    BY DEF OneTask
<1>3. CASE emitted' = emitted
    BY <1>1, <1>2, <1>3 DEF OneTask, OneQuestion, Quiet
<1>4. ASSUME asked' = asked, NEW b \in Messages, Emit(b) PROVE OneTask' /\ OneQuestion'
    <2>1. emitted'[b] = 1 /\ \A c \in Messages \ {b} : emitted'[c] = 0
        BY <1>2, <1>4 DEF EmittedTyped, Emit, Quiet
    <2> QED
        BY <1>1, <1>2, <1>4, <2>1 DEF OneTask, OneQuestion
<1> QED
    BY <1>3, <1>4

\* A step keeps the local variables of the futures in order.
LEMMA PlansKept ==
    ASSUME AllTyped, OwnPlans, [Next]_vars
    PROVE  OwnPlans'
<1> USE DEF Goto, Proceed, Return, ClearThen, FailWorkflow, session, runtime, locals, bounds
<1>1. CASE Stop
    BY <1>1 DEF Stop, OwnPlans, Clearing, AllTyped, LocalsTyped
<1>2. ASSUME NEW f \in Futures, Local(f) PROVE OwnPlans'
    <2>1. CASE ClearPhase(f)
        BY <2>1 DEF ClearPhase, OwnPlans, Clearing, AllTyped, LocalsTyped
    <2>2. CASE ClearRest(f)
        BY <2>2 DEF ClearRest, OwnPlans, Clearing, AllTyped, LocalsTyped
    <2>3. CASE Launch(f)
        BY <2>3 DEF Launch, OwnPlans, Clearing, AllTyped, LocalsTyped
    <2>4. CASE Wipe(f)
        BY <2>4 DEF Wipe, OwnPlans, Clearing, AllTyped, LocalsTyped
    <2>5. CASE ResetAgain(f)
        BY <2>5 DEF ResetAgain, OwnPlans, Clearing, AllTyped, LocalsTyped
    <2>6. CASE Validate(f)
        BY <2>6 DEF Validate, OwnPlans, Clearing, AllTyped, LocalsTyped
    <2>7. CASE SendRequest(f)
        BY <2>7 DEF SendRequest, OwnPlans, Clearing, AllTyped, LocalsTyped
    <2>8. CASE NothingToCompact(f)
        BY <2>8 DEF NothingToCompact, OwnPlans, Clearing, AllTyped, LocalsTyped
    <2>9. CASE SelectSplit(f)
        BY <2>9, PresentMessages DEF SelectSplit, OwnPlans, Clearing, AllTyped, LocalsTyped
    <2>10. CASE TryBegin(f)
        BY <2>10 DEF TryBegin, OwnPlans, Clearing, AllTyped, LocalsTyped, Wakes
    <2>11. CASE Arm(f)
        BY <2>11 DEF Arm, OwnPlans, Clearing, AllTyped, LocalsTyped
    <2>12. CASE Publish(f)
        BY <2>12 DEF Publish, OwnPlans, Clearing, AllTyped, LocalsTyped
    <2>13. CASE Fail(f)
        BY <2>13 DEF Fail, OwnPlans, Clearing, AllTyped, LocalsTyped
    <2>14. CASE Accept(f)
        BY <2>14 DEF Accept, OwnPlans, Clearing, AllTyped, LocalsTyped
    <2>15. CASE RetrySummary(f)
        BY <2>15 DEF RetrySummary, OwnPlans, Clearing, AllTyped, LocalsTyped, Trouble
    <2>16. CASE Persist(f)
        BY <2>16 DEF Persist, OwnPlans, Clearing, AllTyped, LocalsTyped
    <2>17. CASE Complete(f)
        BY <2>17 DEF Complete, OwnPlans, Clearing, AllTyped, LocalsTyped
    <2>18. CASE Settle(f)
        BY <2>18 DEF Settle, OwnPlans, Clearing, AllTyped, LocalsTyped
    <2>19. CASE ErrorTooLong(f)
        BY <2>19 DEF ErrorTooLong, OwnPlans, Clearing, AllTyped, LocalsTyped
    <2>20. CASE ErrorFallback(f)
        BY <2>20 DEF ErrorFallback, OwnPlans, Clearing, AllTyped, LocalsTyped, NumbersTyped, Messages, NoMessage
    <2>21. CASE ErrorOther(f)
        BY <2>21 DEF ErrorOther, OwnPlans, Clearing, AllTyped, LocalsTyped
    <2>22. CASE ErrorState(f)
        BY <2>22 DEF ErrorState, OwnPlans, Clearing, AllTyped, LocalsTyped
    <2>23. CASE ErrorReturn(f)
        BY <2>23 DEF ErrorReturn, OwnPlans, Clearing, AllTyped, LocalsTyped
    <2> QED
        BY <1>2, <2>1, <2>2, <2>3, <2>4, <2>5, <2>6, <2>7, <2>8, <2>9, <2>10, <2>11, <2>12, <2>13, <2>14, <2>15,
            <2>16, <2>17, <2>18, <2>19, <2>20, <2>21, <2>22, <2>23 DEF Local
<1>3. ASSUME NEW f \in Futures, Llm(f) \/ Frontend(f) \/ Client(f) PROVE OwnPlans'
    <2>1. CASE LlmAnswer(f)
        BY <2>1 DEF LlmAnswer, OwnPlans, Clearing, AllTyped, LocalsTyped
    <2>2. CASE LlmTooLong(f)
        BY <2>2 DEF LlmTooLong, OwnPlans, Clearing, AllTyped, LocalsTyped
    <2>3. CASE Start(f)
        BY <2>3 DEF Start, OwnPlans, Clearing, AllTyped, LocalsTyped, Trouble
    <2>4. CASE Reset(f)
        BY <2>4 DEF Reset, OwnPlans, Clearing, AllTyped, LocalsTyped
    <2>5. CASE CompactSession(f)
        BY <2>5 DEF CompactSession, OwnPlans, Clearing, AllTyped, LocalsTyped
    <2>6. ASSUME NEW b \in Messages, Respond(f, b) PROVE OwnPlans'
        BY <2>6 DEF Respond, OwnPlans, Clearing, AllTyped, LocalsTyped
    <2>7. ASSUME NEW b \in Messages, ReportError(f, b) PROVE OwnPlans'
        BY <2>7 DEF ReportError, OwnPlans, Clearing, AllTyped, LocalsTyped
    <2> QED
        BY <1>3, <2>1, <2>2, <2>3, <2>4, <2>5, <2>6, <2>7 DEF Llm, Frontend, Client
<1>4. CASE UNCHANGED vars
    BY <1>4 DEF vars, OwnPlans, Clearing, AllTyped, LocalsTyped
<1> QED
    BY <1>1, <1>2, <1>3, <1>4 DEF Next

\* A step keeps a compaction that begins apart from one that ends, or is what
\* crosses them.
LEMMA ApartKept ==
    ASSUME AllTyped, OwnPlans, Apart, [Next]_vars
    PROVE  Apart'
<1> USE DEF Goto, Proceed, Return, ClearThen, FailWorkflow, session, runtime, locals, bounds
<1>1. CASE Stop
    BY <1>1 DEF Stop, OwnPlans, Clearing, Apart, AllTyped, LocalsTyped
<1>2. ASSUME NEW f \in Futures, Local(f) PROVE Apart'
    <2>1. CASE ClearPhase(f)
        BY <2>1 DEF ClearPhase, OwnPlans, Clearing, Apart, AllTyped, LocalsTyped
    <2>2. CASE ClearRest(f)
        BY <2>2 DEF ClearRest, OwnPlans, Clearing, Apart, AllTyped, LocalsTyped
    <2>3. CASE Launch(f)
        BY <2>3 DEF Launch, OwnPlans, Clearing, Apart, AllTyped, LocalsTyped
    <2>4. CASE Wipe(f)
        BY <2>4 DEF Wipe, OwnPlans, Clearing, Apart, AllTyped, LocalsTyped
    <2>5. CASE ResetAgain(f)
        BY <2>5 DEF ResetAgain, OwnPlans, Clearing, Apart, AllTyped, LocalsTyped
    <2>6. CASE Validate(f)
        BY <2>6 DEF Validate, OwnPlans, Clearing, Apart, AllTyped, LocalsTyped
    <2>7. CASE SendRequest(f)
        BY <2>7 DEF SendRequest, OwnPlans, Clearing, Apart, AllTyped, LocalsTyped
    <2>8. CASE NothingToCompact(f)
        BY <2>8 DEF NothingToCompact, OwnPlans, Clearing, Apart, AllTyped, LocalsTyped
    <2>9. CASE SelectSplit(f)
        BY <2>9 DEF SelectSplit, OwnPlans, Clearing, Apart, AllTyped, LocalsTyped
    <2>10. CASE TryBegin(f)
        BY <2>10, BeginsApart DEF TryBegin, OwnPlans, Clearing, Apart, AllTyped, LocalsTyped, Wakes, Finishing
    <2>11. CASE Arm(f)
        BY <2>11 DEF Arm, OwnPlans, Clearing, Apart, AllTyped, LocalsTyped
    <2>12. CASE Publish(f)
        BY <2>12 DEF Publish, OwnPlans, Clearing, Apart, AllTyped, LocalsTyped
    <2>13. CASE Fail(f)
        BY <2>13 DEF Fail, OwnPlans, Clearing, Apart, AllTyped, LocalsTyped
    <2>14. CASE Accept(f)
        BY <2>14 DEF Accept, OwnPlans, Clearing, Apart, AllTyped, LocalsTyped, Messages, NoMessage
    <2>15. CASE RetrySummary(f)
        BY <2>15 DEF RetrySummary, OwnPlans, Clearing, Apart, AllTyped, LocalsTyped
    <2>16. CASE Persist(f)
        BY <2>16 DEF Persist, OwnPlans, Clearing, Apart, AllTyped, LocalsTyped
    <2>17. CASE Complete(f)
        BY <2>17 DEF Complete, OwnPlans, Clearing, Apart, AllTyped, LocalsTyped
    <2>18. CASE Settle(f)
        BY <2>18 DEF Settle, OwnPlans, Clearing, Apart, AllTyped, LocalsTyped
    <2>19. CASE ErrorTooLong(f)
        BY <2>19 DEF ErrorTooLong, OwnPlans, Clearing, Apart, AllTyped, LocalsTyped
    <2>20. CASE ErrorFallback(f)
        BY <2>20 DEF ErrorFallback, OwnPlans, Clearing, Apart, AllTyped, LocalsTyped
    <2>21. CASE ErrorOther(f)
        BY <2>21 DEF ErrorOther, OwnPlans, Clearing, Apart, AllTyped, LocalsTyped
    <2>22. CASE ErrorState(f)
        BY <2>22 DEF ErrorState, OwnPlans, Clearing, Apart, AllTyped, LocalsTyped
    <2>23. CASE ErrorReturn(f)
        BY <2>23 DEF ErrorReturn, OwnPlans, Clearing, Apart, AllTyped, LocalsTyped
    <2> QED
        BY <1>2, <2>1, <2>2, <2>3, <2>4, <2>5, <2>6, <2>7, <2>8, <2>9, <2>10, <2>11, <2>12, <2>13, <2>14, <2>15,
            <2>16, <2>17, <2>18, <2>19, <2>20, <2>21, <2>22, <2>23 DEF Local
<1>3. ASSUME NEW f \in Futures, Llm(f) \/ Frontend(f) \/ Client(f) PROVE Apart'
    <2>1. CASE LlmAnswer(f)
        BY <2>1 DEF LlmAnswer, OwnPlans, Clearing, Apart, AllTyped, LocalsTyped
    <2>2. CASE LlmTooLong(f)
        BY <2>2 DEF LlmTooLong, OwnPlans, Clearing, Apart, AllTyped, LocalsTyped
    <2>3. CASE Start(f)
        BY <2>3 DEF Start, OwnPlans, Clearing, Apart, AllTyped, LocalsTyped
    <2>4. CASE Reset(f)
        BY <2>4 DEF Reset, OwnPlans, Clearing, Apart, AllTyped, LocalsTyped
    <2>5. CASE CompactSession(f)
        BY <2>5 DEF CompactSession, OwnPlans, Clearing, Apart, AllTyped, LocalsTyped
    <2>6. ASSUME NEW b \in Messages, Respond(f, b) PROVE Apart'
        BY <2>6 DEF Respond, OwnPlans, Clearing, Apart, AllTyped, LocalsTyped
    <2>7. ASSUME NEW b \in Messages, ReportError(f, b) PROVE Apart'
        BY <2>7 DEF ReportError, OwnPlans, Clearing, Apart, AllTyped, LocalsTyped
    <2> QED
        BY <1>3, <2>1, <2>2, <2>3, <2>4, <2>5, <2>6, <2>7 DEF Llm, Frontend, Client
<1>4. CASE UNCHANGED vars
    BY <1>4 DEF vars, OwnPlans, Clearing, Apart, AllTyped, LocalsTyped
<1> QED
    BY <1>1, <1>2, <1>3, <1>4 DEF Next

\* A manual compaction and an error are both paid for.
LEMMA PaidKept ==
    ASSUME AllTyped, OwnPlans, Paid, [Next]_vars
    PROVE  Paid'
<1> USE DEF Goto, Proceed, Return, ClearThen, FailWorkflow, session, runtime, locals, bounds
<1>1. CASE Stop
    BY <1>1, ExcusesStay DEF Stop, OwnPlans, Clearing, Paid, NoManual, NoErrors, Manual, Erring, Excused, Wakes,
        AllTyped, LocalsTyped, NumbersTyped
<1>2. ASSUME NEW f \in Futures, Local(f) PROVE Paid'
    <2>1. CASE ClearPhase(f)
        BY <2>1, ExcusesStay DEF ClearPhase, OwnPlans, Clearing, Paid, NoManual, NoErrors, Manual, Erring,
            Excused, Wakes, AllTyped, LocalsTyped, NumbersTyped
    <2>2. CASE ClearRest(f)
        BY <2>2, ExcusesStay DEF ClearRest, OwnPlans, Clearing, Paid, NoManual, NoErrors, Manual, Erring,
            Excused, Wakes, AllTyped, LocalsTyped, NumbersTyped
    <2>3. CASE Launch(f)
        BY <2>3, ExcusesStay DEF Launch, OwnPlans, Clearing, Paid, NoManual, NoErrors, Manual, Erring, Excused,
            Wakes, AllTyped, LocalsTyped, NumbersTyped
    <2>4. CASE Wipe(f)
        BY <2>4, ExcusesStay DEF Wipe, OwnPlans, Clearing, Paid, NoManual, NoErrors, Manual, Erring, Excused,
            Wakes, AllTyped, LocalsTyped, NumbersTyped
    <2>5. CASE ResetAgain(f)
        BY <2>5, ExcusesStay DEF ResetAgain, OwnPlans, Clearing, Paid, NoManual, NoErrors, Manual, Erring,
            Excused, Wakes, AllTyped, LocalsTyped, NumbersTyped
    <2>6. CASE Validate(f)
        BY <2>6, ExcusesStay DEF Validate, OwnPlans, Clearing, Paid, NoManual, NoErrors, Manual, Erring, Excused,
            Wakes, AllTyped, LocalsTyped, NumbersTyped
    <2>7. CASE SendRequest(f)
        BY <2>7, ExcusesStay DEF SendRequest, OwnPlans, Clearing, Paid, NoManual, NoErrors, Manual, Erring,
            Excused, Wakes, AllTyped, LocalsTyped, NumbersTyped
    <2>8. CASE NothingToCompact(f)
        BY <2>8, ExcusesStay DEF NothingToCompact, OwnPlans, Clearing, Paid, NoManual, NoErrors, Manual, Erring,
            Excused, Wakes, AllTyped, LocalsTyped, NumbersTyped
    <2>9. CASE SelectSplit(f)
        BY <2>9, ExcusesStay DEF SelectSplit, OwnPlans, Clearing, Paid, NoManual, NoErrors, Manual, Erring,
            Excused, Wakes, AllTyped, LocalsTyped, NumbersTyped
    <2>10. CASE TryBegin(f)
        BY <2>10, ExcusesStay DEF TryBegin, OwnPlans, Clearing, Paid, NoManual, NoErrors, Manual, Erring,
            Excused, Wakes, AllTyped, LocalsTyped, NumbersTyped
    <2>11. CASE Arm(f)
        BY <2>11, ExcusesStay DEF Arm, OwnPlans, Clearing, Paid, NoManual, NoErrors, Manual, Erring, Excused,
            Wakes, AllTyped, LocalsTyped, NumbersTyped
    <2>12. CASE Publish(f)
        BY <2>12, ExcusesStay DEF Publish, OwnPlans, Clearing, Paid, NoManual, NoErrors, Manual, Erring, Excused,
            Wakes, AllTyped, LocalsTyped, NumbersTyped, Trouble
    <2>13. CASE Fail(f)
        BY <2>13, ExcusesStay DEF Fail, OwnPlans, Clearing, Paid, NoManual, NoErrors, Manual, Erring, Excused,
            Wakes, AllTyped, LocalsTyped, NumbersTyped
    <2>14. CASE Accept(f)
        BY <2>14, ExcusesStay DEF Accept, OwnPlans, Clearing, Paid, NoManual, NoErrors, Manual, Erring, Excused,
            Wakes, AllTyped, LocalsTyped, NumbersTyped
    <2>15. CASE RetrySummary(f)
        BY <2>15, ExcusesStay DEF RetrySummary, OwnPlans, Clearing, Paid, NoManual, NoErrors, Manual, Erring,
            Excused, Wakes, AllTyped, LocalsTyped, NumbersTyped, Trouble
    <2>16. CASE Persist(f)
        BY <2>16, ExcusesStay DEF Persist, OwnPlans, Clearing, Paid, NoManual, NoErrors, Manual, Erring, Excused,
            Wakes, AllTyped, LocalsTyped, NumbersTyped, Trouble
    <2>17. CASE Complete(f)
        BY <2>17, ExcusesStay DEF Complete, OwnPlans, Clearing, Paid, NoManual, NoErrors, Manual, Erring,
            Excused, Wakes, AllTyped, LocalsTyped, NumbersTyped
    <2>18. CASE Settle(f)
        BY <2>18, ExcusesStay DEF Settle, OwnPlans, Clearing, Paid, NoManual, NoErrors, Manual, Erring, Excused,
            Wakes, AllTyped, LocalsTyped, NumbersTyped
    <2>19. CASE ErrorTooLong(f)
        BY <2>19, ExcusesStay DEF ErrorTooLong, OwnPlans, Clearing, Paid, NoManual, NoErrors, Manual, Erring,
            Excused, Wakes, AllTyped, LocalsTyped, NumbersTyped
    <2>20. CASE ErrorFallback(f)
        BY <2>20, ExcusesStay DEF ErrorFallback, OwnPlans, Clearing, Paid, NoManual, NoErrors, Manual, Erring,
            Excused, Wakes, AllTyped, LocalsTyped, NumbersTyped
    <2>21. CASE ErrorOther(f)
        BY <2>21, ExcusesStay DEF ErrorOther, OwnPlans, Clearing, Paid, NoManual, NoErrors, Manual, Erring,
            Excused, Wakes, AllTyped, LocalsTyped, NumbersTyped
    <2>22. CASE ErrorState(f)
        BY <2>22, ExcusesStay DEF ErrorState, OwnPlans, Clearing, Paid, NoManual, NoErrors, Manual, Erring,
            Excused, Wakes, AllTyped, LocalsTyped, NumbersTyped
    <2>23. CASE ErrorReturn(f)
        BY <2>23, ExcusesStay DEF ErrorReturn, OwnPlans, Clearing, Paid, NoManual, NoErrors, Manual, Erring,
            Excused, Wakes, AllTyped, LocalsTyped, NumbersTyped
    <2> QED
        BY <1>2, <2>1, <2>2, <2>3, <2>4, <2>5, <2>6, <2>7, <2>8, <2>9, <2>10, <2>11, <2>12, <2>13, <2>14, <2>15,
            <2>16, <2>17, <2>18, <2>19, <2>20, <2>21, <2>22, <2>23 DEF Local
<1>3. ASSUME NEW f \in Futures, Llm(f) \/ Frontend(f) \/ Client(f) PROVE Paid'
    <2>1. CASE LlmAnswer(f)
        BY <2>1, ExcusesStay DEF LlmAnswer, OwnPlans, Clearing, Paid, NoManual, NoErrors, Manual, Erring,
            Excused, Wakes, AllTyped, LocalsTyped, NumbersTyped
    <2>2. CASE LlmTooLong(f)
        BY <2>2, ExcusesStay DEF LlmTooLong, OwnPlans, Clearing, Paid, NoManual, NoErrors, Manual, Erring,
            Excused, Wakes, AllTyped, LocalsTyped, NumbersTyped
    <2>3. CASE Start(f)
        BY <2>3, ExcusesStay DEF Start, OwnPlans, Clearing, Paid, NoManual, NoErrors, Manual, Erring, Excused,
            Wakes, AllTyped, LocalsTyped, NumbersTyped
    <2>4. CASE Reset(f)
        BY <2>4, ExcusesStay DEF Reset, OwnPlans, Clearing, Paid, NoManual, NoErrors, Manual, Erring, Excused,
            Wakes, AllTyped, LocalsTyped, NumbersTyped
    <2>5. CASE CompactSession(f)
        BY <2>5, ExcusesStay DEF CompactSession, OwnPlans, Clearing, Paid, NoManual, NoErrors, Manual, Erring,
            Excused, Wakes, AllTyped, LocalsTyped, NumbersTyped, Trouble
    <2>6. ASSUME NEW b \in Messages, Respond(f, b) PROVE Paid'
        BY <2>6, ExcusesStay DEF Respond, OwnPlans, Clearing, Paid, NoManual, NoErrors, Manual, Erring, Excused,
            Wakes, AllTyped, LocalsTyped, NumbersTyped
    <2>7. ASSUME NEW b \in Messages, ReportError(f, b) PROVE Paid'
        BY <2>7, ExcusesStay DEF ReportError, OwnPlans, Clearing, Paid, NoManual, NoErrors, Manual, Erring,
            Excused, Wakes, AllTyped, LocalsTyped, NumbersTyped
    <2> QED
        BY <1>3, <2>1, <2>2, <2>3, <2>4, <2>5, <2>6, <2>7 DEF Llm, Frontend, Client
<1>4. CASE UNCHANGED vars
    BY <1>4, ExcusesStay DEF vars, OwnPlans, Clearing, Paid, NoManual, NoErrors, Manual, Erring, Excused, Wakes,
        AllTyped, LocalsTyped, NumbersTyped
<1> QED
    BY <1>1, <1>2, <1>3, <1>4 DEF Next

\* Only a promotion makes a phase preflight that an error has found otherwise,
\* and there is none unless two troubles met.
LEMMA ReturnsIdleKept ==
    ASSUME AllTyped, OwnPlans, Apart, Paid, ReturnsIdle, [Next]_vars
    PROVE  ReturnsIdle'
<1> USE DEF Goto, Proceed, Return, ClearThen, FailWorkflow, session, runtime, locals, bounds
<1>1. CASE Stop
    BY <1>1, ExcusesStay DEF Stop, OwnPlans, Clearing, ReturnsIdle, AllTyped, LocalsTyped
<1>2. ASSUME NEW f \in Futures, Local(f) PROVE ReturnsIdle'
    <2>1. CASE ClearPhase(f)
        BY <2>1, ExcusesStay DEF ClearPhase, OwnPlans, Clearing, ReturnsIdle, AllTyped, LocalsTyped
    <2>2. CASE ClearRest(f)
        BY <2>2, ExcusesStay DEF ClearRest, OwnPlans, Clearing, ReturnsIdle, AllTyped, LocalsTyped
    <2>3. CASE Launch(f)
        BY <2>3, ExcusesStay DEF Launch, OwnPlans, Clearing, ReturnsIdle, AllTyped, LocalsTyped
    <2>4. CASE Wipe(f)
        BY <2>4, ExcusesStay DEF Wipe, OwnPlans, Clearing, ReturnsIdle, AllTyped, LocalsTyped
    <2>5. CASE ResetAgain(f)
        BY <2>5, ExcusesStay DEF ResetAgain, OwnPlans, Clearing, ReturnsIdle, AllTyped, LocalsTyped
    <2>6. CASE Validate(f)
        BY <2>6, ExcusesStay DEF Validate, OwnPlans, Clearing, ReturnsIdle, AllTyped, LocalsTyped
    <2>7. CASE SendRequest(f)
        BY <2>7, ExcusesStay DEF SendRequest, OwnPlans, Clearing, ReturnsIdle, AllTyped, LocalsTyped
    <2>8. CASE NothingToCompact(f)
        BY <2>8, ExcusesStay DEF NothingToCompact, OwnPlans, Clearing, ReturnsIdle, AllTyped, LocalsTyped
    <2>9. CASE SelectSplit(f)
        BY <2>9, ExcusesStay DEF SelectSplit, OwnPlans, Clearing, ReturnsIdle, AllTyped, LocalsTyped
    <2>10. CASE TryBegin(f)
        BY <2>10, ExcusesStay, BeginsApart DEF TryBegin, OwnPlans, Clearing, ReturnsIdle, AllTyped, LocalsTyped,
            Wakes, Finishing, Excused
    <2>11. CASE Arm(f)
        BY <2>11, ExcusesStay DEF Arm, OwnPlans, Clearing, ReturnsIdle, AllTyped, LocalsTyped
    <2>12. CASE Publish(f)
        BY <2>12, ExcusesStay DEF Publish, OwnPlans, Clearing, ReturnsIdle, AllTyped, LocalsTyped, Trouble,
            NumbersTyped, Paid, NoManual, Manual, Wakes
    <2>13. CASE Fail(f)
        BY <2>13, ExcusesStay DEF Fail, OwnPlans, Clearing, ReturnsIdle, AllTyped, LocalsTyped
    <2>14. CASE Accept(f)
        BY <2>14, ExcusesStay DEF Accept, OwnPlans, Clearing, ReturnsIdle, AllTyped, LocalsTyped
    <2>15. CASE RetrySummary(f)
        BY <2>15, ExcusesStay DEF RetrySummary, OwnPlans, Clearing, ReturnsIdle, AllTyped, LocalsTyped, Trouble,
            NumbersTyped
    <2>16. CASE Persist(f)
        BY <2>16, ExcusesStay DEF Persist, OwnPlans, Clearing, ReturnsIdle, AllTyped, LocalsTyped, Trouble,
            NumbersTyped
    <2>17. CASE Complete(f)
        BY <2>17, ExcusesStay DEF Complete, OwnPlans, Clearing, ReturnsIdle, AllTyped, LocalsTyped
    <2>18. CASE Settle(f)
        BY <2>18, ExcusesStay DEF Settle, OwnPlans, Clearing, ReturnsIdle, AllTyped, LocalsTyped
    <2>19. CASE ErrorTooLong(f)
        BY <2>19, ExcusesStay DEF ErrorTooLong, OwnPlans, Clearing, ReturnsIdle, AllTyped, LocalsTyped
    <2>20. CASE ErrorFallback(f)
        BY <2>20, ExcusesStay DEF ErrorFallback, OwnPlans, Clearing, ReturnsIdle, AllTyped, LocalsTyped
    <2>21. CASE ErrorOther(f)
        BY <2>21, ExcusesStay DEF ErrorOther, OwnPlans, Clearing, ReturnsIdle, AllTyped, LocalsTyped
    <2>22. CASE ErrorState(f)
        BY <2>22, ExcusesStay DEF ErrorState, OwnPlans, Clearing, ReturnsIdle, AllTyped, LocalsTyped, Paid,
            NoErrors, Erring, NoManual, FlagsTyped, Phases
    <2>23. CASE ErrorReturn(f)
        BY <2>23, ExcusesStay DEF ErrorReturn, OwnPlans, Clearing, ReturnsIdle, AllTyped, LocalsTyped
    <2> QED
        BY <1>2, <2>1, <2>2, <2>3, <2>4, <2>5, <2>6, <2>7, <2>8, <2>9, <2>10, <2>11, <2>12, <2>13, <2>14, <2>15,
            <2>16, <2>17, <2>18, <2>19, <2>20, <2>21, <2>22, <2>23 DEF Local
<1>3. ASSUME NEW f \in Futures, Llm(f) \/ Frontend(f) \/ Client(f) PROVE ReturnsIdle'
    <2>1. CASE LlmAnswer(f)
        BY <2>1, ExcusesStay DEF LlmAnswer, OwnPlans, Clearing, ReturnsIdle, AllTyped, LocalsTyped
    <2>2. CASE LlmTooLong(f)
        BY <2>2, ExcusesStay DEF LlmTooLong, OwnPlans, Clearing, ReturnsIdle, AllTyped, LocalsTyped
    <2>3. CASE Start(f)
        BY <2>3, ExcusesStay DEF Start, OwnPlans, Clearing, ReturnsIdle, AllTyped, LocalsTyped, Trouble
    <2>4. CASE Reset(f)
        BY <2>4, ExcusesStay DEF Reset, OwnPlans, Clearing, ReturnsIdle, AllTyped, LocalsTyped
    <2>5. CASE CompactSession(f)
        BY <2>5, ExcusesStay DEF CompactSession, OwnPlans, Clearing, ReturnsIdle, AllTyped, LocalsTyped, Trouble,
            NumbersTyped
    <2>6. ASSUME NEW b \in Messages, Respond(f, b) PROVE ReturnsIdle'
        BY <2>6, ExcusesStay DEF Respond, OwnPlans, Clearing, ReturnsIdle, AllTyped, LocalsTyped
    <2>7. ASSUME NEW b \in Messages, ReportError(f, b) PROVE ReturnsIdle'
        BY <2>7, ExcusesStay DEF ReportError, OwnPlans, Clearing, ReturnsIdle, AllTyped, LocalsTyped
    <2> QED
        BY <1>3, <2>1, <2>2, <2>3, <2>4, <2>5, <2>6, <2>7 DEF Llm, Frontend, Client
<1>4. CASE UNCHANGED vars
    BY <1>4, ExcusesStay DEF vars, OwnPlans, Clearing, ReturnsIdle, AllTyped, LocalsTyped
<1> QED
    BY <1>1, <1>2, <1>3, <1>4 DEF Next

\* A step leaves somebody who ends the compaction: only a fallback that cannot
\* be stored drops it, and that is the second trouble.
LEMMA CarriedKept ==
    ASSUME AllTyped, OwnPlans, Apart, Paid, Carried, [Next]_vars
    PROVE  Carried'
<1> USE DEF Goto, Proceed, Return, ClearThen, FailWorkflow, session, runtime, locals, bounds
<1>1. CASE Stop
    BY <1>1, ExcusesStay DEF Stop, OwnPlans, Clearing, Carried, Carrier, Free, AllTyped, LocalsTyped
<1>2. ASSUME NEW f \in Futures, Local(f) PROVE Carried'
    <2>1. CASE ClearPhase(f)
        BY <2>1, ExcusesStay DEF ClearPhase, OwnPlans, Clearing, Carried, Carrier, Free, AllTyped, LocalsTyped
    <2>2. CASE ClearRest(f)
        BY <2>2, ExcusesStay DEF ClearRest, OwnPlans, Clearing, Carried, Carrier, Free, AllTyped, LocalsTyped, Apart
    <2>3. CASE Launch(f)
        BY <2>3, ExcusesStay DEF Launch, OwnPlans, Clearing, Carried, Carrier, Free, AllTyped, LocalsTyped
    <2>4. CASE Wipe(f)
        BY <2>4, ExcusesStay DEF Wipe, OwnPlans, Clearing, Carried, Carrier, Free, AllTyped, LocalsTyped
    <2>5. CASE ResetAgain(f)
        BY <2>5, ExcusesStay DEF ResetAgain, OwnPlans, Clearing, Carried, Carrier, Free, AllTyped, LocalsTyped
    <2>6. CASE Validate(f)
        BY <2>6, ExcusesStay DEF Validate, OwnPlans, Clearing, Carried, Carrier, Free, AllTyped, LocalsTyped
    <2>7. CASE SendRequest(f)
        BY <2>7, ExcusesStay DEF SendRequest, OwnPlans, Clearing, Carried, Carrier, Free, AllTyped, LocalsTyped
    <2>8. CASE NothingToCompact(f)
        BY <2>8, ExcusesStay DEF NothingToCompact, OwnPlans, Clearing, Carried, Carrier, Free, AllTyped, LocalsTyped
    <2>9. CASE SelectSplit(f)
        BY <2>9, ExcusesStay DEF SelectSplit, OwnPlans, Clearing, Carried, Carrier, Free, AllTyped, LocalsTyped
    <2>10. CASE TryBegin(f)
        BY <2>10, ExcusesStay DEF TryBegin, OwnPlans, Clearing, Carried, Carrier, Free, AllTyped, LocalsTyped, Wakes
    <2>11. CASE Arm(f)
        BY <2>11, ExcusesStay DEF Arm, OwnPlans, Clearing, Carried, Carrier, Free, AllTyped, LocalsTyped
    <2>12. CASE Publish(f)
        <3>1. request' = to[f] /\ to[f] \in Messages /\ to[f] # NoMessage
            BY <2>12 DEF Publish, OwnPlans, Messages, NoMessage
        <3>2. CASE Emit(to[f])
            BY <3>1, <3>2, Emits DEF Carried, AllTyped
        <3>3. CASE ClearThen(f, after[f])
            BY <3>3 DEF Carried, Carrier, AllTyped, LocalsTyped
        <3> QED
            BY <2>12, <3>2, <3>3 DEF Publish
    <2>13. CASE Fail(f)
        BY <2>13, ExcusesStay DEF Fail, OwnPlans, Clearing, Carried, Carrier, Free, AllTyped, LocalsTyped
    <2>14. CASE Accept(f)
        BY <2>14, ExcusesStay DEF Accept, OwnPlans, Clearing, Carried, Carrier, Free, AllTyped, LocalsTyped
    <2>15. CASE RetrySummary(f)
        <3>1. CASE request # NoMessage /\ request' = request /\ Emit(request)
            <4>1. request \in Messages
                BY <3>1 DEF AllTyped, NumbersTyped, Messages, NoMessage
            <4> QED
                BY <3>1, <4>1, Emits DEF Carried, AllTyped
        <3>2. CASE Proceed(f, after[f])
            BY <2>15, <3>2 DEF RetrySummary, OwnPlans, Carried, Carrier, AllTyped, LocalsTyped
        <3>3. CASE Goto(f, "persist")
            BY <3>3 DEF Carried, Carrier, AllTyped, LocalsTyped
        <3> QED
            BY <2>15, <3>1, <3>2, <3>3 DEF RetrySummary
    <2>16. CASE Persist(f)
        BY <2>16, ExcusesStay DEF Persist, OwnPlans, Clearing, Carried, Carrier, Free, AllTyped, LocalsTyped,
            Trouble, NumbersTyped, Paid, NoErrors, Erring
    <2>17. CASE Complete(f)
        BY <2>17, ExcusesStay DEF Complete, OwnPlans, Clearing, Carried, Carrier, Free, AllTyped, LocalsTyped
    <2>18. CASE Settle(f)
        BY <2>18, ExcusesStay DEF Settle, OwnPlans, Clearing, Carried, Carrier, Free, AllTyped, LocalsTyped
    <2>19. CASE ErrorTooLong(f)
        BY <2>19, ExcusesStay DEF ErrorTooLong, OwnPlans, Clearing, Carried, Carrier, Free, AllTyped, LocalsTyped
    <2>20. CASE ErrorFallback(f)
        BY <2>20, ExcusesStay DEF ErrorFallback, OwnPlans, Clearing, Carried, Carrier, Free, AllTyped, LocalsTyped
    <2>21. CASE ErrorOther(f)
        BY <2>21, ExcusesStay DEF ErrorOther, OwnPlans, Clearing, Carried, Carrier, Free, AllTyped, LocalsTyped
    <2>22. CASE ErrorState(f)
        BY <2>22, ExcusesStay DEF ErrorState, OwnPlans, Clearing, Carried, Carrier, Free, AllTyped, LocalsTyped
    <2>23. CASE ErrorReturn(f)
        BY <2>23, ExcusesStay DEF ErrorReturn, OwnPlans, Clearing, Carried, Carrier, Free, AllTyped, LocalsTyped
    <2> QED
        BY <1>2, <2>1, <2>2, <2>3, <2>4, <2>5, <2>6, <2>7, <2>8, <2>9, <2>10, <2>11, <2>12, <2>13, <2>14, <2>15,
            <2>16, <2>17, <2>18, <2>19, <2>20, <2>21, <2>22, <2>23 DEF Local
<1>3. ASSUME NEW f \in Futures, Llm(f) \/ Frontend(f) \/ Client(f) PROVE Carried'
    <2>1. CASE LlmAnswer(f)
        BY <2>1, ExcusesStay DEF LlmAnswer, OwnPlans, Clearing, Carried, Carrier, Free, AllTyped, LocalsTyped
    <2>2. CASE LlmTooLong(f)
        BY <2>2, ExcusesStay DEF LlmTooLong, OwnPlans, Clearing, Carried, Carrier, Free, AllTyped, LocalsTyped
    <2>3. CASE Start(f)
        BY <2>3, ExcusesStay DEF Start, OwnPlans, Clearing, Carried, Carrier, Free, AllTyped, LocalsTyped, Trouble
    <2>4. CASE Reset(f)
        BY <2>4, ExcusesStay DEF Reset, OwnPlans, Clearing, Carried, Carrier, Free, AllTyped, LocalsTyped
    <2>5. CASE CompactSession(f)
        BY <2>5, ExcusesStay DEF CompactSession, OwnPlans, Clearing, Carried, Carrier, Free, AllTyped,
            LocalsTyped, Trouble, NumbersTyped
    <2>6. ASSUME NEW b \in Messages, Respond(f, b) PROVE Carried'
        BY <2>6, ExcusesStay DEF Respond, OwnPlans, Clearing, Carried, Carrier, Free, AllTyped, LocalsTyped,
            EmittedTyped
    <2>7. ASSUME NEW b \in Messages, ReportError(f, b) PROVE Carried'
        BY <2>7, ExcusesStay DEF ReportError, OwnPlans, Clearing, Carried, Carrier, Free, AllTyped, LocalsTyped,
            EmittedTyped
    <2> QED
        BY <1>3, <2>1, <2>2, <2>3, <2>4, <2>5, <2>6, <2>7 DEF Llm, Frontend, Client
<1>4. CASE UNCHANGED vars
    BY <1>4, ExcusesStay DEF vars, OwnPlans, Clearing, Carried, Carrier, Free, AllTyped, LocalsTyped
<1> QED
    BY <1>1, <1>2, <1>3, <1>4 DEF Next

\* A step leaves a Busy session somebody who takes the next turn.
LEMMA LiveKept ==
    ASSUME AllTyped, LaunchAlone, OwnPlans, Apart, ReturnsIdle, Live, [Next]_vars
    PROVE  Live'
<1> USE DEF Goto, Proceed, Return, ClearThen, FailWorkflow, session, runtime, locals, bounds
<1>1. CASE Stop
    BY <1>1, ExcusesStay DEF Stop, OwnPlans, Clearing, Live, Turns, Wakes, Free, AllTyped, LocalsTyped
<1>2. ASSUME NEW f \in Futures, Local(f) PROVE Live'
    <2>1. CASE ClearPhase(f)
        BY <2>1, ExcusesStay DEF ClearPhase, OwnPlans, Clearing, Live, Turns, Wakes, Free, AllTyped, LocalsTyped,
            ReturnsIdle, LaunchAlone, Launching, FlagsTyped, Phases
    <2>2. CASE ClearRest(f)
        BY <2>2, ExcusesStay DEF ClearRest, OwnPlans, Clearing, Live, Turns, Wakes, Free, AllTyped, LocalsTyped
    <2>3. CASE Launch(f)
        BY <2>3, ExcusesStay DEF Launch, OwnPlans, Clearing, Live, Turns, Wakes, Free, AllTyped, LocalsTyped
    <2>4. CASE Wipe(f)
        BY <2>4, ExcusesStay DEF Wipe, OwnPlans, Clearing, Live, Turns, Wakes, Free, AllTyped, LocalsTyped
    <2>5. CASE ResetAgain(f)
        BY <2>5, ExcusesStay DEF ResetAgain, OwnPlans, Clearing, Live, Turns, Wakes, Free, AllTyped, LocalsTyped
    <2>6. CASE Validate(f)
        BY <2>6, ExcusesStay DEF Validate, OwnPlans, Clearing, Live, Turns, Wakes, Free, AllTyped, LocalsTyped
    <2>7. CASE SendRequest(f)
        BY <2>7, ExcusesStay DEF SendRequest, OwnPlans, Clearing, Live, Turns, Wakes, Free, AllTyped, LocalsTyped
    <2>8. CASE NothingToCompact(f)
        BY <2>8, ExcusesStay DEF NothingToCompact, OwnPlans, Clearing, Live, Turns, Wakes, Free, AllTyped, LocalsTyped
    <2>9. CASE SelectSplit(f)
        BY <2>9, ExcusesStay DEF SelectSplit, OwnPlans, Clearing, Live, Turns, Wakes, Free, AllTyped, LocalsTyped
    <2>10. CASE TryBegin(f)
        BY <2>10, ExcusesStay DEF TryBegin, OwnPlans, Clearing, Live, Turns, Wakes, Free, AllTyped, LocalsTyped
    <2>11. CASE Arm(f)
        BY <2>11, ExcusesStay DEF Arm, OwnPlans, Clearing, Live, Turns, Wakes, Free, AllTyped, LocalsTyped
    <2>12. CASE Publish(f)
        BY <2>12, ExcusesStay DEF Publish, OwnPlans, Clearing, Live, Turns, Wakes, Free, AllTyped, LocalsTyped,
            Trouble, NumbersTyped
    <2>13. CASE Fail(f)
        BY <2>13, ExcusesStay DEF Fail, OwnPlans, Clearing, Live, Turns, Wakes, Free, AllTyped, LocalsTyped
    <2>14. CASE Accept(f)
        BY <2>14, ExcusesStay DEF Accept, OwnPlans, Clearing, Live, Turns, Wakes, Free, AllTyped, LocalsTyped
    <2>15. CASE RetrySummary(f)
        BY <2>15, ExcusesStay DEF RetrySummary, OwnPlans, Clearing, Live, Turns, Wakes, Free, AllTyped,
            LocalsTyped, Trouble, NumbersTyped
    <2>16. CASE Persist(f)
        BY <2>16, ExcusesStay DEF Persist, OwnPlans, Clearing, Live, Turns, Wakes, Free, AllTyped, LocalsTyped,
            Trouble, NumbersTyped
    <2>17. CASE Complete(f)
        BY <2>17, ExcusesStay DEF Complete, OwnPlans, Clearing, Live, Turns, Wakes, Free, AllTyped, LocalsTyped
    <2>18. CASE Settle(f)
        BY <2>18, ExcusesStay DEF Settle, OwnPlans, Clearing, Live, Turns, Wakes, Free, AllTyped, LocalsTyped
    <2>19. CASE ErrorTooLong(f)
        BY <2>19, ExcusesStay DEF ErrorTooLong, OwnPlans, Clearing, Live, Turns, Wakes, Free, AllTyped, LocalsTyped
    <2>20. CASE ErrorFallback(f)
        BY <2>20, ExcusesStay DEF ErrorFallback, OwnPlans, Clearing, Live, Turns, Wakes, Free, AllTyped, LocalsTyped
    <2>21. CASE ErrorOther(f)
        BY <2>21, ExcusesStay DEF ErrorOther, OwnPlans, Clearing, Live, Turns, Wakes, Free, AllTyped, LocalsTyped
    <2>22. CASE ErrorState(f)
        BY <2>22, ExcusesStay DEF ErrorState, OwnPlans, Clearing, Live, Turns, Wakes, Free, AllTyped, LocalsTyped
    <2>23. CASE ErrorReturn(f)
        BY <2>23, ExcusesStay DEF ErrorReturn, OwnPlans, Clearing, Live, Turns, Wakes, Free, AllTyped, LocalsTyped
    <2> QED
        BY <1>2, <2>1, <2>2, <2>3, <2>4, <2>5, <2>6, <2>7, <2>8, <2>9, <2>10, <2>11, <2>12, <2>13, <2>14, <2>15,
            <2>16, <2>17, <2>18, <2>19, <2>20, <2>21, <2>22, <2>23 DEF Local
<1>3. ASSUME NEW f \in Futures, Llm(f) \/ Frontend(f) \/ Client(f) PROVE Live'
    <2>1. CASE LlmAnswer(f)
        BY <2>1, ExcusesStay DEF LlmAnswer, OwnPlans, Clearing, Live, Turns, Wakes, Free, AllTyped, LocalsTyped,
            FlagsTyped
    <2>2. CASE LlmTooLong(f)
        BY <2>2, ExcusesStay DEF LlmTooLong, OwnPlans, Clearing, Live, Turns, Wakes, Free, AllTyped, LocalsTyped
    <2>3. CASE Start(f)
        BY <2>3, ExcusesStay DEF Start, OwnPlans, Clearing, Live, Turns, Wakes, Free, AllTyped, LocalsTyped, Trouble
    <2>4. CASE Reset(f)
        BY <2>4, ExcusesStay DEF Reset, OwnPlans, Clearing, Live, Turns, Wakes, Free, AllTyped, LocalsTyped
    <2>5. CASE CompactSession(f)
        BY <2>5, ExcusesStay DEF CompactSession, OwnPlans, Clearing, Live, Turns, Wakes, Free, AllTyped,
            LocalsTyped, Trouble, NumbersTyped
    <2>6. ASSUME NEW b \in Messages, Respond(f, b) PROVE Live'
        BY <2>6, ExcusesStay DEF Respond, OwnPlans, Clearing, Live, Turns, Wakes, Free, AllTyped, LocalsTyped
    <2>7. ASSUME NEW b \in Messages, ReportError(f, b) PROVE Live'
        BY <2>7, ExcusesStay DEF ReportError, OwnPlans, Clearing, Live, Turns, Wakes, Free, AllTyped, LocalsTyped
    <2> QED
        BY <1>3, <2>1, <2>2, <2>3, <2>4, <2>5, <2>6, <2>7 DEF Llm, Frontend, Client
<1>4. CASE UNCHANGED vars
    BY <1>4, ExcusesStay DEF vars, OwnPlans, Clearing, Live, Turns, Wakes, Free, AllTyped, LocalsTyped
<1> QED
    BY <1>1, <1>2, <1>3, <1>4 DEF Next

\* One task becomes one task, unless a compaction for another session or a
\* prompt that overtakes the workflow comes in.
LEMMA SingleKept ==
    ASSUME AllTyped, OwnPlans, Single, \A f \in Futures : ~CompactSession(f) /\ ~(Start(f) /\ WorkUnderWay),
        [Next]_vars
    PROVE  Single'
<1> USE DEF Goto, Proceed, Return, ClearThen, FailWorkflow, session, runtime, locals, bounds
<1>1. CASE Stop
    BY <1>1 DEF Stop, OwnPlans, Clearing, Single, NoManual, Manual, WorkAlone, Working, OneTask, OneQuestion,
        NobodyArms, Task, Quiet, Wakes, Free, AllTyped, LocalsTyped, EmittedTyped, Messages
<1>2. ASSUME NEW f \in Futures, Local(f) PROVE Single'
    <2>1. CASE ClearPhase(f)
        BY <2>1 DEF ClearPhase, OwnPlans, Clearing, Single, NoManual, Manual, WorkAlone, Working, OneTask,
            OneQuestion, NobodyArms, Task, Quiet, Wakes, Free, AllTyped, LocalsTyped, EmittedTyped, Messages
    <2>2. CASE ClearRest(f)
        BY <2>2 DEF ClearRest, OwnPlans, Clearing, Single, NoManual, Manual, WorkAlone, Working, OneTask,
            OneQuestion, NobodyArms, Task, Quiet, Wakes, Free, AllTyped, LocalsTyped, EmittedTyped, Messages
    <2>3. CASE Launch(f)
        <3>1. NoManual' /\ NobodyArms'
            BY <2>3 DEF Launch, NoManual, NobodyArms, Manual, OwnPlans, Single, NoManual, Manual, NobodyArms,
                OneTask, Task, WorkAlone, Working, Wakes, Clearing, AllTyped, LocalsTyped
        <3>2. WorkAlone'
            BY <2>3 DEF Launch, OwnPlans, Single, NoManual, Manual, NobodyArms, OneTask, Task, WorkAlone,
                Working, Wakes, Clearing, AllTyped, LocalsTyped
        <3>3. OneTask' /\ OneQuestion'
            BY <2>3, TaskMoves DEF Launch, Single, Task, Clearing, AllTyped, LocalsTyped
        <3> QED
            BY <3>1, <3>2, <3>3 DEF Single
    <2>4. CASE Wipe(f)
        BY <2>4 DEF Wipe, OwnPlans, Clearing, Single, NoManual, Manual, WorkAlone, Working, OneTask, OneQuestion,
            NobodyArms, Task, Quiet, Wakes, Free, AllTyped, LocalsTyped, EmittedTyped, Messages
    <2>5. CASE ResetAgain(f)
        BY <2>5 DEF ResetAgain, OwnPlans, Clearing, Single, NoManual, Manual, WorkAlone, Working, OneTask,
            OneQuestion, NobodyArms, Task, Quiet, Wakes, Free, AllTyped, LocalsTyped, EmittedTyped, Messages
    <2>6. CASE Validate(f)
        <3>1. NoManual' /\ NobodyArms'
            BY <2>6 DEF Validate, NoManual, NobodyArms, Manual, OwnPlans, Single, NoManual, Manual, NobodyArms,
                OneTask, Task, WorkAlone, Working, Wakes, Clearing, AllTyped, LocalsTyped
        <3>2. WorkAlone'
            BY <2>6 DEF Validate, OwnPlans, Single, NoManual, Manual, NobodyArms, OneTask, Task, WorkAlone,
                Working, Wakes, Clearing, AllTyped, LocalsTyped
        <3>3. OneTask' /\ OneQuestion'
            BY <2>6, TaskMoves DEF Validate, Single, Task, Clearing, AllTyped, LocalsTyped
        <3> QED
            BY <3>1, <3>2, <3>3 DEF Single
    <2>7. CASE SendRequest(f)
        <3>1. NoManual' /\ NobodyArms' /\ WorkAlone'
            BY <2>7 DEF SendRequest, OwnPlans, Single, NoManual, Manual, NobodyArms, OneTask, Task, WorkAlone,
                Working, Wakes, Clearing, AllTyped, LocalsTyped
        <3>2. OneTask' /\ OneQuestion'
            BY <2>7, TaskEnds DEF SendRequest, Single, Task, Clearing, AllTyped, LocalsTyped
        <3> QED
            BY <3>1, <3>2 DEF Single
    <2>8. CASE NothingToCompact(f)
        <3>1. NoManual' /\ NobodyArms'
            BY <2>8 DEF NothingToCompact, NoManual, NobodyArms, Manual, OwnPlans, Single, NoManual, Manual,
                NobodyArms, OneTask, Task, WorkAlone, Working, Wakes, Clearing, AllTyped, LocalsTyped
        <3>2. WorkAlone'
            BY <2>8 DEF NothingToCompact, OwnPlans, Single, NoManual, Manual, NobodyArms, OneTask, Task,
                WorkAlone, Working, Wakes, Clearing, AllTyped, LocalsTyped
        <3>3. OneTask' /\ OneQuestion'
            BY <2>8, TaskMoves DEF NothingToCompact, Single, Task, Clearing, AllTyped, LocalsTyped
        <3> QED
            BY <3>1, <3>2, <3>3 DEF Single
    <2>9. CASE SelectSplit(f)
        BY <2>9 DEF SelectSplit, OwnPlans, Clearing, Single, NoManual, Manual, WorkAlone, Working, OneTask,
            OneQuestion, NobodyArms, Task, Quiet, Wakes, Free, AllTyped, LocalsTyped, EmittedTyped, Messages
    <2>10. CASE TryBegin(f)
        <3>0. Wakes(f) /\ phase = "idle"
            BY <2>10 DEF TryBegin, Single, NoManual, Manual, WorkAlone, Working, AllTyped, FlagsTyped, Phases
        <3>1. NoManual' /\ NobodyArms'
            BY <2>10, <3>0 DEF TryBegin, NoManual, NobodyArms, Manual, OwnPlans, Single, NoManual, Manual,
                NobodyArms, OneTask, Task, WorkAlone, Working, Wakes, Clearing, AllTyped, LocalsTyped
        <3>2. WorkAlone'
            BY <2>10 DEF TryBegin, OwnPlans, Single, NoManual, Manual, NobodyArms, OneTask, Task, WorkAlone,
                Working, Wakes, Clearing, AllTyped, LocalsTyped
        <3>3. OneTask' /\ OneQuestion'
            BY <2>10, TaskMoves DEF TryBegin, Single, Task, Clearing, AllTyped, LocalsTyped
        <3> QED
            BY <3>1, <3>2, <3>3 DEF Single
    <2>11. CASE Arm(f)
        BY <2>11 DEF Arm, OwnPlans, Clearing, Single, NoManual, Manual, WorkAlone, Working, OneTask, OneQuestion,
            NobodyArms, Task, Quiet, Wakes, Free, AllTyped, LocalsTyped, EmittedTyped, Messages
    <2>12. CASE Publish(f)
        <3>1. NoManual' /\ NobodyArms'
            BY <2>12 DEF Publish, OwnPlans, Single, NoManual, Manual, NobodyArms, OneTask, Task, WorkAlone,
                Working, Wakes, Clearing, AllTyped, LocalsTyped
        <3>2. WorkAlone'
            BY <2>12 DEF Publish, OwnPlans, Single, NoManual, Manual, NobodyArms, OneTask, Task, WorkAlone,
                Working, Wakes, Clearing, AllTyped, LocalsTyped
        <3>3. CASE Emit(to[f]) /\ Return(f)
            <4>1. OneTask' /\ OneQuestion'
                BY <2>12, <3>3, TaskEnds DEF Publish, OwnPlans, Single, Task, Clearing, AllTyped, LocalsTyped
            <4> QED
                BY <3>1, <3>2, <4>1 DEF Single
        <3>4. CASE emitted' = emitted /\ ClearThen(f, after[f])
            <4>1. OneTask' /\ OneQuestion'
                BY <2>12, <3>4, TaskMoves DEF Publish, Single, Task, Clearing, AllTyped, LocalsTyped
            <4> QED
                BY <3>1, <3>2, <4>1 DEF Single
        <3> QED
            BY <2>12, <3>3, <3>4 DEF Publish
    <2>13. CASE Fail(f)
        BY <2>13 DEF Fail, OwnPlans, Clearing, Single, NoManual, Manual, WorkAlone, Working, OneTask,
            OneQuestion, NobodyArms, Task, Quiet, Wakes, Free, AllTyped, LocalsTyped, EmittedTyped, Messages
    <2>14. CASE Accept(f)
        <3>1. NoManual' /\ NobodyArms'
            BY <2>14 DEF Accept, NoManual, NobodyArms, Manual, OwnPlans, Single, NoManual, Manual, NobodyArms,
                OneTask, Task, WorkAlone, Working, Wakes, Clearing, AllTyped, LocalsTyped
        <3>2. WorkAlone'
            BY <2>14 DEF Accept, OwnPlans, Single, NoManual, Manual, NobodyArms, OneTask, Task, WorkAlone,
                Working, Wakes, Clearing, AllTyped, LocalsTyped
        <3>3. OneTask' /\ OneQuestion'
            BY <2>14, TaskMoves DEF Accept, Single, Task, Clearing, AllTyped, LocalsTyped
        <3> QED
            BY <3>1, <3>2, <3>3 DEF Single
    <2>15. CASE RetrySummary(f)
        <3>1. CASE request # NoMessage /\ Emit(request) /\ Return(f)
            <4>1. request \in Messages
                BY <3>1 DEF AllTyped, NumbersTyped, Messages, NoMessage
            <4>2. NoManual' /\ NobodyArms' /\ WorkAlone'
                BY <2>15, <3>1 DEF RetrySummary, OwnPlans, Single, NoManual, Manual, NobodyArms, OneTask, Task,
                    WorkAlone, Working, Wakes, Clearing, AllTyped, LocalsTyped
            <4>3. OneTask' /\ OneQuestion'
                BY <2>15, <3>1, <4>1, TaskEnds DEF RetrySummary, Single, Task, Clearing, AllTyped, LocalsTyped
            <4> QED
                BY <4>2, <4>3 DEF Single
        <3>2. CASE emitted' = emitted /\ (Proceed(f, after[f]) \/ (Goto(f, "persist") /\ UNCHANGED <<to, plan,
            after>>))
            <4>1. NoManual' /\ NobodyArms'
                BY <2>15, <3>2 DEF RetrySummary, OwnPlans, Single, NoManual, Manual, NobodyArms, OneTask, Task,
                    WorkAlone, Working, Wakes, Clearing, AllTyped, LocalsTyped
            <4>2. WorkAlone'
                BY <2>15, <3>2 DEF RetrySummary, OwnPlans, Single, NoManual, Manual, NobodyArms, OneTask, Task,
                    WorkAlone, Working, Wakes, Clearing, AllTyped, LocalsTyped
            <4>3. OneTask' /\ OneQuestion'
                BY <2>15, <3>2, TaskMoves DEF RetrySummary, Single, Task, Clearing, AllTyped, LocalsTyped
            <4> QED
                BY <4>1, <4>2, <4>3 DEF Single
        <3> QED
            BY <2>15, <3>1, <3>2 DEF RetrySummary
    <2>16. CASE Persist(f)
        <3>1. NoManual' /\ NobodyArms'
            BY <2>16 DEF Persist, NoManual, NobodyArms, Manual, OwnPlans, Single, NoManual, Manual, NobodyArms,
                OneTask, Task, WorkAlone, Working, Wakes, Clearing, AllTyped, LocalsTyped
        <3>2. WorkAlone'
            BY <2>16 DEF Persist, OwnPlans, Single, NoManual, Manual, NobodyArms, OneTask, Task, WorkAlone,
                Working, Wakes, Clearing, AllTyped, LocalsTyped
        <3>3. OneTask' /\ OneQuestion'
            BY <2>16, TaskMoves DEF Persist, Single, Task, Clearing, AllTyped, LocalsTyped
        <3> QED
            BY <3>1, <3>2, <3>3 DEF Single
    <2>17. CASE Complete(f)
        BY <2>17 DEF Complete, OwnPlans, Clearing, Single, NoManual, Manual, WorkAlone, Working, OneTask,
            OneQuestion, NobodyArms, Task, Quiet, Wakes, Free, AllTyped, LocalsTyped, EmittedTyped, Messages
    <2>18. CASE Settle(f)
        <3>1. NoManual' /\ NobodyArms'
            BY <2>18 DEF Settle, NoManual, NobodyArms, Manual, OwnPlans, Single, NoManual, Manual, NobodyArms,
                OneTask, Task, WorkAlone, Working, Wakes, Clearing, AllTyped, LocalsTyped
        <3>2. WorkAlone'
            BY <2>18 DEF Settle, OwnPlans, Single, NoManual, Manual, NobodyArms, OneTask, Task, WorkAlone,
                Working, Wakes, Clearing, AllTyped, LocalsTyped
        <3>3. OneTask' /\ OneQuestion'
            BY <2>18, TaskMoves DEF Settle, Single, Task, Clearing, AllTyped, LocalsTyped
        <3> QED
            BY <3>1, <3>2, <3>3 DEF Single
    <2>19. CASE ErrorTooLong(f)
        BY <2>19 DEF ErrorTooLong, OwnPlans, Clearing, Single, NoManual, Manual, WorkAlone, Working, OneTask,
            OneQuestion, NobodyArms, Task, Quiet, Wakes, Free, AllTyped, LocalsTyped, EmittedTyped, Messages
    <2>20. CASE ErrorFallback(f)
        BY <2>20 DEF ErrorFallback, OwnPlans, Clearing, Single, NoManual, Manual, WorkAlone, Working, OneTask,
            OneQuestion, NobodyArms, Task, Quiet, Wakes, Free, AllTyped, LocalsTyped, EmittedTyped, Messages
    <2>21. CASE ErrorOther(f)
        BY <2>21 DEF ErrorOther, OwnPlans, Clearing, Single, NoManual, Manual, WorkAlone, Working, OneTask,
            OneQuestion, NobodyArms, Task, Quiet, Wakes, Free, AllTyped, LocalsTyped, EmittedTyped, Messages
    <2>22. CASE ErrorState(f)
        BY <2>22 DEF ErrorState, OwnPlans, Clearing, Single, NoManual, Manual, WorkAlone, Working, OneTask,
            OneQuestion, NobodyArms, Task, Quiet, Wakes, Free, AllTyped, LocalsTyped, EmittedTyped, Messages
    <2>23. CASE ErrorReturn(f)
        BY <2>23 DEF ErrorReturn, OwnPlans, Clearing, Single, NoManual, Manual, WorkAlone, Working, OneTask,
            OneQuestion, NobodyArms, Task, Quiet, Wakes, Free, AllTyped, LocalsTyped, EmittedTyped, Messages
    <2> QED
        BY <1>2, <2>1, <2>2, <2>3, <2>4, <2>5, <2>6, <2>7, <2>8, <2>9, <2>10, <2>11, <2>12, <2>13, <2>14, <2>15,
            <2>16, <2>17, <2>18, <2>19, <2>20, <2>21, <2>22, <2>23 DEF Local
<1>3. ASSUME NEW f \in Futures, Llm(f) \/ Frontend(f) \/ Client(f) PROVE Single'
    <2>1. CASE LlmAnswer(f)
        BY <2>1 DEF LlmAnswer, OwnPlans, Clearing, Single, NoManual, Manual, WorkAlone, Working, OneTask,
            OneQuestion, NobodyArms, Task, Quiet, Wakes, Free, AllTyped, LocalsTyped, EmittedTyped, Messages
    <2>2. CASE LlmTooLong(f)
        BY <2>2 DEF LlmTooLong, OwnPlans, Clearing, Single, NoManual, Manual, WorkAlone, Working, OneTask,
            OneQuestion, NobodyArms, Task, Quiet, Wakes, Free, AllTyped, LocalsTyped, EmittedTyped, Messages
    <2>3. CASE Start(f)
        <3>1. ~WorkUnderWay
            BY <2>3
        <3>2. asked = "none" /\ phase # "preflight" /\ \A g \in Futures : ~Task(g) \/ Manual(g)
            BY <3>1 DEF WorkUnderWay, Free, Task, Manual
        <3>3. Quiet
            BY <3>1 DEF WorkUnderWay, Single, NoManual, Quiet, AllTyped, EmittedTyped
        <3>4. \A g \in Futures : ~Task(g) /\ ~Working(g)
            BY <3>2 DEF Single, NoManual, Task, Working, Clearing
        <3>5. NoManual' /\ NobodyArms'
            BY <2>3 DEF Start, OwnPlans, Single, NoManual, Manual, NobodyArms, OneTask, Task, WorkAlone, Working,
                Wakes, Clearing, AllTyped, LocalsTyped, Free
        <3>6. WorkAlone'
            BY <2>3, <3>2, <3>4 DEF Start, WorkAlone, Working, Wakes, Clearing, AllTyped, LocalsTyped
        <3>7. OneTask'
            BY <2>3, <3>2, <3>3, <3>4 DEF Start, OneTask, Task, Quiet, Clearing, AllTyped, LocalsTyped
        <3>8. OneQuestion'
            BY <2>3, <3>3 DEF Start, OneQuestion, Quiet
        <3> QED
            BY <3>5, <3>6, <3>7, <3>8 DEF Single
    <2>4. CASE Reset(f)
        BY <2>4 DEF Reset, OwnPlans, Clearing, Single, NoManual, Manual, WorkAlone, Working, OneTask,
            OneQuestion, NobodyArms, Task, Quiet, Wakes, Free, AllTyped, LocalsTyped, EmittedTyped, Messages
    <2>5. CASE CompactSession(f)
        BY <2>5 DEF CompactSession, OwnPlans, Clearing, Single, NoManual, Manual, WorkAlone, Working, OneTask,
            OneQuestion, NobodyArms, Task, Quiet, Wakes, Free, AllTyped, LocalsTyped, EmittedTyped, Messages
    <2>6. ASSUME NEW b \in Messages, Respond(f, b) PROVE Single'
        BY <2>6 DEF Respond, OwnPlans, Clearing, Single, NoManual, Manual, WorkAlone, Working, OneTask,
            OneQuestion, NobodyArms, Task, Quiet, Wakes, Free, AllTyped, LocalsTyped, EmittedTyped, Messages
    <2>7. ASSUME NEW b \in Messages, ReportError(f, b) PROVE Single'
        BY <2>7 DEF ReportError, OwnPlans, Clearing, Single, NoManual, Manual, WorkAlone, Working, OneTask,
            OneQuestion, NobodyArms, Task, Quiet, Wakes, Free, AllTyped, LocalsTyped, EmittedTyped, Messages
    <2> QED
        BY <1>3, <2>1, <2>2, <2>3, <2>4, <2>5, <2>6, <2>7 DEF Llm, Frontend, Client
<1>4. CASE UNCHANGED vars
    BY <1>4 DEF vars, OwnPlans, Clearing, Single, NoManual, Manual, WorkAlone, Working, OneTask, OneQuestion,
        NobodyArms, Task, Quiet, Wakes, Free, AllTyped, LocalsTyped, EmittedTyped, Messages
<1> QED
    BY <1>1, <1>2, <1>3, <1>4 DEF Next

\* While nothing fails, whoever settles a compaction finds no other work.
LEMMA WorkAloneKept ==
    ASSUME AllTyped, OwnPlans, Apart, NoErrors, WorkAlone, ~crossed,
        \A f \in Futures : ~(Start(f) /\ WorkUnderWay), [Next]_vars
    PROVE  WorkAlone'
<1> USE DEF Goto, Proceed, Return, ClearThen, FailWorkflow, session, runtime, locals, bounds
<1>1. CASE Stop
    BY <1>1 DEF Stop, OwnPlans, WorkAlone, Working, Wakes, Clearing, Free, AllTyped, LocalsTyped
<1>2. ASSUME NEW f \in Futures, Local(f) PROVE WorkAlone'
    <2>1. CASE ClearPhase(f)
        BY <2>1 DEF ClearPhase, OwnPlans, WorkAlone, Working, Wakes, Clearing, Free, AllTyped, LocalsTyped
    <2>2. CASE ClearRest(f)
        BY <2>2 DEF ClearRest, OwnPlans, WorkAlone, Working, Wakes, Clearing, Free, AllTyped, LocalsTyped
    <2>3. CASE Launch(f)
        BY <2>3 DEF Launch, OwnPlans, WorkAlone, Working, Wakes, Clearing, Free, AllTyped, LocalsTyped
    <2>4. CASE Wipe(f)
        BY <2>4 DEF Wipe, OwnPlans, WorkAlone, Working, Wakes, Clearing, Free, AllTyped, LocalsTyped
    <2>5. CASE ResetAgain(f)
        BY <2>5 DEF ResetAgain, OwnPlans, WorkAlone, Working, Wakes, Clearing, Free, AllTyped, LocalsTyped
    <2>6. CASE Validate(f)
        BY <2>6 DEF Validate, OwnPlans, WorkAlone, Working, Wakes, Clearing, Free, AllTyped, LocalsTyped
    <2>7. CASE SendRequest(f)
        BY <2>7 DEF SendRequest, OwnPlans, WorkAlone, Working, Wakes, Clearing, Free, AllTyped, LocalsTyped
    <2>8. CASE NothingToCompact(f)
        BY <2>8 DEF NothingToCompact, OwnPlans, WorkAlone, Working, Wakes, Clearing, Free, AllTyped, LocalsTyped
    <2>9. CASE SelectSplit(f)
        BY <2>9 DEF SelectSplit, OwnPlans, WorkAlone, Working, Wakes, Clearing, Free, AllTyped, LocalsTyped
    <2>10. CASE TryBegin(f)
        BY <2>10 DEF TryBegin, OwnPlans, WorkAlone, Working, Wakes, Clearing, Free, AllTyped, LocalsTyped
    <2>11. CASE Arm(f)
        BY <2>11 DEF Arm, OwnPlans, WorkAlone, Working, Wakes, Clearing, Free, AllTyped, LocalsTyped, FlagsTyped,
            Phases
    <2>12. CASE Publish(f)
        BY <2>12 DEF Publish, OwnPlans, WorkAlone, Working, Wakes, Clearing, Free, AllTyped, LocalsTyped
    <2>13. CASE Fail(f)
        BY <2>13 DEF Fail, OwnPlans, WorkAlone, Working, Wakes, Clearing, Free, AllTyped, LocalsTyped
    <2>14. CASE Accept(f)
        BY <2>14 DEF Accept, OwnPlans, WorkAlone, Working, Wakes, Clearing, Free, AllTyped, LocalsTyped
    <2>15. CASE RetrySummary(f)
        BY <2>15 DEF RetrySummary, OwnPlans, WorkAlone, Working, Wakes, Clearing, Free, AllTyped, LocalsTyped
    <2>16. CASE Persist(f)
        BY <2>16 DEF Persist, OwnPlans, WorkAlone, Working, Wakes, Clearing, Free, AllTyped, LocalsTyped
    <2>17. CASE Complete(f)
        BY <2>17 DEF Complete, OwnPlans, WorkAlone, Working, Wakes, Clearing, Free, AllTyped, LocalsTyped
    <2>18. CASE Settle(f)
        <3>1. phase = "preflight" => \A g \in Futures : ~Working(g)
            BY <2>18 DEF Settle, Apart, WorkAlone, NoErrors, Erring, Clearing
        <3>2. WorkAlone'
            BY <2>18, <3>1 DEF Settle, WorkAlone, Working, Wakes, Clearing, AllTyped, LocalsTyped
        <3> QED
            BY <3>2
    <2>19. CASE ErrorTooLong(f)
        BY <2>19 DEF ErrorTooLong, OwnPlans, WorkAlone, Working, Wakes, Clearing, Free, AllTyped, LocalsTyped,
            NoErrors, Erring
    <2>20. CASE ErrorFallback(f)
        BY <2>20 DEF ErrorFallback, OwnPlans, WorkAlone, Working, Wakes, Clearing, Free, AllTyped, LocalsTyped
    <2>21. CASE ErrorOther(f)
        BY <2>21 DEF ErrorOther, OwnPlans, WorkAlone, Working, Wakes, Clearing, Free, AllTyped, LocalsTyped
    <2>22. CASE ErrorState(f)
        BY <2>22 DEF ErrorState, OwnPlans, WorkAlone, Working, Wakes, Clearing, Free, AllTyped, LocalsTyped
    <2>23. CASE ErrorReturn(f)
        BY <2>23 DEF ErrorReturn, OwnPlans, WorkAlone, Working, Wakes, Clearing, Free, AllTyped, LocalsTyped
    <2> QED
        BY <1>2, <2>1, <2>2, <2>3, <2>4, <2>5, <2>6, <2>7, <2>8, <2>9, <2>10, <2>11, <2>12, <2>13, <2>14, <2>15,
            <2>16, <2>17, <2>18, <2>19, <2>20, <2>21, <2>22, <2>23 DEF Local
<1>3. ASSUME NEW f \in Futures, Llm(f) \/ Frontend(f) \/ Client(f) PROVE WorkAlone'
    <2>1. CASE LlmAnswer(f)
        BY <2>1 DEF LlmAnswer, OwnPlans, WorkAlone, Working, Wakes, Clearing, Free, AllTyped, LocalsTyped
    <2>2. CASE LlmTooLong(f)
        BY <2>2 DEF LlmTooLong, OwnPlans, WorkAlone, Working, Wakes, Clearing, Free, AllTyped, LocalsTyped
    <2>3. CASE Start(f)
        <3>1. ~WorkUnderWay
            BY <2>3
        <3>2. asked = "none" /\ phase # "preflight" /\ \A g \in Futures : ~Working(g)
            BY <3>1 DEF WorkUnderWay, Free, Working, Clearing
        <3> QED
            BY <2>3, <3>2 DEF Start, WorkAlone, Working, Wakes, Clearing, AllTyped, LocalsTyped
    <2>4. CASE Reset(f)
        BY <2>4 DEF Reset, OwnPlans, WorkAlone, Working, Wakes, Clearing, Free, AllTyped, LocalsTyped
    <2>5. CASE CompactSession(f)
        BY <2>5 DEF CompactSession, OwnPlans, WorkAlone, Working, Wakes, Clearing, Free, AllTyped, LocalsTyped
    <2>6. ASSUME NEW b \in Messages, Respond(f, b) PROVE WorkAlone'
        BY <2>6 DEF Respond, OwnPlans, WorkAlone, Working, Wakes, Clearing, Free, AllTyped, LocalsTyped
    <2>7. ASSUME NEW b \in Messages, ReportError(f, b) PROVE WorkAlone'
        BY <2>7 DEF ReportError, OwnPlans, WorkAlone, Working, Wakes, Clearing, Free, AllTyped, LocalsTyped
    <2> QED
        BY <1>3, <2>1, <2>2, <2>3, <2>4, <2>5, <2>6, <2>7 DEF Llm, Frontend, Client
<1>4. CASE UNCHANGED vars
    BY <1>4 DEF vars, OwnPlans, WorkAlone, Working, Wakes, Clearing, Free, AllTyped, LocalsTyped
<1> QED
    BY <1>1, <1>2, <1>3, <1>4 DEF Next

\* The boundaries on their way stay ahead of the summary.
LEMMA NewerKept ==
    ASSUME AllTyped, OwnPlans, Single, Newer, [Next]_vars
    PROVE  Newer'
<1> USE DEF Goto, Proceed, Return, ClearThen, FailWorkflow, session, runtime, locals, bounds
<1>1. CASE Stop
    BY <1>1 DEF Stop, OwnPlans, Newer, Free, AllTyped, LocalsTyped, NumbersTyped, NoMessage, Messages
<1>2. ASSUME NEW f \in Futures, Local(f) PROVE Newer'
    <2>1. CASE ClearPhase(f)
        BY <2>1 DEF ClearPhase, OwnPlans, Newer, Free, AllTyped, LocalsTyped, NumbersTyped, NoMessage, Messages
    <2>2. CASE ClearRest(f)
        BY <2>2 DEF ClearRest, OwnPlans, Newer, Free, AllTyped, LocalsTyped, NumbersTyped, NoMessage, Messages,
            Clearing
    <2>3. CASE Launch(f)
        BY <2>3 DEF Launch, OwnPlans, Newer, Free, AllTyped, LocalsTyped, NumbersTyped, NoMessage, Messages
    <2>4. CASE Wipe(f)
        BY <2>4 DEF Wipe, OwnPlans, Newer, Free, AllTyped, LocalsTyped, NumbersTyped, NoMessage, Messages
    <2>5. CASE ResetAgain(f)
        BY <2>5 DEF ResetAgain, OwnPlans, Newer, Free, AllTyped, LocalsTyped, NumbersTyped, NoMessage, Messages
    <2>6. CASE Validate(f)
        BY <2>6 DEF Validate, OwnPlans, Newer, Free, AllTyped, LocalsTyped, NumbersTyped, NoMessage, Messages
    <2>7. CASE SendRequest(f)
        BY <2>7 DEF SendRequest, OwnPlans, Newer, Free, AllTyped, LocalsTyped, NumbersTyped, NoMessage, Messages
    <2>8. CASE NothingToCompact(f)
        BY <2>8 DEF NothingToCompact, OwnPlans, Newer, Free, AllTyped, LocalsTyped, NumbersTyped, NoMessage, Messages
    <2>9. CASE SelectSplit(f)
        BY <2>9, PresentMessages DEF SelectSplit, OwnPlans, Newer, Free, AllTyped, LocalsTyped, NumbersTyped,
            NoMessage, Messages
    <2>10. CASE TryBegin(f)
        BY <2>10 DEF TryBegin, OwnPlans, Newer, Free, AllTyped, LocalsTyped, NumbersTyped, NoMessage, Messages
    <2>11. CASE Arm(f)
        BY <2>11 DEF Arm, OwnPlans, Newer, Free, AllTyped, LocalsTyped, NumbersTyped, NoMessage, Messages
    <2>12. CASE Publish(f)
        <3>1. to[f] \in Messages /\ to[f] >= record /\ request' = to[f] /\ record' = record
            BY <2>12 DEF Publish, OwnPlans, Newer
        <3>2. \A g \in Futures \ {f} : pc'[g] \notin {"begin", "publish", "accept", "invalid", "persist"}
            BY <2>12 DEF Publish, Single, OneTask, Task, Clearing, AllTyped, LocalsTyped
        <3>3. pc'[f] \notin {"begin", "publish", "accept", "invalid", "persist"}
            BY <2>12 DEF Publish, AllTyped, LocalsTyped
        <3>4. \A b \in Messages : emitted'[b] > 0 => b >= record
            BY <2>12, <3>1 DEF Publish, Newer, Emit, AllTyped, EmittedTyped
        <3> QED
            BY <3>1, <3>2, <3>3, <3>4 DEF Newer
    <2>13. CASE Fail(f)
        BY <2>13 DEF Fail, OwnPlans, Newer, Free, AllTyped, LocalsTyped, NumbersTyped, NoMessage, Messages
    <2>14. CASE Accept(f)
        BY <2>14 DEF Accept, OwnPlans, Newer, Free, AllTyped, LocalsTyped, NumbersTyped, NoMessage, Messages
    <2>15. CASE RetrySummary(f)
        BY <2>15 DEF RetrySummary, OwnPlans, Newer, Free, AllTyped, LocalsTyped, NumbersTyped, NoMessage,
            Messages, Emit, EmittedTyped
    <2>16. CASE Persist(f)
        BY <2>16 DEF Persist, OwnPlans, Newer, Free, AllTyped, LocalsTyped, NumbersTyped, NoMessage, Messages,
            Single, OneTask, Task, Clearing, Quiet
    <2>17. CASE Complete(f)
        BY <2>17 DEF Complete, OwnPlans, Newer, Free, AllTyped, LocalsTyped, NumbersTyped, NoMessage, Messages
    <2>18. CASE Settle(f)
        BY <2>18 DEF Settle, OwnPlans, Newer, Free, AllTyped, LocalsTyped, NumbersTyped, NoMessage, Messages
    <2>19. CASE ErrorTooLong(f)
        BY <2>19 DEF ErrorTooLong, OwnPlans, Newer, Free, AllTyped, LocalsTyped, NumbersTyped, NoMessage, Messages
    <2>20. CASE ErrorFallback(f)
        BY <2>20 DEF ErrorFallback, OwnPlans, Newer, Free, AllTyped, LocalsTyped, NumbersTyped, NoMessage, Messages
    <2>21. CASE ErrorOther(f)
        BY <2>21 DEF ErrorOther, OwnPlans, Newer, Free, AllTyped, LocalsTyped, NumbersTyped, NoMessage, Messages
    <2>22. CASE ErrorState(f)
        BY <2>22 DEF ErrorState, OwnPlans, Newer, Free, AllTyped, LocalsTyped, NumbersTyped, NoMessage, Messages
    <2>23. CASE ErrorReturn(f)
        BY <2>23 DEF ErrorReturn, OwnPlans, Newer, Free, AllTyped, LocalsTyped, NumbersTyped, NoMessage, Messages
    <2> QED
        BY <1>2, <2>1, <2>2, <2>3, <2>4, <2>5, <2>6, <2>7, <2>8, <2>9, <2>10, <2>11, <2>12, <2>13, <2>14, <2>15,
            <2>16, <2>17, <2>18, <2>19, <2>20, <2>21, <2>22, <2>23 DEF Local
<1>3. ASSUME NEW f \in Futures, Llm(f) \/ Frontend(f) \/ Client(f) PROVE Newer'
    <2>1. CASE LlmAnswer(f)
        BY <2>1 DEF LlmAnswer, OwnPlans, Newer, Free, AllTyped, LocalsTyped, NumbersTyped, NoMessage, Messages
    <2>2. CASE LlmTooLong(f)
        BY <2>2 DEF LlmTooLong, OwnPlans, Newer, Free, AllTyped, LocalsTyped, NumbersTyped, NoMessage, Messages
    <2>3. CASE Start(f)
        BY <2>3 DEF Start, OwnPlans, Newer, Free, AllTyped, LocalsTyped, NumbersTyped, NoMessage, Messages
    <2>4. CASE Reset(f)
        BY <2>4 DEF Reset, OwnPlans, Newer, Free, AllTyped, LocalsTyped, NumbersTyped, NoMessage, Messages
    <2>5. CASE CompactSession(f)
        BY <2>5 DEF CompactSession, OwnPlans, Newer, Free, AllTyped, LocalsTyped, NumbersTyped, NoMessage, Messages
    <2>6. ASSUME NEW b \in Messages, Respond(f, b) PROVE Newer'
        BY <2>6 DEF Respond, OwnPlans, Newer, Free, AllTyped, LocalsTyped, NumbersTyped, NoMessage, Messages,
            EmittedTyped
    <2>7. ASSUME NEW b \in Messages, ReportError(f, b) PROVE Newer'
        BY <2>7 DEF ReportError, OwnPlans, Newer, Free, AllTyped, LocalsTyped, NumbersTyped, NoMessage, Messages
    <2> QED
        BY <1>3, <2>1, <2>2, <2>3, <2>4, <2>5, <2>6, <2>7 DEF Llm, Frontend, Client
<1>4. CASE UNCHANGED vars
    BY <1>4 DEF vars, OwnPlans, Newer, Free, AllTyped, LocalsTyped, NumbersTyped, NoMessage, Messages
<1> QED
    BY <1>1, <1>2, <1>3, <1>4 DEF Next

\* An error begins with a report of the frontend or with a trouble.
LEMMA ErrorsCome ==
    ASSUME AllTyped, OwnPlans, NoErrors, [Next]_vars
    PROVE  NoErrors' \/ failed' \/ troubles' > troubles
<1> USE DEF Goto, Proceed, Return, ClearThen, FailWorkflow, session, runtime, locals, bounds
<1>1. CASE Stop
    BY <1>1 DEF Stop, NoErrors, Erring, Clearing, Free, OwnPlans, AllTyped, LocalsTyped, NumbersTyped
<1>2. ASSUME NEW f \in Futures, Local(f) PROVE NoErrors' \/ failed' \/ troubles' > troubles
    <2>1. CASE ClearPhase(f)
        BY <2>1 DEF ClearPhase, NoErrors, Erring, Clearing, Free, OwnPlans, AllTyped, LocalsTyped, NumbersTyped
    <2>2. CASE ClearRest(f)
        BY <2>2 DEF ClearRest, NoErrors, Erring, Clearing, Free, OwnPlans, AllTyped, LocalsTyped, NumbersTyped
    <2>3. CASE Launch(f)
        BY <2>3 DEF Launch, NoErrors, Erring, Clearing, Free, OwnPlans, AllTyped, LocalsTyped, NumbersTyped
    <2>4. CASE Wipe(f)
        BY <2>4 DEF Wipe, NoErrors, Erring, Clearing, Free, OwnPlans, AllTyped, LocalsTyped, NumbersTyped
    <2>5. CASE ResetAgain(f)
        BY <2>5 DEF ResetAgain, NoErrors, Erring, Clearing, Free, OwnPlans, AllTyped, LocalsTyped, NumbersTyped
    <2>6. CASE Validate(f)
        BY <2>6 DEF Validate, NoErrors, Erring, Clearing, Free, OwnPlans, AllTyped, LocalsTyped, NumbersTyped
    <2>7. CASE SendRequest(f)
        BY <2>7 DEF SendRequest, NoErrors, Erring, Clearing, Free, OwnPlans, AllTyped, LocalsTyped, NumbersTyped
    <2>8. CASE NothingToCompact(f)
        BY <2>8 DEF NothingToCompact, NoErrors, Erring, Clearing, Free, OwnPlans, AllTyped, LocalsTyped, NumbersTyped
    <2>9. CASE SelectSplit(f)
        BY <2>9 DEF SelectSplit, NoErrors, Erring, Clearing, Free, OwnPlans, AllTyped, LocalsTyped, NumbersTyped
    <2>10. CASE TryBegin(f)
        BY <2>10 DEF TryBegin, NoErrors, Erring, Clearing, Free, OwnPlans, AllTyped, LocalsTyped, NumbersTyped
    <2>11. CASE Arm(f)
        BY <2>11 DEF Arm, NoErrors, Erring, Clearing, Free, OwnPlans, AllTyped, LocalsTyped, NumbersTyped
    <2>12. CASE Publish(f)
        BY <2>12 DEF Publish, NoErrors, Erring, Clearing, Free, OwnPlans, AllTyped, LocalsTyped, NumbersTyped, Trouble
    <2>13. CASE Fail(f)
        BY <2>13 DEF Fail, NoErrors, Erring, Clearing, Free, OwnPlans, AllTyped, LocalsTyped, NumbersTyped
    <2>14. CASE Accept(f)
        BY <2>14 DEF Accept, NoErrors, Erring, Clearing, Free, OwnPlans, AllTyped, LocalsTyped, NumbersTyped
    <2>15. CASE RetrySummary(f)
        BY <2>15 DEF RetrySummary, NoErrors, Erring, Clearing, Free, OwnPlans, AllTyped, LocalsTyped,
            NumbersTyped, Trouble
    <2>16. CASE Persist(f)
        BY <2>16 DEF Persist, NoErrors, Erring, Clearing, Free, OwnPlans, AllTyped, LocalsTyped, NumbersTyped, Trouble
    <2>17. CASE Complete(f)
        BY <2>17 DEF Complete, NoErrors, Erring, Clearing, Free, OwnPlans, AllTyped, LocalsTyped, NumbersTyped
    <2>18. CASE Settle(f)
        BY <2>18 DEF Settle, NoErrors, Erring, Clearing, Free, OwnPlans, AllTyped, LocalsTyped, NumbersTyped
    <2>19. CASE ErrorTooLong(f)
        BY <2>19 DEF ErrorTooLong, NoErrors, Erring, Clearing, Free, OwnPlans, AllTyped, LocalsTyped, NumbersTyped
    <2>20. CASE ErrorFallback(f)
        BY <2>20 DEF ErrorFallback, NoErrors, Erring, Clearing, Free, OwnPlans, AllTyped, LocalsTyped, NumbersTyped
    <2>21. CASE ErrorOther(f)
        BY <2>21 DEF ErrorOther, NoErrors, Erring, Clearing, Free, OwnPlans, AllTyped, LocalsTyped, NumbersTyped
    <2>22. CASE ErrorState(f)
        BY <2>22 DEF ErrorState, NoErrors, Erring, Clearing, Free, OwnPlans, AllTyped, LocalsTyped, NumbersTyped
    <2>23. CASE ErrorReturn(f)
        BY <2>23 DEF ErrorReturn, NoErrors, Erring, Clearing, Free, OwnPlans, AllTyped, LocalsTyped, NumbersTyped
    <2> QED
        BY <1>2, <2>1, <2>2, <2>3, <2>4, <2>5, <2>6, <2>7, <2>8, <2>9, <2>10, <2>11, <2>12, <2>13, <2>14, <2>15,
            <2>16, <2>17, <2>18, <2>19, <2>20, <2>21, <2>22, <2>23 DEF Local
<1>3. ASSUME NEW f \in Futures, Llm(f) \/ Frontend(f) \/ Client(f) PROVE NoErrors' \/ failed' \/ troubles' > troubles
    <2>1. CASE LlmAnswer(f)
        BY <2>1 DEF LlmAnswer, NoErrors, Erring, Clearing, Free, OwnPlans, AllTyped, LocalsTyped, NumbersTyped
    <2>2. CASE LlmTooLong(f)
        BY <2>2 DEF LlmTooLong, NoErrors, Erring, Clearing, Free, OwnPlans, AllTyped, LocalsTyped, NumbersTyped
    <2>3. CASE Start(f)
        BY <2>3 DEF Start, NoErrors, Erring, Clearing, Free, OwnPlans, AllTyped, LocalsTyped, NumbersTyped
    <2>4. CASE Reset(f)
        BY <2>4 DEF Reset, NoErrors, Erring, Clearing, Free, OwnPlans, AllTyped, LocalsTyped, NumbersTyped
    <2>5. CASE CompactSession(f)
        BY <2>5 DEF CompactSession, NoErrors, Erring, Clearing, Free, OwnPlans, AllTyped, LocalsTyped, NumbersTyped
    <2>6. ASSUME NEW b \in Messages, Respond(f, b) PROVE NoErrors' \/ failed' \/ troubles' > troubles
        BY <2>6 DEF Respond, NoErrors, Erring, Clearing, Free, OwnPlans, AllTyped, LocalsTyped, NumbersTyped
    <2>7. ASSUME NEW b \in Messages, ReportError(f, b) PROVE NoErrors' \/ failed' \/ troubles' > troubles
        BY <2>7 DEF ReportError, NoErrors, Erring, Clearing, Free, OwnPlans, AllTyped, LocalsTyped, NumbersTyped
    <2> QED
        BY <1>3, <2>1, <2>2, <2>3, <2>4, <2>5, <2>6, <2>7 DEF Llm, Frontend, Client
<1>4. CASE UNCHANGED vars
    BY <1>4 DEF vars, NoErrors, Erring, Clearing, Free, OwnPlans, AllTyped, LocalsTyped, NumbersTyped
<1> QED
    BY <1>1, <1>2, <1>3, <1>4 DEF Next

\* The inductive invariant.
Ends ==
    /\ IInv /\ OwnPlans /\ Apart /\ Paid /\ ReturnsIdle /\ Carried /\ Live /\ Turn
    /\ troubles = 0 => Newer

\* An overtaken workflow is never forgotten, and it takes a trouble.
LEMMA OvertakenStays ==
    ASSUME [Next]_vars
    PROVE  /\ overtaken => overtaken'
           /\ \A f \in Futures : Start(f) /\ WorkUnderWay => overtaken' /\ troubles' = troubles + 1
<1>1. ASSUME NEW f \in Futures, Local(f) PROVE overtaken' = overtaken
    BY <1>1 DEF Local, ClearPhase, ClearRest, Launch, Wipe, ResetAgain, Validate, SendRequest,
        NothingToCompact, SelectSplit, TryBegin, Arm, Publish, Fail, Accept, RetrySummary, Persist, Complete,
        Settle, ErrorTooLong, ErrorFallback, ErrorOther, ErrorState, ErrorReturn, bounds
<1>2. ASSUME NEW f \in Futures, Llm(f) \/ Frontend(f) \/ Client(f) PROVE overtaken' = overtaken \/ overtaken' = TRUE
    BY <1>2 DEF Llm, LlmAnswer, LlmTooLong, Frontend, Respond, ReportError, Client, Start, Reset, CompactSession,
        bounds
<1>3. overtaken => overtaken'
    BY <1>1, <1>2 DEF Next, Stop, vars, bounds
<1>4. \A f \in Futures : Start(f) /\ WorkUnderWay => overtaken' /\ troubles' = troubles + 1
    BY DEF Start, Trouble
<1> QED
    BY <1>3, <1>4

\* The first trouble is a compaction for another session, or something fails
\* and there is still one task; with the second one the run is excused.
LEMMA TurnKept ==
    ASSUME IInv, OwnPlans, Apart, Paid, Turn, [Next]_vars
    PROVE  Turn'
<1> USE DEF IInv
<1>1. troubles \in Nat
    BY DEF AllTyped, NumbersTyped
<1>2. \A f \in Futures : CompactSession(f) => troubles' = troubles + 1 /\ pc' = [pc EXCEPT ![f] = "compact"] /\ after' = after /\ failed' = failed
    BY DEF CompactSession, Trouble, Goto
<1>3. troubles' = 0 => Single'
    <2> SUFFICES ASSUME troubles' = 0 PROVE Single'
        OBVIOUS
    <2>1. troubles = 0 /\ Single
        BY <1>1, ExcusesStay DEF Turn
    <2>2. \A f \in Futures : ~CompactSession(f) /\ ~(Start(f) /\ WorkUnderWay)
        BY <1>2, <2>1, OvertakenStays
    <2> QED
        BY <2>1, <2>2, SingleKept
<1>4. ASSUME ~overtaken', ~Excused', ~Single' PROVE NoErrors' /\ troubles' > 0 /\ WorkAlone'
    <2>1. ~overtaken /\ ~Excused /\ ~crossed
        BY <1>4, OvertakenStays, ExcusesStay
    <2>2. \A f \in Futures : ~(Start(f) /\ WorkUnderWay)
        BY <1>4, OvertakenStays
    <2>3. troubles' \in Nat /\ troubles' <= 1 /\ (failed' => troubles' = 0) /\ troubles' >= troubles
        BY <1>4, ExcusesStay
    <2>4. WorkAlone /\ (NoErrors => WorkAlone')
        BY <2>1, <2>2, WorkAloneKept DEF Turn, Single
    <2>5. CASE Single
        <3>1. PICK f \in Futures : CompactSession(f)
            BY <1>4, <2>2, <2>5, SingleKept
        <3>2. troubles = 0 /\ troubles' = 1 /\ ~failed
            BY <1>1, <1>2, <2>3, <3>1
        <3>3. NoErrors
            BY <3>2, <1>1 DEF Paid
        <3>4. NoErrors'
            BY <1>2, <3>1, <3>3 DEF NoErrors, Erring, Clearing, AllTyped, LocalsTyped
        <3> QED
            BY <2>4, <3>2, <3>3, <3>4
    <2>6. CASE NoErrors /\ troubles > 0
        <3>1. NoErrors'
            BY <1>1, <2>3, <2>6, ErrorsCome
        <3> QED
            BY <1>1, <2>3, <2>4, <2>6, <3>1
    <2> QED
        BY <2>1, <2>5, <2>6 DEF Turn
<1> QED
    BY <1>3, <1>4 DEF Turn

\* The invariant holds at the start and is kept.
LEMMA EndsKept ==
    /\ Init => Ends
    /\ Ends /\ [Next]_vars => Ends'
<1>1. ASSUME Init PROVE Ends
    <2>1. IInv
        BY <1>1, InitInvariant
    <2>2. OwnPlans /\ Apart /\ ReturnsIdle /\ Carried /\ Live
        BY <1>1 DEF Init, OwnPlans, Clearing, Apart, ReturnsIdle, Carried, Live
    <2>3. NoManual /\ NoErrors /\ NobodyArms /\ WorkAlone /\ OneTask
        BY <1>1 DEF Init, NoManual, Manual, NoErrors, Erring, Clearing, NobodyArms, WorkAlone, Working, OneTask, Task
    <2>4. OneQuestion
        BY <1>1 DEF Init, OneQuestion, Quiet
    <2>5. Newer
        BY <1>1 DEF Init, Newer, NoMessage
    <2> QED
        BY <1>1, <2>1, <2>2, <2>3, <2>4, <2>5 DEF Ends, Paid, Turn, Single, Init
<1>2. ASSUME Ends, [Next]_vars PROVE Ends'
    <2> USE <1>2 DEF Ends, IInv
    <2>1. IInv'
        BY InvariantKept
    <2>2. OwnPlans' /\ Apart'
        BY PlansKept, ApartKept
    <2>3. Paid' /\ ReturnsIdle'
        BY PaidKept, ReturnsIdleKept
    <2>4. Carried' /\ Live'
        BY CarriedKept, LiveKept
    <2>5. Turn'
        BY TurnKept
    <2>6. troubles' = 0 => Newer'
        BY ExcusesStay, NewerKept DEF Turn, AllTyped, NumbersTyped
    <2> QED
        BY <2>1, <2>2, <2>3, <2>4, <2>5, <2>6
<1> QED
    BY <1>1, <1>2

\* A Busy session always has somebody who takes the next turn: a future, the
\* LLM request, or a compaction in flight that somebody ends, unless two
\* troubles met (trigger.rs:429-454, recovery.rs:80-143, persistence.rs:141-255).
THEOREM WokenUp == Spec => []NeverStranded
<1>1. Ends => NeverStranded
    <2> SUFFICES ASSUME Ends, Stranded, ~Excused PROVE FALSE
        BY DEF NeverStranded
    <2>1. \A f \in Futures : pc[f] = "done"
        BY DEF Stranded, Free
    <2>2. phase = "preflight"
        BY <2>1 DEF Stranded, Ends, Live, Turns, Clearing
    <2>3. request # NoMessage /\ emitted[request] > 0
        BY <2>1, <2>2 DEF Ends, Carried, Carrier
    <2>4. request \in Messages
        BY <2>3 DEF Ends, IInv, AllTyped, NumbersTyped, Messages, NoMessage
    <2> QED
        BY <2>3, <2>4 DEF Stranded
<1> QED
    BY <1>1, EndsKept, PTL DEF Spec

\* A workflow is woken up once: the swap of the phase has one winner, and who
\* settles a compaction finds no other work (state.rs:422-432).
THEOREM WokenOnce == Spec => []OneLoop
<1>1. Ends => OneLoop
    <2> SUFFICES ASSUME Ends, ~overtaken,
        ~Excused PROVE Cardinality(Loops) + (IF asked = "expected" THEN 1 ELSE 0) <= 1
        BY DEF OneLoop
    <2>1. WorkAlone
        BY DEF Ends, Turn, Single
    <2>2. \A f \in Loops : f \in Futures /\ Working(f)
        BY DEF Loops, Working, Wakes, Ends, OwnPlans
    <2>3. CASE Loops = {}
        BY <2>3, FS_EmptySet
    <2>4. ASSUME NEW f \in Loops PROVE Cardinality(Loops) = 1 /\ asked # "expected"
        <3>1. asked = "none" /\ Loops = {f}
            BY <2>1, <2>2 DEF WorkAlone
        <3> QED
            BY <3>1, FS_Singleton
    <2> QED
        BY <2>3, <2>4
<1> QED
    BY <1>1, EndsKept, PTL DEF Spec

\* Until the first trouble a summary that is stored covers what the one before
\* it covered: a late answer, a retry or a fallback never brings an older one
\* back (compact/mod.rs:173-196).
THEOREM SummaryKept == Spec => SummaryGrows
<1> DEFINE Grows == record' >= record \/ (record' = NoMessage /\ (record \notin Present \/ first' = last)) \/ troubles > 0
<1>1. ASSUME Ends, [Next]_vars,
    ~(\E f \in Futures : Wipe(f) \/ SendRequest(f) \/ NothingToCompact(f) \/ SelectSplit(f) \/ Persist(f))
      PROVE  record' = record
    <2>1. ASSUME NEW f \in Futures, Local(f) PROVE record' = record
        BY <1>1, <2>1 DEF Local, ClearPhase, ClearRest, Launch, ResetAgain, Validate, TryBegin, Arm, Publish, Fail,
            Accept, RetrySummary, Complete, Settle, ErrorTooLong, ErrorFallback, ErrorOther, ErrorState, ErrorReturn
    <2>2. ASSUME NEW f \in Futures, Llm(f) \/ Frontend(f) \/ Client(f) PROVE record' = record
        BY <2>2 DEF Llm, LlmAnswer, LlmTooLong, Frontend, Respond, ReportError, Client, Start, Reset, CompactSession
    <2> QED
        BY <1>1, <2>1, <2>2 DEF Next, Stop, vars
<1>2. ASSUME Ends, NEW f \in Futures, SendRequest(f) \/ NothingToCompact(f) \/ SelectSplit(f)
      PROVE  record' = record \/ (record' = NoMessage /\ record \notin Present)
    BY <1>2 DEF SendRequest, NothingToCompact, SelectSplit
<1>3. ASSUME Ends, NEW f \in Futures, Persist(f), troubles = 0
      PROVE  record' = record \/ record' >= record
    BY <1>3 DEF Persist, Ends, Newer
<1>4. ASSUME Ends, [Next]_vars PROVE Grows
    <2>1. record \in Nat /\ troubles \in Nat
        BY <1>4 DEF Ends, IInv, AllTyped, NumbersTyped
    <2>2. ASSUME NEW f \in Futures, Wipe(f) PROVE Grows
        BY <2>2 DEF Wipe
    <2> QED
        BY <1>1, <1>2, <1>3, <1>4, <2>1, <2>2
<1>5. Ends /\ [Next]_vars => [Grows]_vars
    BY <1>4
<1> QED
    BY <1>5, EndsKept, PTL DEF Spec, SummaryGrows
=============================================================================
