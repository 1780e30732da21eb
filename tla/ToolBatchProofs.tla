---------------------------- MODULE ToolBatchProofs ----------------------------
(***************************************************************************)
(* What ToolBatch promises for any number of turns, calls and setters, and  *)
(* for any policies, modes and stops:                                       *)
(*   OneResultPerCall   a call gets one tool message at most,               *)
(*   CancelStopsTools   one more call at most begins after a cancel,        *)
(*   HardNeedsUser      hard and blocked calls run with consent only,       *)
(*   NoForgottenCall    a loop ends with its batch closed,                  *)
(*   TypeOK             every state is well formed.                         *)
(* All rest on where the loops are (Places): a loop goes through the calls  *)
(* of its turn in order, and never comes back to one.                       *)
(***************************************************************************)
EXTENDS ToolBatch, FiniteSetTheorems, TLAPS

\* Await points before a loop begins, those of a call that has not begun, and
\* those of handing in a result.
BeforePcs == {"none", "wakeUp", "admitted", "markBusy", "initialize", "spawn"}
AskPcs == {"check", "unsafe", "yolo", "register", "await", "run"}
ResultPcs == {"deliver", "inject", "injectLast", "boundary", "flag", "pause", "request", "emit", "next"}

TaskRecord == [pc : TaskPcs, call : Calls \cup {NoCall},
               token : {"none", "live", "cancelled", "replaced"},
               tombs : BOOLEAN, unsafe : BOOLEAN]

Typed == task \in [Tasks -> TaskRecord]

\* Where the loops are: a loop whose turn has not come has not begun, one that
\* is under way is at a call of its turn; the client hands in a known call.
Places ==
    /\ turn \in 0..MaxTurns /\ size \in [Turns -> 0..MaxCalls]
    /\ \A n \in Turns : IF n <= turn THEN size[n] >= 1 ELSE size[n] = 0
    /\ \A n \in Turns : task[n].pc # "none" => n <= turn
    /\ \A n \in Turns : task[n].pc \in BeforePcs \cup {"end"} \/ task[n].call \in CallsOf(n)
    /\ task[Client].pc \in ResultPcs \cup {"none"}
    /\ task[Client].pc \in ResultPcs => \E n \in Turns : task[Client].call \in CallsOf(n)

LEMMA TurnsAreTasks == Turns \subseteq Tasks /\ Client \in Tasks /\ Client \notin Turns
BY DEF Turns, Tasks, Client

LEMMA CallsOfTurn ==
    ASSUME Places, NEW n \in Turns
    PROVE  /\ CallsOf(n) \subseteq Calls
           /\ \A c \in CallsOf(n) : c[1] = n /\ c[2] \in 1..size[n] /\ c = <<c[1], c[2]>>
           /\ \A i \in 1..size[n] : <<n, i>> \in CallsOf(n)
BY ToolAssumption DEF Places, CallsOf, Calls, Turns

\* What a step to another await point changes.
LEMMA GotoMoves ==
    ASSUME Typed, NEW t \in Tasks, NEW p \in TaskPcs, Goto(t, p)
    PROVE  /\ Typed'
           /\ \A x \in Tasks : x # t => task'[x] = task[x]
           /\ task'[t].pc = p
           /\ task'[t].call = task[t].call /\ task'[t].token = task[t].token
           /\ task'[t].tombs = task[t].tombs /\ task'[t].unsafe = task[t].unsafe
BY DEF Typed, Goto, TaskRecord

\* A new token changes nothing else of a task (execution_state.rs).
LEMMA DetachedKeeps ==
    ASSUME Typed
    PROVE  /\ Detached(task) \in [Tasks -> TaskRecord]
           /\ \A t \in Tasks : LET d == Detached(task)[t] IN
                 /\ d.pc = task[t].pc /\ d.call = task[t].call
                 /\ d.tombs = task[t].tombs /\ d.unsafe = task[t].unsafe
                 /\ d.token = IF task[t].token # "live" THEN task[t].token
                              ELSE IF cancelled THEN "cancelled" ELSE "replaced"
BY DEF Typed, Detached, TaskRecord

\* Steps of the user and of a restart leave the tasks alone, but for tokens.
Outside ==
    \/ \E c \in Calls, a \in {"yes", "no"} : UserAnswers(c, a)
    \/ \E s \in Setters : SetterStep(s) \/ (\E m \in ModeChanges : SetMode(s, m))
    \/ \E o \in Stops : CallStop(o)
    \/ StopStep
    \/ Restart \/ RestartQueue \/ RestartBusy \/ RestartRequest
    \/ UNCHANGED vars

LEMMA OutsideMoves ==
    ASSUME Typed, Outside
    PROVE  /\ Typed' /\ UNCHANGED <<turn, size>>
           /\ \A t \in Tasks :
                 /\ task'[t].pc = task[t].pc /\ task'[t].call = task[t].call
                 /\ task'[t].tombs = task[t].tombs /\ task'[t].unsafe = task[t].unsafe
           /\ \/ task' = Detached(task)
              \/ task' = task /\ (cancelled => cancelled')
<1>1. CASE UNCHANGED <<task, turn, size>> /\ (cancelled => cancelled')
    BY <1>1 DEF Typed
<1>2. CASE task' = Detached(task) /\ UNCHANGED <<turn, size>>
    BY <1>2, DetachedKeeps DEF Typed
<1>3. CASE \E c \in Calls, a \in {"yes", "no"} : UserAnswers(c, a)
    BY <1>1, <1>3 DEF UserAnswers, batchVars, sessionVars
<1>4. CASE \E s \in Setters : SetterStep(s) \/ (\E m \in ModeChanges : SetMode(s, m))
    BY <1>1, <1>4 DEF SetterStep, SetMode, PersistMode, PersistModeFails, ListApprovals, ApproveNext,
          batchVars, sessionVars
<1>5. CASE StopStep
    BY <1>1, <1>2, <1>5 DEF StopStep, CancelRead, CancelSignal, CancelAbort, CancelPause, CancelClear,
          Terminate, TerminateIdle, TerminateReset, Clear, ClearWipe, ClearSettle, batchVars, sessionVars
<1>6. CASE (\E o \in Stops : CallStop(o)) \/ Restart \/ RestartQueue \/ RestartBusy \/ RestartRequest
    BY <1>1, <1>2, <1>6 DEF CallStop, Restart, RestartQueue, RestartBusy, RestartRequest,
          batchVars, sessionVars
<1>7. CASE UNCHANGED vars
    BY <1>1, <1>7 DEF vars, batchVars, sessionVars
<1>. QED BY <1>3, <1>4, <1>5, <1>6, <1>7 DEF Outside

\* Handing in a result goes from await point to await point of the same call.
LEMMA ResultMoves ==
    ASSUME Typed, NEW t \in Tasks, ResultStep(t)
    PROVE  /\ Typed' /\ UNCHANGED <<turn, size>>
           /\ task[t].pc \in ResultPcs \ {"next"} /\ task'[t].pc \in ResultPcs \ {"deliver"}
           /\ \A x \in Tasks :
                 /\ x # t => task'[x].pc = task[x].pc
                 /\ task'[x].call = task[x].call
                 /\ task'[x].tombs = task[x].tombs /\ task'[x].unsafe = task[x].unsafe
           /\ \/ \A x \in Tasks : task'[x].token = Detached(task)[x].token
              \/ (\A x \in Tasks : task'[x].token = task[x].token) /\ UNCHANGED cancelled
<1>. DEFINE Conclusion ==
           /\ Typed' /\ UNCHANGED <<turn, size>>
           /\ task[t].pc \in ResultPcs \ {"next"} /\ task'[t].pc \in ResultPcs \ {"deliver"}
           /\ \A x \in Tasks :
                 /\ x # t => task'[x].pc = task[x].pc
                 /\ task'[x].call = task[x].call
                 /\ task'[x].tombs = task[x].tombs /\ task'[x].unsafe = task[x].unsafe
           /\ \/ \A x \in Tasks : task'[x].token = Detached(task)[x].token
              \/ (\A x \in Tasks : task'[x].token = task[x].token) /\ UNCHANGED cancelled
<1>1. ASSUME UNCHANGED <<turn, size, cancelled>>, task[t].pc \in ResultPcs \ {"next"},
             NEW p \in ResultPcs \ {"deliver"}, Goto(t, p)
      PROVE  Conclusion
    <2>1. p \in TaskPcs
        BY DEF ResultPcs, TaskPcs
    <2>. QED BY <1>1, <2>1, GotoMoves
<1>2. CASE BoundaryConsume(t)
    <2>. DEFINE d == Detached(task)
    <2>1. task' = [d EXCEPT ![t].pc = "pause"] /\ task[t].pc = "flag" /\ UNCHANGED <<turn, size>>
        BY <1>2 DEF BoundaryConsume, At, batchVars
    <2>2. d \in [Tasks -> TaskRecord]
        BY DetachedKeeps
    <2>3. /\ Typed' /\ task'[t].pc = "pause"
          /\ \A x \in Tasks :
                /\ x # t => task'[x].pc = d[x].pc
                /\ task'[x].call = d[x].call
                /\ task'[x].tombs = d[x].tombs /\ task'[x].unsafe = d[x].unsafe
                /\ task'[x].token = d[x].token
        <3>. HIDE DEF d
        <3>. QED BY <2>1, <2>2 DEF Typed, TaskRecord, TaskPcs
    <2>. QED BY <2>1, <2>3, DetachedKeeps DEF ResultPcs
<1>3. CASE Deliver(t) \/ DeliverIgnored(t) \/ DeliverFails(t)
    BY <1>1, <1>3 DEF Deliver, DeliverIgnored, DeliverFails, At, ResultPcs, batchVars, sessionVars
<1>4. CASE Inject(t) \/ SpillFails(t)
    BY <1>1, <1>4 DEF Inject, SpillFails, At, ResultPcs, batchVars, sessionVars
<1>5. CASE Boundary(t) \/ BoundaryPause(t) \/ BoundaryUi(t) \/ BoundaryContinue(t)
    BY <1>1, <1>5 DEF Boundary, BoundaryPause, BoundaryUi, BoundaryContinue, At, ResultPcs, batchVars, sessionVars
<1>6. CASE Request(t) \/ EmitRequest(t)
    BY <1>1, <1>6 DEF Request, EmitRequest, At, ResultPcs, batchVars, sessionVars
<1>. QED BY <1>2, <1>3, <1>4, <1>5, <1>6 DEF ResultStep

\* Steps of one loop, apart from handing in results.
CallStep(n) ==
    \/ CheckCancel(n) \/ (\E p \in Policies : CheckPolicy(n, p))
    \/ ReadUnsafe(n) \/ ReadYolo(n) \/ Register(n) \/ Answered(n) \/ Run(n) \/ Return(n)
BeforeStep(n) == WakeUp(n) \/ CheckDropped(n) \/ MarkBusy(n) \/ InitializePending(n)

LEMMA BeforeMoves ==
    ASSUME Typed, NEW n \in Turns, BeforeStep(n)
    PROVE  /\ Typed' /\ UNCHANGED <<turn, size>>
           /\ \A x \in Tasks : x # n => task'[x] = task[x]
           /\ task[n].pc \in BeforePcs \ {"none", "spawn"}
           /\ task'[n].pc \in (BeforePcs \ {"none"}) \cup {"end"}
           /\ task'[n].token = task[n].token
<1>1. ASSUME UNCHANGED <<turn, size>>, NEW p \in (BeforePcs \ {"none"}) \cup {"end"}, Goto(n, p),
             task[n].pc \in BeforePcs \ {"none", "spawn"}
      PROVE  /\ Typed' /\ UNCHANGED <<turn, size>>
             /\ \A x \in Tasks : x # n => task'[x] = task[x]
             /\ task[n].pc \in BeforePcs \ {"none", "spawn"}
             /\ task'[n].pc \in (BeforePcs \ {"none"}) \cup {"end"}
             /\ task'[n].token = task[n].token
    <2>1. p \in TaskPcs /\ n \in Tasks
        BY TurnsAreTasks DEF BeforePcs, TaskPcs
    <2>. QED BY <1>1, <2>1, GotoMoves
<1>. QED BY <1>1 DEF BeforeStep, WakeUp, CheckDropped, MarkBusy, InitializePending, At, batchVars, BeforePcs

LEMMA SpawnMoves ==
    ASSUME Typed, Places, NEW n \in Turns, Spawn(n)
    PROVE  /\ Typed' /\ UNCHANGED <<turn, size>>
           /\ \A x \in Tasks : x # n => task'[x] = task[x]
           /\ task[n].pc = "spawn" /\ task'[n].pc = "check"
           /\ task'[n].call = <<n, 1>> /\ <<n, 1>> \in CallsOf(n)
           /\ task'[n].token = "live"
<1>1. <<n, 1>> \in CallsOf(n) /\ <<n, 1>> \in Calls
    <2>1. 1 \in 1..size[n]
        BY ToolAssumption DEF Spawn, At, Places
    <2>. QED BY <2>1, CallsOfTurn
<1>. QED BY <1>1, TurnsAreTasks DEF Typed, Spawn, At, TaskRecord, TaskPcs, batchVars

LEMMA CallMoves ==
    ASSUME Typed, NEW n \in Turns, CallStep(n)
    PROVE  /\ Typed' /\ UNCHANGED <<turn, size>>
           /\ \A x \in Tasks : x # n => task'[x] = task[x]
           /\ task[n].pc \in AskPcs \cup {"running"}
           /\ task'[n].pc \in (AskPcs \ {"check"}) \cup {"running", "deliver"}
           /\ task[n].pc = "running" => task'[n].pc = "deliver"
           /\ task'[n].call = task[n].call /\ task'[n].token = task[n].token
<1>. USE TurnsAreTasks DEF batchVars
<1>. DEFINE Conclusion ==
           /\ Typed' /\ UNCHANGED <<turn, size>>
           /\ \A x \in Tasks : x # n => task'[x] = task[x]
           /\ task[n].pc \in AskPcs
           /\ task'[n].pc \in (AskPcs \ {"check"}) \cup {"running", "deliver"}
           /\ task'[n].call = task[n].call /\ task'[n].token = task[n].token
<1>0. task[n] \in TaskRecord
    BY DEF Typed
<1>1. ASSUME UNCHANGED <<turn, size>>, task[n].pc \in AskPcs,
             NEW r \in TaskRecord, task' = [task EXCEPT ![n] = r],
             r.pc \in (AskPcs \ {"check"}) \cup {"running", "deliver"},
             r.call = task[n].call, r.token = task[n].token
      PROVE  Conclusion
    BY <1>1 DEF Typed
<1>2. CASE CheckCancel(n)
    <2>. DEFINE r == [task[n] EXCEPT !.pc = "deliver", !.tombs = TRUE]
    <2>1. r \in TaskRecord /\ r.pc = "deliver" /\ r.call = task[n].call /\ r.token = task[n].token
        BY <1>0 DEF TaskRecord, TaskPcs
    <2>2. task' = [task EXCEPT ![n] = r] /\ UNCHANGED <<turn, size>> /\ task[n].pc = "check"
        BY <1>2 DEF CheckCancel, At
    <2>. HIDE DEF r
    <2>. QED BY <1>1, <2>1, <2>2 DEF AskPcs
<1>3. CASE Answered(n)
    <2>. DEFINE answer == channel[task[n].call]
                r == [task[n] EXCEPT !.pc = IF answer = "yes" THEN "run" ELSE "deliver",
                                     !.tombs = answer = "no"]
    <2>1. r \in TaskRecord /\ r.pc \in {"run", "deliver"} /\ r.call = task[n].call /\ r.token = task[n].token
        BY <1>0 DEF TaskRecord, TaskPcs
    <2>2. task' = [task EXCEPT ![n] = r] /\ UNCHANGED <<turn, size>> /\ task[n].pc = "await"
        BY <1>3 DEF Answered, At
    <2>. HIDE DEF r
    <2>. QED BY <1>1, <2>1, <2>2 DEF AskPcs
<1>4. CASE ReadUnsafe(n)
    <2>. DEFINE on == mode = "unsafe"
                r == [task[n] EXCEPT !.unsafe = on,
                        !.pc = IF policy[task[n].call] = "block" /\ ~on THEN "deliver" ELSE "yolo"]
    <2>1. r \in TaskRecord /\ r.pc \in {"yolo", "deliver"} /\ r.call = task[n].call /\ r.token = task[n].token
        BY <1>0 DEF TaskRecord, TaskPcs
    <2>2. task' = [task EXCEPT ![n] = r] /\ UNCHANGED <<turn, size>> /\ task[n].pc = "unsafe"
        BY <1>4 DEF ReadUnsafe, At
    <2>. HIDE DEF r
    <2>. QED BY <1>1, <2>1, <2>2 DEF AskPcs
<1>5. ASSUME UNCHANGED <<turn, size>>, task[n].pc \in AskPcs,
             NEW p \in (AskPcs \ {"check"}) \cup {"running", "deliver"}, Goto(n, p)
      PROVE  Conclusion
    <2>1. p \in TaskPcs
        BY DEF AskPcs, TaskPcs
    <2>. QED BY <1>5, <2>1, GotoMoves
<1>6. CASE \E p \in Policies : CheckPolicy(n, p)
    BY <1>5, <1>6 DEF CheckPolicy, At, AskPcs
<1>7. CASE ReadYolo(n) \/ Register(n) \/ Run(n)
    BY <1>5, <1>7 DEF ReadYolo, Register, Run, At, AskPcs
<1>8. CASE Return(n)
    BY <1>8, GotoMoves DEF Return, At, TaskPcs
<1>. QED BY <1>6, <1>7, <1>8, <1>2, <1>3, <1>4 DEF CallStep, AskPcs

LEMMA NextMoves ==
    ASSUME Typed, Places, NEW n \in Turns, NextCall(n)
    PROVE  LET c == task[n].call IN
           /\ Typed' /\ UNCHANGED <<turn, size>>
           /\ \A x \in Tasks : x # n => task'[x] = task[x]
           /\ task[n].pc = "next" /\ task'[n].pc \in {"end", "check", "deliver"}
           /\ \/ c[2] = size[n] /\ task'[n].pc = "end"
              \/ /\ task'[n].call = <<n, c[2] + 1>> /\ <<n, c[2] + 1>> \in CallsOf(n)
                 /\ task'[n].pc = IF task[n].tombs THEN "deliver" ELSE "check"
                 /\ task'[n].tombs = task[n].tombs /\ task'[n].token = task[n].token
<1>. DEFINE c == task[n].call
<1>1. task[n].pc = "next" /\ c \in CallsOf(n)
    BY DEF NextCall, At, Places, BeforePcs
<1>2. c[2] \in 1..size[n] /\ size[n] \in Nat
    BY <1>1, CallsOfTurn, ToolAssumption DEF Places
<1>3. CASE c[2] = size[n]
    BY <1>1, <1>3, TurnsAreTasks DEF Typed, NextCall, Gone, NewTask, TaskRecord, TaskPcs, batchVars
<1>4. CASE c[2] # size[n]
    <2>1. <<n, c[2] + 1>> \in CallsOf(n) /\ <<n, c[2] + 1>> \in Calls
        BY <1>2, <1>4, CallsOfTurn
    <2>. DEFINE at == IF task[n].tombs THEN "deliver" ELSE "check"
    <2>2. /\ task' = [task EXCEPT ![n].call = <<n, c[2] + 1>>, ![n].pc = at]
          /\ UNCHANGED <<turn, size>>
        BY <1>1, <1>4 DEF NextCall, batchVars
    <2>3. task \in [Tasks -> TaskRecord] /\ n \in Tasks /\ at \in TaskPcs
        BY TurnsAreTasks DEF Typed, TaskPcs
    <2>4. task' = [task EXCEPT ![n] = [task[n] EXCEPT !.call = <<n, c[2] + 1>>, !.pc = at]]
        BY <2>2, <2>3
    <2>5. task[n] \in TaskRecord
        BY <2>3
    <2>6. LET r == [task[n] EXCEPT !.call = <<n, c[2] + 1>>, !.pc = at] IN
          /\ r \in TaskRecord /\ r.call = <<n, c[2] + 1>> /\ r.pc = at
          /\ r.tombs = task[n].tombs /\ r.token = task[n].token
        <3>. HIDE DEF at, c
        <3>. QED BY <2>1, <2>3, <2>5 DEF TaskRecord
    <2>7. \A x \in Tasks : x # n => task'[x] = task[x]
        BY <2>3, <2>4
    <2>8. task'[n] = [task[n] EXCEPT !.call = <<n, c[2] + 1>>, !.pc = at]
        BY <2>3, <2>4
    <2>9. task' \in [Tasks -> TaskRecord]
        <3>. HIDE DEF at, c
        <3>. QED BY <2>3, <2>4, <2>6
    <2>10. Typed'
        BY <2>2, <2>9 DEF Typed
    <2>. QED BY <1>1, <2>1, <2>2, <2>6, <2>7, <2>8, <2>10
<1>. QED BY <1>3, <1>4

LEMMA RespondMoves ==
    ASSUME Typed, Places, NEW k \in 1..MaxCalls, Respond(k)
    PROVE  /\ Typed' /\ turn + 1 \in Turns /\ turn' = turn + 1
           /\ size' = [size EXCEPT ![turn + 1] = k]
           /\ \A x \in Tasks : x # turn + 1 => task'[x] = task[x]
           /\ task[turn + 1].pc = "none" /\ task'[turn + 1].pc \in {"admitted", "wakeUp"}
           /\ task'[turn + 1].token = task[turn + 1].token
<1>1. turn + 1 \in Turns /\ turn + 1 \in Tasks
    BY ToolAssumption, TurnsAreTasks DEF Respond, Places, Turns
<1>2. task[turn + 1].pc = "none"
    BY <1>1, ToolAssumption DEF Places
<1>. QED BY <1>1, <1>2, GotoMoves DEF Respond, TaskPcs

LEMMA ClientMoves ==
    ASSUME Typed, Places, ClientDone \/ \E c \in Calls : HandIn(c)
    PROVE  /\ Typed' /\ UNCHANGED <<turn, size>>
           /\ \A x \in Tasks : x # Client => task'[x] = task[x]
           /\ task[Client].pc \in {"none", "next"}
           /\ \/ task'[Client].pc = "none"
              \/ /\ task'[Client].pc = "deliver"
                 /\ \E n \in Turns : task'[Client].call \in CallsOf(n)
<1>1. CASE ClientDone
    BY <1>1, TurnsAreTasks DEF ClientDone, At, NewTask, Typed, TaskRecord, TaskPcs, batchVars
<1>2. ASSUME NEW c \in Calls, HandIn(c)
      PROVE  /\ Typed' /\ UNCHANGED <<turn, size>>
             /\ \A x \in Tasks : x # Client => task'[x] = task[x]
             /\ task[Client].pc \in {"none", "next"}
             /\ task'[Client].pc = "deliver"
             /\ \E n \in Turns : task'[Client].call \in CallsOf(n)
    <2>1. Turn(c) \in Turns
        BY DEF Calls, Turn
    <2>. DEFINE r == [task[Client] EXCEPT !.pc = "deliver", !.call = c]
    <2>2. task[Client] \in TaskRecord
        BY TurnsAreTasks DEF Typed
    <2>3. r \in TaskRecord /\ r.pc = "deliver" /\ r.call = c
        BY <2>2 DEF TaskRecord, TaskPcs
    <2>4. /\ task' = [task EXCEPT ![Client] = r] /\ UNCHANGED <<turn, size>>
          /\ task[Client].pc = "none" /\ c \in CallsOf(Turn(c))
        BY <1>2 DEF HandIn, At, batchVars
    <2>. HIDE DEF r
    <2>5. Typed' /\ task'[Client] = r /\ \A x \in Tasks : x # Client => task'[x] = task[x]
        BY <2>3, <2>4, TurnsAreTasks DEF Typed
    <2>. QED BY <2>1, <2>3, <2>4, <2>5
<1>. QED BY <1>1, <1>2

\* Every step is one of these.
LEMMA StepCases ==
    ASSUME [Next]_vars
    PROVE  \/ \E k \in 1..MaxCalls : Respond(k)
           \/ \E n \in Turns : BeforeStep(n) \/ Spawn(n) \/ CallStep(n) \/ NextCall(n)
           \/ \E t \in Tasks : ResultStep(t)
           \/ ClientDone \/ \E c \in Calls : HandIn(c)
           \/ Outside
BY TurnsAreTasks DEF Next, LoopStep, BeforeStep, CallStep, Outside

LEMMA PlacesStart == Init => Typed /\ Places
<1>. SUFFICES ASSUME Init PROVE Typed /\ Places
    OBVIOUS
<1>1. NewTask \in TaskRecord
    BY DEF NewTask, TaskRecord, TaskPcs
<1>2. Typed /\ \A t \in Tasks : task[t].pc = "none"
    BY <1>1 DEF Init, Typed, NewTask
<1>. QED BY <1>2, ToolAssumption, TurnsAreTasks DEF Init, Places, Turns, BeforePcs, ResultPcs

LEMMA PlacesStep ==
    ASSUME Typed, Places, [Next]_vars
    PROVE  Typed' /\ Places'
<1>. USE TurnsAreTasks
<1>1. ASSUME NEW k \in 1..MaxCalls, Respond(k) PROVE Typed' /\ Places'
    <2>1. /\ turn' \in 0..MaxTurns /\ size' \in [Turns -> 0..MaxCalls]
          /\ size'[turn + 1] >= 1
          /\ \A n \in Turns : n # turn + 1 => size'[n] = size[n]
        <3>1. /\ turn + 1 \in 1..MaxTurns /\ turn' = turn + 1
              /\ size' = [size EXCEPT ![turn + 1] = k]
            BY <1>1, RespondMoves DEF Turns
        <3>2. turn' \in 0..MaxTurns /\ k >= 1 /\ k \in 0..MaxCalls
            BY <1>1, <3>1, ToolAssumption
        <3>. QED BY <3>1, <3>2 DEF Places, Turns
    <2>0. \A n \in Turns : IF n <= turn' THEN size'[n] >= 1 ELSE size'[n] = 0
        BY <1>1, <2>1, RespondMoves, ToolAssumption DEF Places, Turns
    <2>2. \A n \in Turns : n # turn + 1 => CallsOf(n)' = CallsOf(n)
        BY <2>1 DEF CallsOf
    <2>3. CallsOf(turn + 1) = {}
        BY <1>1, RespondMoves, ToolAssumption DEF Places, CallsOf
    <2>4. \A n \in Turns : task'[n].pc # "none" => n <= turn'
        BY <1>1, RespondMoves, ToolAssumption DEF Places, Turns
    <2>5. \A n \in Turns : task'[n].pc \in BeforePcs \cup {"end"} \/ task'[n].call \in CallsOf(n)'
        BY <1>1, <2>2, RespondMoves DEF Places, BeforePcs
    <2>6. task'[Client] = task[Client]
        BY <1>1, RespondMoves
    <2>7. \A n \in Turns : task[Client].call \in CallsOf(n) => task[Client].call \in CallsOf(n)'
        BY <2>2, <2>3
    <2>8. Typed'
        BY <1>1, RespondMoves
    <2>. QED BY <2>0, <2>1, <2>4, <2>5, <2>6, <2>7, <2>8 DEF Places
<1>2. ASSUME UNCHANGED <<turn, size>> PROVE \A n \in Turns : CallsOf(n)' = CallsOf(n)
    BY <1>2 DEF CallsOf
<1>3. ASSUME NEW n \in Turns, BeforeStep(n) PROVE Typed' /\ Places'
    BY <1>2, <1>3, BeforeMoves DEF Places, BeforePcs
<1>4. ASSUME NEW n \in Turns, Spawn(n) PROVE Typed' /\ Places'
    BY <1>2, <1>4, SpawnMoves DEF Places
<1>5. ASSUME NEW n \in Turns, CallStep(n) PROVE Typed' /\ Places'
    BY <1>2, <1>5, CallMoves DEF Places, BeforePcs, AskPcs
<1>6. ASSUME NEW n \in Turns, NextCall(n) PROVE Typed' /\ Places'
    BY <1>2, <1>6, NextMoves DEF Places, BeforePcs
<1>7. ASSUME NEW t \in Tasks, ResultStep(t) PROVE Typed' /\ Places'
    BY <1>2, <1>7, ResultMoves DEF Places, BeforePcs, ResultPcs
<1>8. ASSUME ClientDone \/ \E c \in Calls : HandIn(c) PROVE Typed' /\ Places'
    BY <1>2, <1>8, ClientMoves DEF Places, ResultPcs
<1>9. CASE Outside
    BY <1>2, <1>9, OutsideMoves DEF Places
<1>. QED BY <1>1, <1>3, <1>4, <1>5, <1>6, <1>7, <1>8, <1>9, StepCases

LEMMA Placed == Spec => [](Typed /\ Places)
BY PlacesStart, PlacesStep, PTL DEF Spec
-----------------------------------------------------------------------------
\* Loop n has left the await points pcs of the call c behind, for good.
Beyond(c, pcs) ==
    LET loop == task[Turn(c)] IN
    /\ loop.pc \notin BeforePcs
    /\ \/ loop.pc = "end"
       \/ loop.call[2] > c[2]
       \/ loop.call[2] = c[2] /\ loop.pc \notin pcs

Decided(c) == Beyond(c, {"check"})
Begun(c) == Beyond(c, AskPcs)
Delivered(c) == Beyond(c, AskPcs \cup {"running", "deliver"})

\* A loop never comes back to what it has left behind (tool_execution.rs:436-438,
\* the index is bumped on every path).
LEMMA NeverBack ==
    ASSUME Typed, Places, [Next]_vars, NEW c \in Calls
    PROVE  /\ Decided(c) => Decided(c)'
           /\ Begun(c) => Begun(c)'
           /\ Delivered(c) => Delivered(c)'
<1>. DEFINE m == Turn(c)
<1>. USE TurnsAreTasks DEF Decided, Begun, Delivered, Beyond
<1>0. m \in Turns /\ c[2] \in Nat
    BY ToolAssumption DEF Turn, Calls
<1>1. CASE task'[m].pc = task[m].pc /\ task'[m].call = task[m].call
    BY <1>1
<1>2. ASSUME NEW k \in 1..MaxCalls, Respond(k)
      PROVE  task[m].pc \in BeforePcs \/ task'[m] = task[m]
    BY <1>0, <1>2, RespondMoves DEF BeforePcs
<1>3. ASSUME NEW n \in Turns, BeforeStep(n) \/ Spawn(n)
      PROVE  task[m].pc \in BeforePcs \/ task'[m] = task[m]
    BY <1>0, <1>3, BeforeMoves, SpawnMoves DEF BeforePcs
<1>4. ASSUME NEW n \in Turns, CallStep(n), n = m
      PROVE  /\ Decided(c) => Decided(c)'
             /\ Begun(c) => Begun(c)'
             /\ Delivered(c) => Delivered(c)'
    BY <1>0, <1>4, CallMoves DEF BeforePcs, AskPcs
<1>5. ASSUME NEW n \in Turns, NextCall(n), n = m
      PROVE  /\ Decided(c) => Decided(c)'
             /\ Begun(c) => Begun(c)'
             /\ Delivered(c) => Delivered(c)'
    <2>1. task[n].pc = "next"
        BY <1>5, NextMoves
    <2>2. task[n].call \in CallsOf(n) /\ size[n] \in Nat
        BY <2>1, ToolAssumption DEF Places, BeforePcs
    <2>3. task[n].call[2] \in Nat
        BY <2>2, CallsOfTurn
    <2>4. task'[n].pc \in {"end", "check", "deliver"}
        BY <1>5, NextMoves
    <2>5. task'[n].pc = "end" \/ task'[n].call[2] = task[n].call[2] + 1
        <3>1. task'[n].pc = "end" \/ task'[n].call = <<n, task[n].call[2] + 1>>
            BY <1>5, NextMoves
        <3>. QED BY <3>1
    <2>. QED BY <1>0, <1>5, <2>1, <2>3, <2>4, <2>5 DEF BeforePcs, AskPcs
<1>6. ASSUME NEW t \in Tasks, ResultStep(t)
      PROVE  /\ Decided(c) => Decided(c)'
             /\ Begun(c) => Begun(c)'
             /\ Delivered(c) => Delivered(c)'
    BY <1>0, <1>6, ResultMoves DEF BeforePcs, AskPcs, ResultPcs
<1>7. CASE ClientDone \/ \E d \in Calls : HandIn(d)
    BY <1>0, <1>1, <1>7, ClientMoves
<1>8. CASE Outside
    BY <1>0, <1>1, <1>8, OutsideMoves
<1>9. ASSUME NEW n \in Turns, CallStep(n) \/ NextCall(n), n # m
      PROVE  task'[m] = task[m]
    BY <1>0, <1>9, CallMoves, NextMoves
<1>. QED BY <1>1, <1>2, <1>3, <1>4, <1>5, <1>6, <1>7, <1>8, <1>9, StepCases
-----------------------------------------------------------------------------
(* One result per call.                                                      *)

BatchRecord == [turn : Nat, total : Nat, done : SUBSET Calls]

LEMMA PendingMoves ==
    ASSUME [Next]_vars
    PROVE  \/ UNCHANGED <<pending, posted>>
           \/ \E n \in Turns : InitializePending(n) /\ UNCHANGED posted
           \/ \E t \in Tasks : Deliver(t) /\ UNCHANGED posted
           \/ \E t \in Tasks : Inject(t) /\ UNCHANGED pending
           \/ ClearWipe
<1>. USE DEF batchVars
<1>1. ASSUME NEW k \in 1..MaxCalls, Respond(k) PROVE UNCHANGED <<pending, posted>>
    BY <1>1 DEF Respond
<1>2. ASSUME NEW n \in Turns, BeforeStep(n) \/ Spawn(n) \/ NextCall(n), ~InitializePending(n)
      PROVE  UNCHANGED <<pending, posted>>
    BY <1>2 DEF BeforeStep, WakeUp, CheckDropped, MarkBusy, Spawn, NextCall
<1>3. ASSUME NEW n \in Turns, CallStep(n) PROVE UNCHANGED <<pending, posted>>
    BY <1>3 DEF CallStep, CheckCancel, CheckPolicy, ReadUnsafe, ReadYolo, Register, Answered, Run, Return
<1>4. ASSUME NEW t \in Tasks, ResultStep(t), ~Deliver(t), ~Inject(t) PROVE UNCHANGED <<pending, posted>>
    BY <1>4 DEF ResultStep, DeliverIgnored, DeliverFails, SpillFails, Boundary, BoundaryConsume,
                BoundaryPause, BoundaryUi, BoundaryContinue, Request, EmitRequest
<1>5. ASSUME ClientDone \/ \E c \in Calls : HandIn(c) PROVE UNCHANGED <<pending, posted>>
    BY <1>5 DEF ClientDone, HandIn
<1>6. ASSUME Outside, ~ClearWipe PROVE UNCHANGED <<pending, posted>>
    <2>1. CASE \E c \in Calls, a \in {"yes", "no"} : UserAnswers(c, a)
        BY <2>1 DEF UserAnswers
    <2>2. CASE \E s \in Setters : SetterStep(s) \/ (\E m \in ModeChanges : SetMode(s, m))
        BY <2>2 DEF SetterStep, SetMode, PersistMode, PersistModeFails, ListApprovals, ApproveNext
    <2>3. CASE StopStep
        BY <1>6, <2>3 DEF StopStep, CancelRead, CancelSignal, CancelAbort, CancelPause, CancelClear,
              Terminate, TerminateIdle, TerminateReset, Clear, ClearSettle
    <2>4. CASE (\E o \in Stops : CallStop(o)) \/ Restart \/ RestartQueue \/ RestartBusy \/ RestartRequest
        BY <2>4 DEF CallStop, Restart, RestartQueue, RestartBusy, RestartRequest
    <2>5. CASE UNCHANGED vars
        BY <2>5 DEF vars
    <2>. QED BY <1>6, <2>1, <2>2, <2>3, <2>4, <2>5 DEF Outside
<1>7. ASSUME NEW n \in Turns, InitializePending(n) PROVE UNCHANGED posted
    BY <1>7 DEF InitializePending
<1>8. ASSUME NEW t \in Tasks, Deliver(t) PROVE UNCHANGED posted
    BY <1>8 DEF Deliver
<1>9. ASSUME NEW t \in Tasks, Inject(t) PROVE UNCHANGED pending
    BY <1>9 DEF Inject
<1>. QED BY <1>1, <1>2, <1>3, <1>4, <1>5, <1>6, <1>7, <1>8, <1>9, StepCases

\* The call c may still be counted: its batch has not been set up, or is
\* pending without a result of c.
Open(c) ==
    \/ task[Turn(c)].pc \in BeforePcs \ {"spawn"}
    \/ pending.turn = Turn(c) /\ c \notin pending.done
Injecting(t) == task[t].pc \in {"inject", "injectLast"}

\* Nothing is posted for a call that may still be counted, and only one task
\* posts the result of a call that was.
Single ==
    /\ pending \in BatchRecord /\ posted \in [Calls -> Nat]
    /\ \A n \in Turns : pending.turn = n => task[n].pc \notin BeforePcs \ {"spawn"}
    /\ \A c \in Calls : posted[c] <= 1 /\ (Open(c) => posted[c] = 0)
    /\ \A t \in Tasks : Injecting(t) =>
           task[t].call \in Calls /\ ~Open(task[t].call) /\ posted[task[t].call] = 0
    /\ \A t, u \in Tasks : Injecting(t) /\ Injecting(u) /\ task[t].call = task[u].call => t = u

\* The pc part of Open.
LEMMA Closing ==
    ASSUME Typed, Places, [Next]_vars, NEW m \in Turns, task'[m].pc \in BeforePcs \ {"spawn"}
    PROVE  task[m].pc \in BeforePcs \ {"spawn"}
<1>. USE TurnsAreTasks DEF BeforePcs
<1>1. ASSUME NEW k \in 1..MaxCalls, Respond(k) PROVE task[m].pc \in BeforePcs \ {"spawn"}
    BY <1>1, RespondMoves
<1>2. ASSUME NEW n \in Turns, BeforeStep(n) PROVE task[m].pc \in BeforePcs \ {"spawn"}
    BY <1>2, BeforeMoves
<1>3. ASSUME NEW n \in Turns, Spawn(n) \/ CallStep(n) PROVE task[m].pc \in BeforePcs \ {"spawn"}
    BY <1>3, SpawnMoves, CallMoves DEF AskPcs
<1>4. ASSUME NEW n \in Turns, NextCall(n) PROVE task[m].pc \in BeforePcs \ {"spawn"}
    BY <1>4, NextMoves
<1>5. ASSUME NEW t \in Tasks, ResultStep(t) PROVE task[m].pc \in BeforePcs \ {"spawn"}
    BY <1>5, ResultMoves DEF ResultPcs
<1>6. CASE (ClientDone \/ \E c \in Calls : HandIn(c)) \/ Outside
    BY <1>6, ClientMoves, OutsideMoves
<1>. QED BY <1>1, <1>2, <1>3, <1>4, <1>5, <1>6, StepCases

\* Only Deliver takes a task to where it posts.
LEMMA InjectingMoves ==
    ASSUME Typed, Places, [Next]_vars, NEW t \in Tasks, Injecting(t)'
    PROVE  /\ task'[t].call = task[t].call
           /\ Injecting(t) \/ Deliver(t)
<1>. USE TurnsAreTasks DEF Injecting
<1>1. ASSUME NEW k \in 1..MaxCalls, Respond(k) PROVE task'[t] = task[t]
    BY <1>1, RespondMoves
<1>2. ASSUME NEW n \in Turns, BeforeStep(n) PROVE task'[t] = task[t]
    BY <1>2, BeforeMoves DEF BeforePcs
<1>3. ASSUME NEW n \in Turns, Spawn(n) \/ CallStep(n) PROVE task'[t] = task[t]
    BY <1>3, SpawnMoves, CallMoves DEF AskPcs
<1>4. ASSUME NEW n \in Turns, NextCall(n) PROVE task'[t] = task[t]
    BY <1>4, NextMoves
<1>5. ASSUME NEW u \in Tasks, ResultStep(u)
      PROVE  task'[t].call = task[t].call /\ (Injecting(t) \/ Deliver(t))
    <2>1. CASE u # t
        BY <1>5, <2>1, ResultMoves
    <2>2. ASSUME u = t, ~Deliver(t) PROVE FALSE
        <3>1. \A p \in TaskPcs : Goto(t, p) => task'[t].pc = p
            BY GotoMoves
        <3>2. task'[t].pc \notin {"next", "boundary", "flag", "pause", "request", "emit"}
            OBVIOUS
        <3>3. {"next", "boundary", "flag", "pause", "request", "emit"} \subseteq TaskPcs
            BY DEF TaskPcs
        <3>4. ~BoundaryConsume(t)
            <4>1. Detached(task) \in [Tasks -> TaskRecord]
                BY DetachedKeeps
            <4>2. ASSUME task' = [Detached(task) EXCEPT ![t].pc = "pause"] PROVE task'[t].pc = "pause"
                BY <4>1, <4>2 DEF TaskRecord
            <4>. QED BY <3>2, <4>2 DEF BoundaryConsume
        <3>. QED BY <1>5, <2>2, <3>1, <3>2, <3>3, <3>4
                DEF ResultStep, DeliverIgnored, DeliverFails, Inject, SpillFails, Boundary,
                    BoundaryPause, BoundaryUi, BoundaryContinue, Request, EmitRequest, At
    <2>. QED BY <1>5, <2>1, <2>2, ResultMoves
<1>6. ASSUME ClientDone \/ \E c \in Calls : HandIn(c) PROVE task'[t] = task[t]
    BY <1>6, ClientMoves
<1>7. ASSUME Outside PROVE task'[t].pc = task[t].pc /\ task'[t].call = task[t].call
    BY <1>7, OutsideMoves
<1>. QED BY <1>1, <1>2, <1>3, <1>4, <1>5, <1>6, <1>7, StepCases

\* The tasks that post know their call.
LEMMA InjectingCall ==
    ASSUME Typed, Places, NEW t \in Tasks, task[t].pc \in ResultPcs
    PROVE  task[t].call \in Calls /\ \E n \in Turns : task[t].call \in CallsOf(n)
<1>1. CASE t = Client
    BY <1>1, CallsOfTurn DEF Places
<1>2. CASE t \in Turns
    <2>1. task[t].call \in CallsOf(t)
        BY <1>2 DEF Places, BeforePcs, ResultPcs
    <2>. QED BY <1>2, <2>1, CallsOfTurn
<1>. QED BY <1>1, <1>2 DEF Tasks

LEMMA SingleStep ==
    ASSUME Typed, Places, Single, [Next]_vars
    PROVE  Single'
<1>. USE TurnsAreTasks
<1>0. \A c \in Calls : Turn(c) \in Turns
    BY DEF Calls, Turn
<1>1. ASSUME UNCHANGED <<pending, posted>>, \A t \in Tasks : ~Deliver(t) PROVE Single'
    <2>1. \A c \in Calls : Open(c)' => Open(c)
        BY <1>0, <1>1, Closing DEF Open
    <2>2. \A t \in Tasks : Injecting(t)' => Injecting(t) /\ task'[t].call = task[t].call
        BY <1>1, InjectingMoves
    <2>. QED BY <1>1, <2>1, <2>2, Closing DEF Single
<1>2. ASSUME NEW n \in Turns, InitializePending(n), UNCHANGED posted PROVE Single'
    <2>1. /\ pending' = [turn |-> n, total |-> size[n], done |-> {}]
          /\ task[n].pc = "initialize" /\ task'[n].pc = "spawn" /\ size[n] \in Nat
        BY <1>2, GotoMoves, ToolAssumption DEF InitializePending, At, Places, TaskPcs
    <2>2. pending' \in BatchRecord
        BY <2>1 DEF BatchRecord, Turns
    <2>3. \A c \in Calls : Open(c)' => Open(c)
        BY <1>0, <2>1, Closing DEF Open, BeforePcs
    <2>4. \A t \in Tasks : Injecting(t)' => Injecting(t) /\ task'[t].call = task[t].call
        BY <1>2, <2>1, BeforeMoves DEF BeforeStep, Injecting, BeforePcs
    <2>5. \A m \in Turns : pending'.turn = m => task'[m].pc \notin BeforePcs \ {"spawn"}
        BY <2>1
    <2>. QED BY <1>2, <2>2, <2>3, <2>4, <2>5 DEF Single
<1>3. ASSUME NEW t \in Tasks, Deliver(t), UNCHANGED posted PROVE Single'
    <2>0. task[t].pc = "deliver" /\ task[t].call \in Calls
        BY <1>3, InjectingCall DEF Deliver, At, ResultPcs
    <2>2. PICK d \in Calls : d = task[t].call
        BY <2>0
    <2>. DEFINE done == pending.done \cup {d}
    <2>1. /\ d \in CallsOf(pending.turn) /\ d \notin pending.done
          /\ pending' = NoBatch \/ pending' = [pending EXCEPT !.done = done]
        BY <1>3, <2>2 DEF Deliver, Accepts
    <2>3. Turn(d) = pending.turn
        BY <2>1 DEF CallsOf, Turn
    <2>4. Open(d)
        BY <2>1, <2>3 DEF Open
    <2>5. /\ pending' \in BatchRecord
          /\ pending'.turn = 0 \/ (pending'.turn = pending.turn /\ pending'.done = done)
        BY <2>1, <2>2 DEF Single, BatchRecord, NoBatch
    <2>6. \A n \in Turns : pending'.turn = n => task'[n].pc \notin BeforePcs \ {"spawn"}
        BY <2>5, Closing DEF Single, Turns
    <2>7. \A c \in Calls : Open(c)' => Open(c)
        BY <1>0, <2>5, Closing DEF Open, Turns
    <2>8. ~Open(d)'
        <3>1. task[Turn(d)].pc \notin BeforePcs \ {"spawn"}
            BY <1>0, <2>2, <2>3 DEF Single
        <3>2. task'[Turn(d)].pc \notin BeforePcs \ {"spawn"}
            BY <1>0, <2>2, <3>1, Closing
        <3>3. Turn(d) # 0
            BY <1>0, <2>2 DEF Turns
        <3>. QED BY <2>3, <2>5, <3>2, <3>3 DEF Open
    <2>9. \A u \in Tasks : Injecting(u)' =>
              task'[u].call = task[u].call /\ (Injecting(u) \/ u = t)
        <3>1. ASSUME NEW u \in Tasks, Injecting(u)', ~Injecting(u), u # t PROVE FALSE
            BY <1>3, <3>1, ResultMoves DEF ResultStep, Injecting
        <3>. QED BY <3>1, InjectingMoves
    <2>10. \A u \in Tasks : Injecting(u) => task[u].call # d
        BY <2>4 DEF Single
    <2>. QED BY <1>3, <2>2, <2>4, <2>5, <2>6, <2>7, <2>8, <2>9, <2>10 DEF Single
<1>4. ASSUME NEW t \in Tasks, Inject(t), UNCHANGED pending PROVE Single'
    <2>. DEFINE d == task[t].call
    <2>1. Injecting(t) /\ posted' = [posted EXCEPT ![d] = @ + 1]
        BY <1>4 DEF Inject, Injecting, At
    <2>2. d \in Calls /\ ~Open(d) /\ posted[d] = 0
        BY <2>1 DEF Single
    <2>3. \A c \in Calls : Open(c)' => Open(c)
        BY <1>0, <1>4, Closing DEF Open
    <2>4. ~Injecting(t)'
        <3>1. ~Deliver(t)
            BY <2>1 DEF Deliver, At, Injecting
        <3>2. \E p \in {"next", "boundary"} : Goto(t, p)
            BY <1>4 DEF Inject
        <3>. QED BY <3>2, GotoMoves DEF TaskPcs, Injecting
    <2>5. \A u \in Tasks : Injecting(u)' => task'[u].call = task[u].call /\ Injecting(u) /\ u # t
        <3>1. ASSUME NEW u \in Tasks, Injecting(u)', ~Injecting(u), u # t PROVE FALSE
            BY <1>4, <3>1, ResultMoves DEF ResultStep, Injecting
        <3>. QED BY <2>4, <3>1, InjectingMoves
    <2>6. \A u \in Tasks : Injecting(u)' => task[u].call # d
        BY <2>1, <2>5 DEF Single
    <2>. QED BY <1>4, <2>1, <2>2, <2>3, <2>5, <2>6, Closing DEF Single
<1>5. CASE ClearWipe
    <2>1. pending' = NoBatch /\ posted' = [c \in Calls |-> 0] /\ UNCHANGED task
        BY <1>5 DEF ClearWipe
    <2>2. pending' \in BatchRecord /\ pending'.turn = 0
        BY <2>1 DEF BatchRecord, NoBatch
    <2>3. \A c \in Calls : Open(c)' => Open(c)
        BY <1>0, <2>1, <2>2 DEF Open, Turns
    <2>. QED BY <2>1, <2>2, <2>3 DEF Single, Injecting, Turns
<1>. QED BY <1>1, <1>2, <1>3, <1>4, <1>5, PendingMoves

LEMMA SingleStart == Init => Single
BY TurnsAreTasks DEF Init, Single, NoBatch, BatchRecord, NewTask, Injecting, BeforePcs, Turns

\* A tool call gets one tool message at most, however often and by whomever its
\* result is handed in (tools.rs:119-132).
THEOREM OneResult == Spec => []OneResultPerCall
<1>1. Init => Single
    BY SingleStart
<1>2. Typed /\ Places /\ Single /\ [Next]_vars => Single'
    BY SingleStep
<1>3. Single => OneResultPerCall
    BY DEF Single, OneResultPerCall
<1>. QED BY <1>1, <1>2, <1>3, Placed, PTL DEF Spec
-----------------------------------------------------------------------------
(* After a cancel.                                                           *)

LEMMA AskMoves ==
    ASSUME [Next]_vars
    PROVE  \/ UNCHANGED <<policy, askVars, setter, ran, consent, late>>
           \/ \E n \in Turns : Run(n) /\ UNCHANGED <<policy, askVars, setter>>
           \/ \E n \in Turns, p \in Policies :
                 CheckPolicy(n, p) /\ UNCHANGED <<askVars, setter, ran, consent, late>>
           \/ \E n \in Turns : (Register(n) \/ Answered(n)) /\ UNCHANGED <<policy, setter, ran, consent, late>>
           \/ \E c \in Calls, a \in {"yes", "no"} : UserAnswers(c, a) /\ UNCHANGED <<policy, setter, ran, late>>
           \/ \E s \in Setters : ApproveNext(s) /\ UNCHANGED <<policy, ran, late>>
           \/ \E s \in Setters :
                 /\ PersistMode(s) \/ PersistModeFails(s) \/ ListApprovals(s) \/ \E m \in ModeChanges : SetMode(s, m)
                 /\ UNCHANGED <<policy, askVars, ran, consent, late>>
           \/ CloseApprovals /\ UNCHANGED <<task, policy, setter, ran, consent, late>>
<1>. DEFINE still == UNCHANGED <<policy, askVars, setter, ran, consent, late>>
<1>. USE DEF askVars, modeVars, history
<1>1. ASSUME NEW k \in 1..MaxCalls, Respond(k) PROVE still
    BY <1>1 DEF Respond
<1>2. ASSUME NEW n \in Turns, BeforeStep(n) \/ Spawn(n) \/ NextCall(n) PROVE still
    BY <1>2 DEF BeforeStep, WakeUp, CheckDropped, MarkBusy, InitializePending, Spawn, NextCall
<1>3. ASSUME NEW n \in Turns, CheckCancel(n) \/ ReadUnsafe(n) \/ ReadYolo(n) \/ Return(n) PROVE still
    BY <1>3 DEF CheckCancel, ReadUnsafe, ReadYolo, Return
<1>4. ASSUME NEW n \in Turns, Run(n) PROVE UNCHANGED <<policy, askVars, setter>>
    BY <1>4 DEF Run
<1>5. ASSUME NEW n \in Turns, NEW p \in Policies, CheckPolicy(n, p)
      PROVE  UNCHANGED <<askVars, setter, ran, consent, late>>
    BY <1>5 DEF CheckPolicy
<1>6. ASSUME NEW n \in Turns, Register(n) \/ Answered(n) PROVE UNCHANGED <<policy, setter, ran, consent, late>>
    BY <1>6 DEF Register, Answered
<1>7. ASSUME NEW t \in Tasks, ResultStep(t) PROVE still
    <2>1. CASE Deliver(t) \/ DeliverIgnored(t) \/ DeliverFails(t) \/ Inject(t) \/ SpillFails(t)
        BY <2>1 DEF Deliver, DeliverIgnored, DeliverFails, Inject, SpillFails
    <2>2. CASE Boundary(t) \/ BoundaryConsume(t) \/ BoundaryPause(t) \/ BoundaryUi(t)
                 \/ BoundaryContinue(t) \/ Request(t) \/ EmitRequest(t)
        BY <2>2 DEF Boundary, BoundaryConsume, BoundaryPause, BoundaryUi, BoundaryContinue, Request, EmitRequest
    <2>. QED BY <1>7, <2>1, <2>2 DEF ResultStep
<1>8. ASSUME ClientDone \/ \E c \in Calls : HandIn(c) PROVE still
    BY <1>8 DEF ClientDone, HandIn
<1>9. CASE Outside
    <2>1. ASSUME NEW c \in Calls, NEW a \in {"yes", "no"}, UserAnswers(c, a)
          PROVE  UNCHANGED <<policy, setter, ran, late>>
        BY <2>1 DEF UserAnswers
    <2>2. ASSUME NEW s \in Setters, ApproveNext(s) PROVE UNCHANGED <<policy, ran, late>>
        BY <2>2 DEF ApproveNext
    <2>3. ASSUME NEW s \in Setters,
                 PersistMode(s) \/ PersistModeFails(s) \/ ListApprovals(s) \/ \E m \in ModeChanges : SetMode(s, m)
          PROVE  UNCHANGED <<policy, askVars, ran, consent, late>>
        BY <2>3 DEF PersistMode, PersistModeFails, ListApprovals, SetMode
    <2>4. CASE CancelAbort \/ ClearWipe
        BY <2>4 DEF CancelAbort, ClearWipe
    <2>5. ASSUME StopStep, ~CancelAbort, ~ClearWipe PROVE still
        BY <2>5 DEF StopStep, CancelRead, CancelSignal, CancelPause, CancelClear,
              Terminate, TerminateIdle, TerminateReset, Clear, ClearSettle
    <2>6. CASE (\E o \in Stops : CallStop(o)) \/ Restart \/ RestartQueue \/ RestartBusy \/ RestartRequest
        BY <2>6 DEF CallStop, Restart, RestartQueue, RestartBusy, RestartRequest
    <2>7. CASE UNCHANGED vars
        BY <2>7 DEF vars
    <2>. QED BY <1>9, <2>1, <2>2, <2>3, <2>4, <2>5, <2>6, <2>7 DEF Outside, SetterStep
<1>. QED BY <1>1, <1>2, <1>3, <1>4, <1>5, <1>6, <1>7, <1>8, <1>9, StepCases DEF CallStep

\* The await points a loop can be at once it has begun a call too late.
LatePcs == {"check", "running"} \cup ResultPcs

\* A cancelled token stays with the loop that cloned it, whatever gives the
\* session a fresh one (execution_state.rs:13-24).
LEMMA TokenStays ==
    ASSUME Typed, Places, [Next]_vars, NEW n \in Turns, TokenCancelled(n), task[n].pc \in LatePcs
    PROVE  TokenCancelled(n)' \/ task'[n].pc = "end"
<1>. USE TurnsAreTasks DEF TokenCancelled, sessionVars
<1>1. CASE task'[n].token = task[n].token /\ (cancelled => cancelled')
    BY <1>1
<1>2. CASE task'[n].token = Detached(task)[n].token
    BY <1>2, DetachedKeeps
<1>3. ASSUME NEW k \in 1..MaxCalls, Respond(k) PROVE task'[n] = task[n] /\ UNCHANGED cancelled
    BY <1>3, RespondMoves DEF LatePcs, ResultPcs, Respond
<1>4. ASSUME NEW m \in Turns, BeforeStep(m) PROVE task'[n].token = task[n].token /\ UNCHANGED cancelled
    BY <1>4, BeforeMoves DEF BeforeStep, WakeUp, CheckDropped, MarkBusy, InitializePending
<1>5. ASSUME NEW m \in Turns, Spawn(m) PROVE task'[n] = task[n] /\ UNCHANGED cancelled
    BY <1>5, SpawnMoves DEF Spawn, LatePcs, ResultPcs
<1>6. ASSUME NEW m \in Turns, CallStep(m) PROVE task'[n].token = task[n].token /\ UNCHANGED cancelled
    BY <1>6, CallMoves DEF CallStep, CheckCancel, CheckPolicy, ReadUnsafe, ReadYolo, Register, Answered, Run, Return
<1>7. ASSUME NEW m \in Turns, NextCall(m)
      PROVE  (task'[n].token = task[n].token \/ task'[n].pc = "end") /\ UNCHANGED cancelled
    BY <1>7, NextMoves DEF NextCall
<1>8. ASSUME ClientDone \/ \E c \in Calls : HandIn(c) PROVE task'[n] = task[n] /\ UNCHANGED cancelled
    BY <1>8, ClientMoves DEF ClientDone, HandIn
<1>9. ASSUME NEW t \in Tasks, ResultStep(t) PROVE TokenCancelled(n)' \/ task'[n].pc = "end"
    <2>1. CASE \A x \in Tasks : task'[x].token = Detached(task)[x].token
        BY <1>2, <2>1
    <2>2. CASE (\A x \in Tasks : task'[x].token = task[x].token) /\ UNCHANGED cancelled
        BY <1>1, <2>2
    <2>. QED BY <1>9, <2>1, <2>2, ResultMoves
<1>10. CASE Outside
    BY <1>1, <1>2, <1>10, OutsideMoves
<1>. QED BY <1>1, <1>3, <1>4, <1>5, <1>6, <1>7, <1>8, <1>9, <1>10, StepCases

\* A loop with a cancelled token begins no call that it has not passed the check
\* for.
LEMMA LateStays ==
    ASSUME Typed, Places, [Next]_vars, NEW n \in Turns, TokenCancelled(n), task[n].pc \in LatePcs
    PROVE  task'[n].pc \in LatePcs \cup {"end"}
<1>. USE TurnsAreTasks
<1>1. ASSUME NEW k \in 1..MaxCalls, Respond(k) PROVE task'[n] = task[n]
    BY <1>1, RespondMoves DEF LatePcs, ResultPcs
<1>2. ASSUME NEW m \in Turns, BeforeStep(m) \/ Spawn(m) PROVE task'[n] = task[n]
    BY <1>2, BeforeMoves, SpawnMoves DEF LatePcs, ResultPcs, BeforePcs
<1>3. ASSUME NEW m \in Turns, CallStep(m) PROVE task'[n].pc \in LatePcs
    <2>1. CASE m # n
        BY <1>3, <2>1, CallMoves
    <2>2. CASE m = n /\ task[n].pc = "running"
        BY <1>3, <2>2, CallMoves DEF LatePcs, ResultPcs
    <2>3. CASE m = n /\ task[n].pc = "check"
        <3>1. CheckCancel(n)
            BY <1>3, <2>3 DEF CallStep, CheckPolicy, CancelRequested, ReadUnsafe, ReadYolo, Register,
               Answered, Run, Return, At
        <3>. QED BY <3>1 DEF CheckCancel, Typed, TaskRecord, LatePcs, ResultPcs
    <2>. QED BY <1>3, <2>1, <2>2, <2>3, CallMoves DEF LatePcs, ResultPcs, AskPcs
<1>4. ASSUME NEW m \in Turns, NextCall(m) PROVE task'[n].pc \in LatePcs \cup {"end"}
    BY <1>4, NextMoves DEF LatePcs, ResultPcs
<1>5. ASSUME NEW t \in Tasks, ResultStep(t) PROVE task'[n].pc \in LatePcs
    BY <1>5, ResultMoves DEF LatePcs
<1>6. ASSUME (ClientDone \/ \E c \in Calls : HandIn(c)) \/ Outside PROVE task'[n].pc = task[n].pc
    BY <1>6, ClientMoves, OutsideMoves
<1>. QED BY <1>1, <1>2, <1>3, <1>4, <1>5, <1>6, StepCases

LateOnce ==
    /\ late \in [Turns -> Nat]
    /\ \A n \in Turns : late[n] # 0 =>
           /\ late[n] = 1
           /\ task[n].pc = "end" \/ (task[n].pc \in LatePcs /\ TokenCancelled(n))

LEMMA LateStep ==
    ASSUME Typed, Places, LateOnce, [Next]_vars
    PROVE  LateOnce'
<1>. USE TurnsAreTasks
<1>1. ASSUME NEW n \in Turns, task[n].pc = "end" PROVE task'[n].pc = "end"
    <2>1. ASSUME NEW k \in 1..MaxCalls, Respond(k) PROVE task'[n] = task[n]
        BY <1>1, <2>1, RespondMoves
    <2>2. ASSUME NEW m \in Turns, BeforeStep(m) \/ Spawn(m) \/ CallStep(m) \/ NextCall(m)
          PROVE  task'[n] = task[n]
        BY <1>1, <2>2, BeforeMoves, SpawnMoves, CallMoves, NextMoves DEF BeforePcs, AskPcs
    <2>3. ASSUME NEW t \in Tasks, ResultStep(t) PROVE task'[n].pc = task[n].pc
        BY <1>1, <2>3, ResultMoves DEF ResultPcs
    <2>4. ASSUME (ClientDone \/ \E c \in Calls : HandIn(c)) \/ Outside PROVE task'[n].pc = task[n].pc
        BY <2>4, ClientMoves, OutsideMoves
    <2>. QED BY <1>1, <2>1, <2>2, <2>3, <2>4, StepCases
<1>2. CASE UNCHANGED late
    BY <1>1, <1>2, TokenStays, LateStays DEF LateOnce
<1>3. ASSUME NEW n \in Turns, Run(n) PROVE LateOnce'
    <2>1. /\ task[n].pc = "run" /\ Goto(n, "running") /\ UNCHANGED cancelled
          /\ late' = [late EXCEPT ![n] = IF TokenCancelled(n) THEN @ + 1 ELSE @]
        BY <1>3 DEF Run, At, sessionVars
    <2>2. late[n] = 0
        BY <2>1 DEF LateOnce, LatePcs, ResultPcs
    <2>3. task'[n].pc = "running" /\ task'[n].token = task[n].token
        BY <2>1, GotoMoves DEF TaskPcs
    <2>4. TokenCancelled(n) => TokenCancelled(n)'
        BY <2>1, <2>3 DEF TokenCancelled
    <2>5. /\ late' \in [Turns -> Nat]
          /\ late'[n] # 0 => late'[n] = 1 /\ TokenCancelled(n)
          /\ \A m \in Turns : m # n => late'[m] = late[m]
        BY <2>1, <2>2 DEF LateOnce
    <2>6. ASSUME NEW m \in Turns, m # n, late[m] # 0
          PROVE  task'[m].pc = "end" \/ (task'[m].pc \in LatePcs /\ TokenCancelled(m)')
        BY <1>1, <2>6, TokenStays, LateStays DEF LateOnce
    <2>7. late'[n] # 0 => task'[n].pc \in LatePcs /\ TokenCancelled(n)'
        BY <2>3, <2>4, <2>5 DEF LatePcs
    <2>. QED BY <2>5, <2>6, <2>7 DEF LateOnce
<1>. QED BY <1>2, <1>3, AskMoves

LEMMA LateStart == Init => LateOnce
BY DEF Init, LateOnce

\* Once the token of a batch is cancelled at most one more of its calls begins,
\* through restarts and fresh tokens (tool_execution.rs:439-443).
THEOREM StopsTools == Spec => []CancelStopsTools
<1>1. Init => LateOnce
    BY LateStart
<1>2. Typed /\ Places /\ LateOnce /\ [Next]_vars => LateOnce'
    BY LateStep
<1>3. LateOnce => CancelStopsTools
    BY DEF LateOnce, CancelStopsTools
<1>. QED BY <1>1, <1>2, <1>3, Placed, PTL DEF Spec
-----------------------------------------------------------------------------
(* Consent.                                                                  *)

Consenting == {"yolo", "register", "await", "run"}
Same(m) ==
    /\ task'[m].pc = task[m].pc /\ task'[m].call = task[m].call /\ task'[m].unsafe = task[m].unsafe

\* How a loop comes to the await points of an approval, and how it leaves them.
LEMMA ConsentingMoves ==
    ASSUME Typed, Places, [Next]_vars, NEW m \in Turns,
           task[m].pc = "await" \/ task'[m].pc \in Consenting
    PROVE  Same(m) \/ ReadUnsafe(m) \/ ReadYolo(m) \/ Register(m) \/ Answered(m)
<1>. USE TurnsAreTasks DEF Same
<1>1. ASSUME NEW k \in 1..MaxCalls, Respond(k) PROVE task'[m] = task[m]
    BY <1>1, RespondMoves DEF Consenting
<1>2. ASSUME NEW n \in Turns, BeforeStep(n) \/ Spawn(n) \/ NextCall(n) PROVE task'[m] = task[m]
    BY <1>2, BeforeMoves, SpawnMoves, NextMoves DEF BeforePcs, Consenting
<1>3. ASSUME NEW n \in Turns, CallStep(n), n # m PROVE task'[m] = task[m]
    BY <1>3, CallMoves
<1>4. ASSUME CallStep(m) PROVE ReadUnsafe(m) \/ ReadYolo(m) \/ Register(m) \/ Answered(m)
    <2>1. ASSUME CheckCancel(m) \/ (\E p \in Policies : CheckPolicy(m, p)) PROVE FALSE
        <3>1. task[m].pc = "check"
            BY <2>1 DEF CheckCancel, CheckPolicy, At
        <3>2. task'[m].pc \in {"deliver", "unsafe"}
            <4>1. CASE CheckCancel(m)
                BY <4>1 DEF CheckCancel, Typed, TaskRecord
            <4>2. CASE \E p \in Policies : CheckPolicy(m, p)
                BY <4>2, GotoMoves DEF CheckPolicy, TaskPcs
            <4>. QED BY <2>1, <4>1, <4>2
        <3>. QED BY <3>1, <3>2 DEF Consenting
    <2>2. ASSUME Run(m) \/ Return(m) PROVE FALSE
        <3>1. task[m].pc \in {"run", "running"} /\ task'[m].pc \in {"running", "deliver"}
            BY <2>2, GotoMoves DEF Run, Return, At, TaskPcs
        <3>. QED BY <3>1 DEF Consenting
    <2>. QED BY <1>4, <2>1, <2>2 DEF CallStep
<1>5. ASSUME NEW t \in Tasks, ResultStep(t) PROVE Same(m)
    BY <1>5, ResultMoves DEF ResultPcs, Consenting
<1>6. ASSUME (ClientDone \/ \E c \in Calls : HandIn(c)) \/ Outside PROVE Same(m)
    BY <1>6, ClientMoves, OutsideMoves
<1>. QED BY <1>1, <1>2, <1>3, <1>4, <1>5, <1>6, StepCases

Users == {"user", "unsafe"}
Awaits(c) == task[Turn(c)].pc = "await" /\ task[Turn(c)].call = c

\* The consent a call needs is there from the moment its loop, its channel or a
\* setter goes by it: the policy is decided before and never again, and an
\* approval is in the map only while its loop waits for it.
Asking == \A c \in approvals : Awaits(c) /\ channel[c] = "open"
Approved ==
    \A c \in Calls : channel[c] = "yes" => Decided(c) /\ (policy[c] = "hard" => consent[c] \in Users)
Listed ==
    \A s \in Setters : \A c \in setter[s].ids :
        Decided(c) /\ (policy[c] = "standard" \/ setter[s].new = "unsafe")
Passing ==
    \A n \in Turns : LET c == task[n].call IN
        /\ At(n, "yolo") => (policy[c] = "block" => task[n].unsafe)
        /\ At(n, "register") \/ At(n, "await") => policy[c] \in {"standard", "hard"}
        /\ At(n, "run") => /\ policy[c] = "block" => task[n].unsafe
                           /\ policy[c] = "hard" => task[n].unsafe \/ consent[c] \in Users
Ran ==
    \A c \in ran :
        /\ Begun(c)
        /\ policy[c] = "hard" => consent[c] \in Users
        /\ policy[c] = "block" => consent[c] = "unsafe"
ConsentTypes ==
    /\ policy \in [Calls -> Policies \cup {"unset"}]
    /\ consent \in [Calls -> AllModes \cup {"none", "user"}]
    /\ channel \in [Calls -> {"none", "open", "yes", "no", "closed"}]
    /\ approvals \subseteq Calls /\ ran \subseteq Calls
    /\ setter \in [Setters -> [pc : {"none", "persist", "list", "approve"},
                               old : AllModes, new : AllModes, ids : SUBSET Calls]]
    /\ mode \in AllModes
Consented == ConsentTypes /\ Asking /\ Approved /\ Listed /\ Passing /\ Ran

\* The call a loop is at, and what the loop has not left behind.
LEMMA AtCall ==
    ASSUME Typed, Places, NEW n \in Turns, task[n].pc \in AskPcs
    PROVE  /\ task[n].call \in Calls /\ Turn(task[n].call) = n
           /\ ~Begun(task[n].call)
           /\ task[n].pc = "check" => ~Decided(task[n].call)
           /\ task[n].pc # "check" => Decided(task[n].call)
<1>1. task[n].call \in CallsOf(n)
    BY DEF Places, BeforePcs, AskPcs
<1>2. task[n].call \in Calls /\ Turn(task[n].call) = n
    BY <1>1, CallsOfTurn DEF Turn
<1>3. task[n].call[2] \in Nat
    BY <1>2, ToolAssumption DEF Calls
<1>. QED BY <1>2, <1>3 DEF Begun, Decided, Beyond, AskPcs, BeforePcs

\* An answer through the map is for a call whose loop waits.
LEMMA Resolved ==
    ASSUME Typed, Places, Consented, NEW c \in Calls, NEW a, NEW w, Resolve(c, a, w),
           a \in {"yes", "no"}, w \in AllModes \cup {"user"},
           policy[c] = "hard" => w \in Users, UNCHANGED <<policy, ran, task>>
    PROVE  /\ channel' \in [Calls -> {"none", "open", "yes", "no", "closed"}]
           /\ consent' \in [Calls -> AllModes \cup {"none", "user"}]
           /\ approvals' = approvals \ {c}
           /\ Asking' /\ Approved' /\ Ran'
           /\ \A d \in Calls : consent'[d] # consent[d] => d = c /\ Awaits(c)
<1>1. CASE c \notin approvals
    <2>1. UNCHANGED <<approvals, channel, consent>>
        BY <1>1 DEF Resolve, Consented, ConsentTypes
    <2>. QED BY <1>1, <2>1 DEF Consented, ConsentTypes, Asking, Approved, Ran, Awaits, Decided, Begun, Beyond
<1>2. CASE c \in approvals
    <2>1. Awaits(c) /\ Turn(c) \in Turns /\ Decided(c) /\ ~Begun(c)
        <3>1. Awaits(c) /\ Turn(c) \in Turns
            BY <1>2 DEF Consented, Asking, Calls, Turn
        <3>. QED BY <3>1, AtCall DEF Awaits, AskPcs
    <2>2. /\ approvals' = approvals \ {c}
          /\ channel' = [channel EXCEPT ![c] = a]
          /\ consent' = [consent EXCEPT ![c] = IF a = "yes" THEN w ELSE @]
        BY <1>2 DEF Resolve
    <2>3. c \notin ran
        BY <2>1 DEF Consented, Ran
    <2>4. Asking'
        BY <1>2, <2>2 DEF Consented, ConsentTypes, Asking, Awaits
    <2>5. Approved'
        BY <2>1, <2>2 DEF Consented, ConsentTypes, Approved, Decided, Beyond
    <2>6. Ran'
        BY <2>2, <2>3 DEF Consented, ConsentTypes, Ran, Begun, Beyond
    <2>. QED BY <2>1, <2>2, <2>4, <2>5, <2>6 DEF Consented, ConsentTypes
<1>. QED BY <1>1, <1>2

\* The calls of loops that ask.
LEMMA CallsInRange ==
    ASSUME Typed', Places', NEW m \in Turns, task'[m].pc \in Consenting
    PROVE  task'[m].call \in Calls /\ Turn(task'[m].call) = m
<1>1. task'[m].call \in CallsOf(m)'
    BY DEF Places, BeforePcs, Consenting
<1>2. size'[m] \in 0..MaxCalls
    BY DEF Places
<1>. QED BY <1>1, <1>2, ToolAssumption DEF CallsOf, Calls, Turn

LEMMA ModeTyped ==
    ASSUME [Next]_vars, Consented
    PROVE  mode' \in AllModes
<1>. SUFFICES ASSUME mode' # mode PROVE mode' \in AllModes
    BY DEF Consented, ConsentTypes
<1>. USE DEF modeVars
<1>1. ASSUME NEW k \in 1..MaxCalls PROVE ~Respond(k)
    BY DEF Respond
<1>2. ASSUME NEW n \in Turns, BeforeStep(n) \/ Spawn(n) \/ NextCall(n) \/ CallStep(n) PROVE FALSE
    BY <1>2 DEF BeforeStep, WakeUp, CheckDropped, MarkBusy, InitializePending, Spawn, NextCall, CallStep,
       CheckCancel, CheckPolicy, ReadUnsafe, ReadYolo, Register, Answered, Run, Return
<1>3. ASSUME NEW t \in Tasks, ResultStep(t) PROVE FALSE
    BY <1>3 DEF ResultStep, Deliver, DeliverIgnored, DeliverFails, Inject, SpillFails, Boundary,
       BoundaryConsume, BoundaryPause, BoundaryUi, BoundaryContinue, Request, EmitRequest
<1>4. ~(ClientDone \/ \E c \in Calls : HandIn(c))
    BY DEF ClientDone, HandIn
<1>5. CASE Outside
    <2>1. ASSUME NEW s \in Setters, PersistModeFails(s) PROVE mode' \in AllModes
        BY <2>1 DEF PersistModeFails, Consented, ConsentTypes
    <2>2. ASSUME NEW s \in Setters, NEW m \in ModeChanges, SetMode(s, m) PROVE mode' \in AllModes
        BY <2>2, ToolAssumption DEF SetMode
    <2>3. ASSUME NEW s \in Setters PROVE ~PersistMode(s) /\ ~ListApprovals(s) /\ ~ApproveNext(s)
        BY DEF PersistMode, ListApprovals, ApproveNext
    <2>4. ~StopStep
        BY DEF StopStep, CancelRead, CancelSignal, CancelAbort, CancelPause, CancelClear,
           Terminate, TerminateIdle, TerminateReset, Clear, ClearWipe, ClearSettle
    <2>5. ~((\E o \in Stops : CallStop(o)) \/ Restart \/ RestartQueue \/ RestartBusy \/ RestartRequest)
        BY DEF CallStop, Restart, RestartQueue, RestartBusy, RestartRequest
    <2>6. ASSUME NEW c \in Calls, NEW a \in {"yes", "no"} PROVE ~UserAnswers(c, a)
        BY DEF UserAnswers
    <2>. QED BY <1>5, <2>1, <2>2, <2>3, <2>4, <2>5, <2>6 DEF Outside, SetterStep, vars
<1>. QED BY <1>1, <1>2, <1>3, <1>4, <1>5, StepCases

\* What is in the map stays there until its loop is told.
LEMMA AskingStep ==
    ASSUME Typed, Places, Consented, [Next]_vars, NEW c \in approvals, channel'[c] = channel[c]
    PROVE  Awaits(c)' /\ channel'[c] = "open"
<1>1. Awaits(c) /\ channel[c] = "open" /\ Turn(c) \in Turns
    BY DEF Consented, ConsentTypes, Asking, Calls, Turn
<1>2. ~ReadUnsafe(Turn(c)) /\ ~ReadYolo(Turn(c)) /\ ~Register(Turn(c)) /\ ~Answered(Turn(c))
    BY <1>1 DEF Awaits, ReadUnsafe, ReadYolo, Register, Answered, At
<1>3. Same(Turn(c))
    BY <1>1, <1>2, ConsentingMoves DEF Awaits
<1>. QED BY <1>1, <1>3 DEF Awaits, Same

\* A loop goes on to run its call with the consent it needs
\* (tool_execution.rs:123-138, 205-219).
LEMMA PassingStep ==
    ASSUME Typed, Places, Consented, [Next]_vars,
           \A n \in Turns : task'[n].pc \in Consenting =>
               LET c == task'[n].call IN
               policy'[c] = policy[c] /\ (consent'[c] = consent[c] \/ consent'[c] \in Users)
    PROVE  Passing'
<1>. USE TurnsAreTasks DEF At
<1>. SUFFICES ASSUME NEW n \in Turns, task'[n].pc \in Consenting
              PROVE  LET c == task'[n].call IN
                     /\ task'[n].pc = "yolo" => (policy[c] = "block" => task'[n].unsafe)
                     /\ task'[n].pc \in {"register", "await"} => policy[c] \in {"standard", "hard"}
                     /\ task'[n].pc = "run" =>
                           /\ policy[c] = "block" => task'[n].unsafe
                           /\ policy[c] = "hard" => task'[n].unsafe \/ consent[c] \in Users
    BY DEF Passing, Consenting
<1>. DEFINE c == task[n].call
<1>1. CASE Same(n)
    BY <1>1 DEF Same, Consented, Passing
<1>2. CASE ReadUnsafe(n)
    <2>. DEFINE on == mode = "unsafe"
    <2>1. /\ task' = [task EXCEPT ![n] = [@ EXCEPT !.unsafe = on,
                        !.pc = IF policy[c] = "block" /\ ~on THEN "deliver" ELSE "yolo"]]
        BY <1>2 DEF ReadUnsafe
    <2>2. /\ task'[n].call = c /\ task'[n].unsafe = on
          /\ task'[n].pc = IF policy[c] = "block" /\ ~on THEN "deliver" ELSE "yolo"
        BY <2>1 DEF Typed, TaskRecord
    <2>. QED BY <2>2
<1>3. CASE ReadYolo(n)
    <2>1. /\ task[n].pc = "yolo"
          /\ Goto(n, IF AsksUser(policy[c], mode = "yolo", task[n].unsafe) THEN "register" ELSE "run")
        BY <1>3 DEF ReadYolo
    <2>2. /\ task'[n].call = c /\ task'[n].unsafe = task[n].unsafe
          /\ task'[n].pc = IF AsksUser(policy[c], mode = "yolo", task[n].unsafe) THEN "register" ELSE "run"
        BY <2>1, GotoMoves DEF TaskPcs
    <2>3. policy[c] = "block" => task[n].unsafe
        BY <2>1 DEF Consented, Passing
    <2>. QED BY <2>2, <2>3 DEF AsksUser
<1>4. CASE Register(n)
    <2>1. task[n].pc = "register" /\ task'[n].pc = "await" /\ task'[n].call = c
        BY <1>4, GotoMoves DEF Register, TaskPcs
    <2>. QED BY <2>1 DEF Consented, Passing
<1>5. CASE Answered(n)
    <2>1. /\ task[n].pc = "await"
          /\ task' = [task EXCEPT ![n] = [@ EXCEPT !.pc = IF channel[c] = "yes" THEN "run" ELSE "deliver",
                                                   !.tombs = channel[c] = "no"]]
        BY <1>5 DEF Answered
    <2>2. /\ task'[n].call = c /\ task'[n].pc = IF channel[c] = "yes" THEN "run" ELSE "deliver"
        BY <2>1 DEF Typed, TaskRecord
    <2>3. policy[c] \in {"standard", "hard"} /\ c \in Calls
        BY <2>1, AtCall DEF Consented, Passing, AskPcs
    <2>4. channel[c] = "yes" => (policy[c] = "hard" => consent[c] \in Users)
        BY <2>3 DEF Consented, Approved
    <2>5. task'[n].pc = "run" /\ channel[c] = "yes"
        BY <2>2 DEF Consenting
    <2>. QED BY <2>2, <2>3, <2>4, <2>5
<1>. QED BY <1>1, <1>2, <1>3, <1>4, <1>5, ConsentingMoves

LEMMA ConsentedStep ==
    ASSUME Typed, Places, Consented, [Next]_vars
    PROVE  Consented'
<1>. USE TurnsAreTasks
<1>1. ASSUME UNCHANGED <<policy, ran, consent>> PROVE Passing' /\ Ran'
    BY <1>1, PassingStep, NeverBack DEF Consented, ConsentTypes, Ran
<1>2. ASSUME UNCHANGED <<policy, setter>> PROVE Listed'
    BY <1>2, NeverBack DEF Consented, ConsentTypes, Listed
<1>3. ASSUME UNCHANGED <<policy, askVars, consent>> PROVE Asking' /\ Approved'
    BY <1>3, AskingStep, NeverBack DEF askVars, Consented, Asking, Approved
<1>4. CASE UNCHANGED <<policy, askVars, setter, ran, consent>>
    <2>1. ConsentTypes'
        <3>1. mode' \in AllModes
            BY ModeTyped DEF Consented, ConsentTypes
        <3>. QED BY <1>4, <3>1 DEF Consented, ConsentTypes, askVars
    <2>. QED BY <1>1, <1>2, <1>3, <1>4, <2>1 DEF Consented
<1>5. ASSUME NEW n \in Turns, Run(n), UNCHANGED <<policy, askVars, setter>> PROVE Consented'
    <2>. DEFINE c == task[n].call
    <2>1. /\ task[n].pc = "run" /\ Goto(n, "running") /\ UNCHANGED mode
          /\ ran' = ran \cup {c}
          /\ consent' = [consent EXCEPT ![c] = IF task[n].unsafe THEN "unsafe" ELSE @]
        BY <1>5 DEF Run, At, modeVars
    <2>2. c \in Calls /\ Turn(c) = n /\ ~Begun(c) /\ Decided(c)
        BY <2>1, AtCall DEF AskPcs
    <2>3. task'[n].pc = "running" /\ task'[n].call = c
        BY <2>1, GotoMoves DEF TaskPcs
    <2>4. Begun(c)'
        BY <2>2, <2>3 DEF Begun, Beyond, BeforePcs, AskPcs
    <2>5. /\ consent' \in [Calls -> AllModes \cup {"none", "user"}]
          /\ \A d \in Calls : consent'[d] = consent[d] \/ consent'[d] = "unsafe"
          /\ \A d \in Calls : d # c => consent'[d] = consent[d]
          /\ task[n].unsafe => consent'[c] = "unsafe"
          /\ ~task[n].unsafe => consent'[c] = consent[c]
        BY <2>1, <2>2 DEF Consented, ConsentTypes, AllModes
    <2>6. ConsentTypes'
        BY <1>5, <2>1, <2>2, <2>5 DEF Consented, ConsentTypes, askVars
    <2>7. Ran'
        <3>1. /\ policy[c] = "hard" => consent'[c] \in Users
              /\ policy[c] = "block" => consent'[c] = "unsafe"
            BY <2>1, <2>5 DEF Consented, Passing, At, Users
        <3>2. ASSUME NEW d \in ran, d # c
              PROVE  /\ Begun(d)'
                     /\ policy[d] = "hard" => consent'[d] \in Users
                     /\ policy[d] = "block" => consent'[d] = "unsafe"
            BY <2>5, <3>2, NeverBack DEF Consented, ConsentTypes, Ran
        <3>. QED BY <1>5, <2>1, <2>3, <2>4, <3>1, <3>2 DEF Ran
    <2>8. Approved'
        BY <1>5, <2>5, NeverBack DEF Consented, Approved, Users, askVars
    <2>9. Passing'
        <3>1. ASSUME NEW m \in Turns, task'[m].pc \in Consenting
              PROVE  task'[m].call \in Calls
            BY <3>1, PlacesStep, CallsInRange DEF Consenting
        <3>. QED BY <1>5, <2>5, <3>1, PassingStep DEF Users
    <2>10. Asking'
        BY <1>5, AskingStep DEF Consented, Asking, askVars
    <2>. QED BY <1>2, <1>5, <2>6, <2>7, <2>8, <2>9, <2>10 DEF Consented
<1>6. ASSUME NEW n \in Turns, NEW p \in Policies, CheckPolicy(n, p),
             UNCHANGED <<askVars, setter, ran, consent>>
      PROVE  Consented'
    <2>. DEFINE c == task[n].call
    <2>1. /\ task[n].pc = "check" /\ UNCHANGED mode
          /\ policy' = [policy EXCEPT ![c] = p]
          /\ Goto(n, IF p = "refuse" THEN "deliver" ELSE "unsafe")
        BY <1>6 DEF CheckPolicy, At, modeVars
    <2>2. c \in Calls /\ Turn(c) = n /\ ~Begun(c) /\ ~Decided(c)
        BY <2>1, AtCall DEF AskPcs
    <2>3. /\ policy' \in [Calls -> Policies \cup {"unset"}]
          /\ \A d \in Calls : d # c => policy'[d] = policy[d]
        BY <2>1, <2>2 DEF Consented, ConsentTypes
    <2>4. ConsentTypes'
        BY <1>6, <2>1, <2>3 DEF Consented, ConsentTypes, askVars
    <2>5. Asking'
        BY <1>6, AskingStep DEF Consented, Asking, askVars
    <2>6. Approved'
        BY <1>6, <2>2, <2>3, NeverBack DEF Consented, Approved, askVars
    <2>7. Listed'
        BY <1>6, <2>2, <2>3, NeverBack DEF Consented, ConsentTypes, Listed
    <2>8. Ran'
        BY <1>6, <2>2, <2>3, NeverBack DEF Consented, ConsentTypes, Ran
    <2>9. Passing'
        <3>1. task'[n].pc \in {"deliver", "unsafe"}
            BY <2>1, GotoMoves DEF TaskPcs
        <3>2. ASSUME NEW m \in Turns, task'[m].pc \in Consenting
              PROVE  task'[m].call \in Calls /\ task'[m].call # c
            BY <2>2, <3>1, <3>2, PlacesStep, CallsInRange DEF Consenting
        <3>. QED BY <1>6, <2>3, <3>2, PassingStep
    <2>. QED BY <2>4, <2>5, <2>6, <2>7, <2>8, <2>9 DEF Consented
<1>7. ASSUME NEW n \in Turns, Register(n) \/ Answered(n), UNCHANGED <<policy, setter, ran, consent>>
      PROVE  Consented'
    <2>. DEFINE c == task[n].call
    <2>1. c \in Calls /\ Turn(c) = n /\ UNCHANGED mode
        BY <1>7, AtCall DEF Register, Answered, At, AskPcs, modeVars
    <2>2. CASE Register(n)
        <3>1. /\ approvals' = approvals \cup {c} /\ channel' = [channel EXCEPT ![c] = "open"]
              /\ task[n].pc = "register" /\ Goto(n, "await")
            BY <2>2 DEF Register, At
        <3>2. task'[n].pc = "await" /\ task'[n].call = c
            BY <3>1, GotoMoves DEF TaskPcs
        <3>3. ConsentTypes'
            BY <1>7, <2>1, <3>1 DEF Consented, ConsentTypes
        <3>4. Asking'
            <4>1. Awaits(c)' /\ channel'[c] = "open"
                BY <2>1, <3>1, <3>2 DEF Awaits, Consented, ConsentTypes
            <4>2. ASSUME NEW d \in approvals, d # c PROVE Awaits(d)' /\ channel'[d] = "open"
                <5>1. channel'[d] = channel[d]
                    BY <3>1, <4>2 DEF Consented, ConsentTypes
                <5>. QED BY <5>1, AskingStep
            <4>. QED BY <3>1, <3>2, <4>1, <4>2 DEF Asking
        <3>5. Approved'
            BY <1>7, <2>1, <3>1, NeverBack DEF Consented, ConsentTypes, Approved
        <3>. QED BY <1>1, <1>2, <1>7, <3>3, <3>4, <3>5 DEF Consented
    <2>3. CASE Answered(n)
        <3>1. /\ channel' = [channel EXCEPT ![c] = "none"] /\ channel[c] # "open" /\ UNCHANGED approvals
            BY <2>3 DEF Answered
        <3>2. ConsentTypes'
            BY <1>7, <2>1, <3>1 DEF Consented, ConsentTypes
        <3>3. Asking'
            BY <3>1, AskingStep DEF Consented, ConsentTypes, Asking
        <3>4. Approved'
            BY <1>7, <2>1, <3>1, NeverBack DEF Consented, ConsentTypes, Approved
        <3>. QED BY <1>1, <1>2, <1>7, <3>2, <3>3, <3>4 DEF Consented
    <2>. QED BY <1>7, <2>2, <2>3
<1>8. ASSUME NEW c \in Calls, NEW a, NEW w, Resolve(c, a, w), a \in {"yes", "no"},
             w \in AllModes \cup {"user"}, policy[c] = "hard" => w \in Users,
             UNCHANGED <<policy, ran, task, mode>>,
             setter' \in [Setters -> [pc : {"none", "persist", "list", "approve"},
                                      old : AllModes, new : AllModes, ids : SUBSET Calls]],
             \A s \in Setters : /\ setter'[s].ids \subseteq setter[s].ids
                                /\ setter'[s].ids = {} \/ setter'[s].new = setter[s].new
      PROVE  Consented'
    <2>1. /\ channel' \in [Calls -> {"none", "open", "yes", "no", "closed"}]
          /\ consent' \in [Calls -> AllModes \cup {"none", "user"}]
          /\ approvals' = approvals \ {c}
          /\ Asking' /\ Approved' /\ Ran'
          /\ \A d \in Calls : consent'[d] # consent[d] => d = c /\ Awaits(c)
        BY <1>8, Resolved
    <2>2. ConsentTypes'
        BY <1>8, <2>1 DEF Consented, ConsentTypes
    <2>3. Listed'
        BY <1>8 DEF Consented, ConsentTypes, Listed, Decided, Beyond
    <2>4. Passing'
        <3>1. ASSUME NEW n \in Turns, task[n].pc = "run" PROVE consent'[task[n].call] = consent[task[n].call]
            <4>1. task[n].call \in Calls /\ Turn(task[n].call) = n
                BY <3>1, AtCall DEF AskPcs
            <4>. QED BY <2>1, <3>1, <4>1 DEF Awaits
        <3>. QED BY <1>8, <3>1 DEF Consented, Passing, At
    <2>. QED BY <2>1, <2>2, <2>3, <2>4 DEF Consented
<1>9. ASSUME NEW c \in Calls, NEW a \in {"yes", "no"}, UserAnswers(c, a), UNCHANGED <<policy, setter, ran>>
      PROVE  Consented'
    BY <1>8, <1>9 DEF UserAnswers, Consented, ConsentTypes, Users, modeVars
<1>10. ASSUME NEW s \in Setters, ApproveNext(s), UNCHANGED <<policy, ran>> PROVE Consented'
    <2>1. PICK c \in setter[s].ids :
              /\ Resolve(c, "yes", setter[s].new)
              /\ setter' = [setter EXCEPT ![s] =
                     IF @.ids = {c} THEN IdleSetter ELSE [@ EXCEPT !.ids = setter[s].ids \ {c}]]
        BY <1>10 DEF ApproveNext
    <2>2. /\ setter[s] \in [pc : {"none", "persist", "list", "approve"},
                            old : AllModes, new : AllModes, ids : SUBSET Calls]
          /\ c \in Calls /\ setter[s].new \in AllModes
        BY <2>1 DEF Consented, ConsentTypes
    <2>3. policy[c] = "hard" => setter[s].new \in Users
        BY <2>1 DEF Consented, Listed, Users
    <2>. DEFINE r == IF setter[s].ids = {c} THEN IdleSetter ELSE [setter[s] EXCEPT !.ids = setter[s].ids \ {c}]
    <2>4. /\ r \in [pc : {"none", "persist", "list", "approve"}, old : AllModes, new : AllModes, ids : SUBSET Calls]
          /\ r.ids \subseteq setter[s].ids /\ (r.ids = {} \/ r.new = setter[s].new)
        BY <2>2 DEF IdleSetter, AllModes
    <2>5. setter' = [setter EXCEPT ![s] = r]
        BY <2>1, <2>2 DEF Consented, ConsentTypes
    <2>. HIDE DEF r
    <2>6. /\ setter' \in [Setters -> [pc : {"none", "persist", "list", "approve"},
                                      old : AllModes, new : AllModes, ids : SUBSET Calls]]
          /\ \A x \in Setters : /\ setter'[x].ids \subseteq setter[x].ids
                                /\ setter'[x].ids = {} \/ setter'[x].new = setter[x].new
        BY <2>4, <2>5 DEF Consented, ConsentTypes
    <2>7. UNCHANGED <<task, mode>>
        BY <1>10 DEF ApproveNext
    <2>. QED BY <1>8, <1>10, <2>1, <2>2, <2>3, <2>6, <2>7
<1>11. ASSUME NEW s \in Setters, UNCHANGED <<policy, askVars, ran, consent>>,
              PersistMode(s) \/ PersistModeFails(s) \/ ListApprovals(s) \/ \E m \in ModeChanges : SetMode(s, m)
       PROVE  Consented'
    <2>1. PICK r \in [pc : {"none", "persist", "list", "approve"}, old : AllModes, new : AllModes, ids : SUBSET Calls] :
              /\ setter' = [setter EXCEPT ![s] = r]
              /\ r.ids \subseteq setter[s].ids \cup Approvable(s)
              /\ r.ids = {} \/ r.new = setter[s].new
        <3>1. /\ setter[s] \in [pc : {"none", "persist", "list", "approve"},
                                old : AllModes, new : AllModes, ids : SUBSET Calls]
              /\ mode \in AllModes /\ ModeChanges \subseteq AllModes /\ approvals \subseteq Calls
            BY ToolAssumption DEF Consented, ConsentTypes
        <3>2. CASE PersistMode(s)
            <4>. DEFINE r == IF setter[s].new = "normal" THEN IdleSetter ELSE [setter[s] EXCEPT !.pc = "list"]
            <4>1. setter' = [setter EXCEPT ![s] = r]
                BY <3>2 DEF PersistMode
            <4>2. /\ r \in [pc : {"none", "persist", "list", "approve"}, old : AllModes, new : AllModes, ids : SUBSET Calls]
                  /\ r.ids \subseteq setter[s].ids /\ (r.ids = {} \/ r.new = setter[s].new)
                BY <3>1 DEF IdleSetter, AllModes
            <4>. HIDE DEF r
            <4>. QED BY <4>1, <4>2
        <3>3. CASE PersistModeFails(s)
            <4>1. setter' = [setter EXCEPT ![s] = IdleSetter]
                BY <3>3 DEF PersistModeFails
            <4>2. /\ IdleSetter \in [pc : {"none", "persist", "list", "approve"},
                                   old : AllModes, new : AllModes, ids : SUBSET Calls]
                  /\ IdleSetter.ids = {}
                BY DEF IdleSetter, AllModes
            <4>. QED BY <4>1, <4>2
        <3>4. CASE ListApprovals(s)
            <4>. DEFINE r == IF Approvable(s) = {} THEN IdleSetter
                             ELSE [setter[s] EXCEPT !.pc = "approve", !.ids = Approvable(s)]
            <4>1. setter' = [setter EXCEPT ![s] = r]
                BY <3>4 DEF ListApprovals
            <4>2. Approvable(s) \subseteq Calls
                BY <3>1 DEF Approvable
            <4>3. /\ r \in [pc : {"none", "persist", "list", "approve"}, old : AllModes, new : AllModes, ids : SUBSET Calls]
                  /\ r.ids \subseteq Approvable(s) /\ (r.ids = {} \/ r.new = setter[s].new)
                <5>. HIDE DEF Approvable
                <5>. QED BY <3>1, <4>2 DEF IdleSetter, AllModes
            <4>. HIDE DEF r
            <4>. QED BY <4>1, <4>3
        <3>5. ASSUME NEW m \in ModeChanges, SetMode(s, m)
              PROVE  LET r == [pc |-> "persist", old |-> mode, new |-> m, ids |-> {}] IN
                     /\ r \in [pc : {"none", "persist", "list", "approve"}, old : AllModes, new : AllModes, ids : SUBSET Calls]
                     /\ setter' = [setter EXCEPT ![s] = r]
            BY <3>1, <3>5 DEF SetMode
        <3>. QED BY <1>11, <3>2, <3>3, <3>4, <3>5
    <2>2. \A c \in Approvable(s) : Decided(c) /\ (policy[c] = "standard" \/ setter[s].new = "unsafe")
        <3>1. ASSUME NEW c \in approvals PROVE Decided(c)
            <4>1. Awaits(c) /\ Turn(c) \in Turns
                BY DEF Consented, ConsentTypes, Asking, Calls, Turn
            <4>. QED BY <4>1, AtCall DEF Awaits, AskPcs
        <3>. QED BY <3>1 DEF Approvable
    <2>3. /\ setter' \in [Setters -> [pc : {"none", "persist", "list", "approve"},
                                      old : AllModes, new : AllModes, ids : SUBSET Calls]]
          /\ setter'[s].ids \subseteq setter[s].ids \cup Approvable(s)
          /\ setter'[s].ids = {} \/ setter'[s].new = setter[s].new
          /\ \A x \in Setters : x # s => setter'[x] = setter[x]
        BY <2>1 DEF Consented, ConsentTypes
    <2>4. ConsentTypes'
        BY <1>11, <2>3, ModeTyped DEF Consented, ConsentTypes, askVars
    <2>5. Listed'
        <3>1. ASSUME NEW x \in Setters, NEW c \in setter'[x].ids
              PROVE  c \in Calls /\ Decided(c) /\ (policy[c] = "standard" \/ setter'[x].new = "unsafe")
            BY <2>2, <2>3 DEF Consented, ConsentTypes, Listed
        <3>. QED BY <1>11, <3>1, NeverBack DEF Listed
    <2>. QED BY <1>1, <1>3, <1>11, <2>4, <2>5 DEF Consented
<1>12. ASSUME CloseApprovals, UNCHANGED <<task, policy, setter, ran, consent>> PROVE Consented'
    <2>1. /\ approvals' = {}
          /\ channel' = [c \in Calls |-> IF c \in approvals THEN "closed" ELSE channel[c]]
        BY <1>12 DEF CloseApprovals
    <2>2. ConsentTypes'
        BY <1>12, <2>1, ModeTyped DEF Consented, ConsentTypes
    <2>3. Asking' /\ Approved'
        BY <1>12, <2>1 DEF Consented, Asking, Approved, Decided, Beyond
    <2>. QED BY <1>1, <1>2, <1>12, <2>2, <2>3 DEF Consented
<1>. QED BY <1>4, <1>5, <1>6, <1>7, <1>9, <1>10, <1>11, <1>12, AskMoves

LEMMA ConsentedStart == Init => Consented
<1>. SUFFICES ASSUME Init PROVE Consented
    OBVIOUS
<1>1. /\ IdleSetter \in [pc : {"none", "persist", "list", "approve"},
                        old : AllModes, new : AllModes, ids : SUBSET Calls]
      /\ IdleSetter.ids = {}
    BY DEF IdleSetter, AllModes
<1>2. ConsentTypes
    BY <1>1 DEF Init, ConsentTypes, AllModes
<1>3. Asking /\ Approved /\ Listed /\ Ran
    BY <1>1 DEF Init, Asking, Approved, Listed, Ran
<1>4. Passing
    BY TurnsAreTasks DEF Init, Passing, At, NewTask
<1>. QED BY <1>2, <1>3, <1>4 DEF Consented

\* However mode changes and approvals interleave, a hard call runs only if the
\* user said yes or unsafe mode was set, a blocked one only in unsafe mode
\* (approvals.rs:98, tool_approvals.rs:41-75).
THEOREM UserDecides == Spec => []HardNeedsUser
<1>1. Init => Consented
    BY ConsentedStart
<1>2. Typed /\ Places /\ Consented /\ [Next]_vars => Consented'
    BY ConsentedStep
<1>3. Consented => HardNeedsUser
    BY DEF Consented, Ran, Users, HardNeedsUser
<1>. QED BY <1>1, <1>2, <1>3, Placed, PTL DEF Spec
-----------------------------------------------------------------------------
(* No call is forgotten.                                                     *)

LEMMA CallsCounted ==
    ASSUME Places, NEW n \in Turns
    PROVE  IsFiniteSet(CallsOf(n)) /\ Cardinality(CallsOf(n)) = size[n]
<1>. DEFINE k == size[n]
            f == [i \in 1..k |-> <<n, i>>]
<1>1. k \in Nat
    BY ToolAssumption DEF Places
<1>2. IsFiniteSet(1..k) /\ Cardinality(1..k) = k
    BY <1>1, FS_Interval
<1>3. f \in Bijection(1..k, CallsOf(n))
    <2>1. f \in [1..k -> CallsOf(n)]
        BY DEF CallsOf
    <2>2. \A i, j \in 1..k : f[i] = f[j] => i = j
        OBVIOUS
    <2>3. \A c \in CallsOf(n) : \E i \in 1..k : f[i] = c
        BY DEF CallsOf
    <2>. QED BY <2>1, <2>2, <2>3 DEF Bijection, Injection, Surjection, IsInjective
<1>4. ExistsBijection(1..k, CallsOf(n))
    BY <1>3 DEF ExistsBijection
<1>. QED BY <1>2, <1>4, FS_Bijection

\* A loop leaves a call only by handing in a result of it, or never comes to it.
LEMMA DeliveredMoves ==
    ASSUME Typed, Places, [Next]_vars, NEW n \in Turns, NEW c \in CallsOf(n),
           Delivered(c)', ~Delivered(c)
    PROVE  \/ task[n].pc \in BeforePcs \ {"spawn"}
           \/ task[n].call = c /\ (Deliver(n) \/ DeliverIgnored(n) \/ DeliverFails(n))
<1>. DEFINE Conclusion ==
           \/ task[n].pc \in BeforePcs \ {"spawn"}
           \/ task[n].call = c /\ (Deliver(n) \/ DeliverIgnored(n) \/ DeliverFails(n))
<1>. USE TurnsAreTasks DEF Delivered, Beyond
<1>0. Turn(c) = n /\ c[2] \in 1..size[n] /\ size[n] \in Nat
    BY CallsOfTurn, ToolAssumption DEF Turn, Places
<1>1. CASE task'[n].pc = task[n].pc /\ task'[n].call = task[n].call
    BY <1>0, <1>1
<1>2. ASSUME NEW k \in 1..MaxCalls, Respond(k) PROVE task[n].pc = "none" \/ task'[n] = task[n]
    BY <1>2, RespondMoves
<1>3. ASSUME NEW m \in Turns, BeforeStep(m)
      PROVE  task[n].pc \in BeforePcs \ {"spawn"} \/ task'[n] = task[n]
    BY <1>3, BeforeMoves
<1>4. ASSUME NEW m \in Turns, Spawn(m) PROVE task'[n] = task[n]
    <2>1. ASSUME m = n PROVE FALSE
        <3>1. task'[n].pc = "check" /\ task'[n].call = <<n, 1>>
            BY <1>4, <2>1, SpawnMoves
        <3>2. task'[n].call[2] = 1
            BY <3>1
        <3>. QED BY <1>0, <3>1, <3>2 DEF AskPcs
    <2>. QED BY <1>4, <2>1, SpawnMoves
<1>5. ASSUME NEW m \in Turns, CallStep(m) PROVE task'[n] = task[n]
    <2>1. ASSUME m = n PROVE FALSE
        BY <1>0, <1>5, <2>1, CallMoves DEF AskPcs, BeforePcs
    <2>. QED BY <1>5, <2>1, CallMoves
<1>6. ASSUME NEW m \in Turns, NextCall(m) PROVE task'[n] = task[n]
    <2>1. ASSUME m = n PROVE FALSE
        <3>1. task[n].pc = "next" /\ task[n].call \in CallsOf(n)
            BY <1>6, <2>1, NextMoves DEF Places, BeforePcs
        <3>2. task[n].call[2] \in 1..size[n]
            BY <3>1, CallsOfTurn
        <3>3. task[n].call[2] < c[2]
            BY <1>0, <3>1, <3>2 DEF BeforePcs, AskPcs
        <3>4. task'[n].pc \in {"check", "deliver"} /\ task'[n].call[2] = task[n].call[2] + 1
            <4>1. task[n].call[2] # size[n]
                BY <1>0, <3>2, <3>3
            <4>2. /\ task'[n].call = <<n, task[n].call[2] + 1>>
                  /\ task'[n].pc = IF task[n].tombs THEN "deliver" ELSE "check"
                BY <1>6, <2>1, <4>1, NextMoves
            <4>. QED BY <4>2
        <3>. QED BY <1>0, <3>2, <3>3, <3>4 DEF AskPcs
    <2>. QED BY <1>6, <2>1, NextMoves
<1>7. ASSUME NEW t \in Tasks, ResultStep(t), t = n PROVE Conclusion
    <2>1. task[n].pc \in ResultPcs \ {"next"} /\ task'[n].call = task[n].call
        BY <1>7, ResultMoves
    <2>2. task[n].call \in CallsOf(n)
        BY <2>1 DEF Places, BeforePcs, ResultPcs
    <2>3. task[n].call[2] \in 1..size[n] /\ task[n].call = <<n, task[n].call[2]>> /\ c = <<n, c[2]>>
        BY <2>2, CallsOfTurn
    <2>4. task[n].call[2] = c[2] /\ task[n].pc = "deliver"
        BY <1>0, <1>7, <2>1, <2>3, ResultMoves DEF BeforePcs, AskPcs, ResultPcs
    <2>5. Deliver(n) \/ DeliverIgnored(n) \/ DeliverFails(n)
        BY <1>7, <2>4 DEF ResultStep, Inject, SpillFails, Boundary, BoundaryConsume, BoundaryPause,
           BoundaryUi, BoundaryContinue, Request, EmitRequest, At
    <2>. QED BY <2>3, <2>4, <2>5
<1>8. ASSUME NEW t \in Tasks, ResultStep(t), t # n
      PROVE  task'[n].pc = task[n].pc /\ task'[n].call = task[n].call
    BY <1>8, ResultMoves
<1>9. ASSUME (ClientDone \/ \E d \in Calls : HandIn(d)) \/ Outside
      PROVE  task'[n].pc = task[n].pc /\ task'[n].call = task[n].call
    BY <1>9, ClientMoves, OutsideMoves
<1>. QED BY <1>1, <1>2, <1>3, <1>4, <1>5, <1>6, <1>7, <1>8, <1>9, StepCases DEF BeforePcs

\* What could not be stored is remembered.
LEMMA UnstoredStays ==
    ASSUME [Next]_vars
    PROVE  unstored \subseteq unstored'
<1>. SUFFICES ASSUME unstored' # unstored PROVE unstored \subseteq unstored'
    OBVIOUS
<1>. USE DEF history
<1>1. ASSUME NEW k \in 1..MaxCalls PROVE ~Respond(k)
    BY DEF Respond
<1>2. ASSUME NEW n \in Turns, BeforeStep(n) \/ Spawn(n) \/ NextCall(n) \/ CallStep(n) PROVE FALSE
    BY <1>2 DEF BeforeStep, WakeUp, CheckDropped, MarkBusy, InitializePending, Spawn, NextCall, CallStep,
       CheckCancel, CheckPolicy, ReadUnsafe, ReadYolo, Register, Answered, Run, Return
<1>3. ASSUME NEW t \in Tasks, ResultStep(t) PROVE DeliverFails(t)
    BY <1>3 DEF ResultStep, Deliver, DeliverIgnored, Inject, SpillFails, Boundary,
       BoundaryConsume, BoundaryPause, BoundaryUi, BoundaryContinue, Request, EmitRequest
<1>4. ~(ClientDone \/ \E c \in Calls : HandIn(c))
    BY DEF ClientDone, HandIn
<1>5. ~Outside
    <2>1. ASSUME NEW s \in Setters PROVE ~SetterStep(s) /\ \A m \in ModeChanges : ~SetMode(s, m)
        BY DEF SetterStep, SetMode, PersistMode, PersistModeFails, ListApprovals, ApproveNext
    <2>2. ~StopStep
        BY DEF StopStep, CancelRead, CancelSignal, CancelAbort, CancelPause, CancelClear,
           Terminate, TerminateIdle, TerminateReset, Clear, ClearWipe, ClearSettle
    <2>3. ~((\E o \in Stops : CallStop(o)) \/ Restart \/ RestartQueue \/ RestartBusy \/ RestartRequest)
        BY DEF CallStop, Restart, RestartQueue, RestartBusy, RestartRequest
    <2>4. ASSUME NEW c \in Calls, NEW a \in {"yes", "no"} PROVE ~UserAnswers(c, a)
        BY DEF UserAnswers
    <2>. QED BY <2>1, <2>2, <2>3, <2>4 DEF Outside, vars
<1>. QED BY <1>1, <1>2, <1>3, <1>4, <1>5, StepCases DEF DeliverFails

\* The pending batch lacks a call, and what its loop has left behind is counted
\* or could not be stored.
Kept ==
    /\ pending \in BatchRecord
    /\ \A n \in Turns : pending.turn = n =>
           /\ task[n].pc \notin BeforePcs \ {"spawn"}
           /\ pending.total = size[n]
           /\ pending.done \subseteq CallsOf(n) /\ pending.done # CallsOf(n)
           /\ \A c \in CallsOf(n) : Delivered(c) => c \in pending.done \cup unstored

LEMMA KeptStep ==
    ASSUME Typed, Places, Kept, [Next]_vars
    PROVE  Kept'
<1>. USE TurnsAreTasks
<1>1. ASSUME NEW n \in Turns, pending.turn = n, pending'.turn = n,
             pending'.total = pending.total, pending.done \subseteq pending'.done,
             pending'.done \subseteq CallsOf(n), pending'.done # CallsOf(n),
             \A c \in CallsOf(n) : Deliver(n) /\ task[n].call = c => c \in pending'.done
      PROVE  /\ task'[n].pc \notin BeforePcs \ {"spawn"}
             /\ pending'.total = size'[n]
             /\ pending'.done \subseteq CallsOf(n)' /\ pending'.done # CallsOf(n)'
             /\ \A c \in CallsOf(n)' : Delivered(c)' => c \in pending'.done \cup unstored'
    <2>1. task[n].pc \notin BeforePcs \ {"spawn"} /\ task'[n].pc \notin BeforePcs \ {"spawn"}
        BY <1>1, Closing DEF Kept
    <2>2. size'[n] = size[n]
        <3>1. ASSUME NEW k \in 1..MaxCalls, Respond(k) PROVE size'[n] = size[n]
            BY <2>1, <3>1, RespondMoves DEF Places, BeforePcs
        <3>. QED BY <3>1, BeforeMoves, SpawnMoves, CallMoves, NextMoves, ResultMoves, ClientMoves,
                OutsideMoves, StepCases
    <2>3. CallsOf(n)' = CallsOf(n)
        BY <2>2 DEF CallsOf
    <2>4. ASSUME NEW c \in CallsOf(n), Delivered(c)' PROVE c \in pending'.done \cup unstored'
        <3>1. CASE Delivered(c)
            BY <1>1, <3>1, UnstoredStays DEF Kept
        <3>2. CASE ~Delivered(c)
            <4>1. task[n].call = c /\ (Deliver(n) \/ DeliverIgnored(n) \/ DeliverFails(n))
                BY <2>1, <2>4, <3>2, DeliveredMoves
            <4>2. CASE DeliverIgnored(n)
                <5>1. pending # NoBatch
                    BY <1>1 DEF NoBatch, Turns
                <5>. QED BY <1>1, <4>1, <4>2, <5>1 DEF DeliverIgnored, Accepts
            <4>3. CASE DeliverFails(n)
                BY <4>1, <4>3 DEF DeliverFails
            <4>. QED BY <1>1, <4>1, <4>2, <4>3
        <3>. QED BY <3>1, <3>2
    <2>. QED BY <1>1, <2>1, <2>2, <2>3, <2>4 DEF Kept
<1>2. CASE UNCHANGED pending
    <2>1. ASSUME NEW n \in Turns, pending.turn = n PROVE ~Deliver(n)
        <3>1. ASSUME Deliver(n) PROVE pending' # pending
            <4>1. pending # NoBatch /\ task[n].call \notin pending.done
                BY <3>1 DEF Deliver, Accepts
            <4>. QED BY <3>1, <4>1 DEF Deliver, Kept, BatchRecord
        <3>. QED BY <1>2, <3>1
    <2>. QED BY <1>1, <1>2, <2>1 DEF Kept
<1>3. ASSUME NEW n \in Turns, InitializePending(n) PROVE Kept'
    <2>1. /\ pending' = [turn |-> n, total |-> size[n], done |-> {}]
          /\ task[n].pc = "initialize" /\ task'[n].pc = "spawn" /\ UNCHANGED size
        BY <1>3, GotoMoves DEF InitializePending, At, TaskPcs
    <2>2. size[n] \in Nat /\ size[n] >= 1
        BY <2>1, ToolAssumption DEF Places
    <2>3. <<n, 1>> \in CallsOf(n)'
        BY <2>1, <2>2 DEF CallsOf
    <2>4. \A c \in CallsOf(n)' : ~Delivered(c)'
        BY <2>1 DEF CallsOf, Delivered, Beyond, Turn, BeforePcs
    <2>. QED BY <2>1, <2>2, <2>3, <2>4 DEF Kept, BatchRecord, Turns
<1>4. ASSUME NEW t \in Tasks, Deliver(t) PROVE Kept'
    <2>0. task[t].pc = "deliver" /\ task[t].call \in Calls
        BY <1>4, InjectingCall DEF Deliver, At, ResultPcs
    <2>2. PICK d \in Calls : d = task[t].call
        BY <2>0
    <2>. DEFINE done == pending.done \cup {d}
                m == pending.turn
    <2>3. /\ d \in CallsOf(m) /\ d \notin pending.done
          /\ \/ pending' = NoBatch
             \/ pending' = [pending EXCEPT !.done = done] /\ ~(Cardinality(done) >= pending.total)
        BY <1>4, <2>2 DEF Deliver, Accepts
    <2>4. CASE pending' = NoBatch
        BY <2>4 DEF Kept, BatchRecord, NoBatch, Turns
    <2>5. CASE pending' = [pending EXCEPT !.done = done] /\ ~(Cardinality(done) >= pending.total)
        <3>1. /\ pending' \in BatchRecord /\ pending'.turn = m /\ pending'.total = pending.total
              /\ pending'.done = done
            BY <2>5 DEF Kept, BatchRecord
        <3>2. ASSUME m \in Turns
              PROVE  done \subseteq CallsOf(m) /\ done # CallsOf(m)
            <4>1. pending.total = size[m] /\ pending.done \subseteq CallsOf(m) /\ size[m] \in Nat
                BY <3>2, ToolAssumption DEF Kept, Places
            <4>2. Cardinality(CallsOf(m)) = size[m]
                BY <3>2, CallsCounted
            <4>. QED BY <2>3, <2>5, <4>1, <4>2
        <3>3. ASSUME NEW n \in Turns, n = m, NEW c \in CallsOf(n), Deliver(n), task[n].call = c
              PROVE  c \in done
            <4>1. pending'.done = pending.done \cup {c}
                BY <3>1, <3>3 DEF Deliver, NoBatch, Turns, Kept, BatchRecord
            <4>. QED BY <3>1, <4>1
        <3>. QED BY <1>1, <3>1, <3>2, <3>3 DEF Kept
    <2>. QED BY <2>3, <2>4, <2>5
<1>5. CASE ClearWipe
    BY <1>5 DEF ClearWipe, Kept, BatchRecord, NoBatch, Turns
<1>. QED BY <1>2, <1>3, <1>4, <1>5, PendingMoves

LEMMA KeptStart == Init => Kept
BY DEF Init, Kept, NoBatch, BatchRecord, Turns

\* The loop of a batch ends only when the batch is closed or replaced, unless a
\* result could not be stored (tool_execution.rs:436-438, workflow/tool.rs:49-52).
THEOREM NothingForgotten == Spec => []NoForgottenCall
<1>1. Init => Kept
    BY KeptStart
<1>2. Typed /\ Places /\ Kept /\ [Next]_vars => Kept'
    BY KeptStep
<1>3. Typed /\ Places /\ Kept => NoForgottenCall
    <2>1. ASSUME Typed, Places, Kept, NEW n \in Turns, At(n, "end"), pending.turn = n, CallsOf(n) \cap unstored = {}
          PROVE  FALSE
        <3>1. \A c \in CallsOf(n) : Delivered(c)
            BY <2>1, CallsOfTurn DEF At, Delivered, Beyond, Turn, BeforePcs
        <3>. QED BY <2>1, <3>1 DEF Kept
    <2>. QED BY <2>1 DEF NoForgottenCall
<1>. QED BY <1>1, <1>2, <1>3, Placed, PTL DEF Spec
-----------------------------------------------------------------------------
(* Types.                                                                    *)

\* What the invariants above leave open.
RestTypes ==
    /\ status \in {"Idle", "Queued", "Busy", "Paused", "Error"}
    /\ expected \in BOOLEAN /\ cancelPending \in BOOLEAN /\ cancelled \in BOOLEAN
    /\ pending = NoBatch \/ pending.turn \in Turns
    /\ stored \in AllModes
    /\ commands \in 0..MaxCommands /\ stop \in StopPcs /\ restart \in {"none", "queue", "busy", "request"}
    /\ unstored \subseteq Calls

LEMMA RestTypesStep ==
    ASSUME Typed, Places, Consented, Kept, RestTypes, [Next]_vars
    PROVE  RestTypes'
<1>. USE ToolAssumption DEF RestTypes, sessionVars, batchVars, modeVars, history, Command
<1>1. ASSUME NEW k \in 1..MaxCalls, Respond(k) PROVE RestTypes'
    BY <1>1 DEF Respond
<1>2. ASSUME NEW n \in Turns, BeforeStep(n) \/ Spawn(n) \/ NextCall(n) PROVE RestTypes'
    <2>1. CASE InitializePending(n)
        <3>1. pending' = [turn |-> n, total |-> size[n], done |-> {}]
            BY <2>1 DEF InitializePending
        <3>2. pending'.turn \in Turns
            BY <3>1
        <3>. QED BY <2>1, <3>2 DEF InitializePending
    <2>2. CASE WakeUp(n) \/ CheckDropped(n) \/ MarkBusy(n)
        BY <2>2 DEF WakeUp, CheckDropped, MarkBusy
    <2>3. CASE Spawn(n) \/ NextCall(n)
        BY <2>3 DEF Spawn, NextCall
    <2>. QED BY <1>2, <2>1, <2>2, <2>3 DEF BeforeStep
<1>3. ASSUME NEW n \in Turns, CallStep(n) PROVE RestTypes'
    BY <1>3 DEF CallStep, CheckCancel, CheckPolicy, ReadUnsafe, ReadYolo, Register, Answered, Run, Return
<1>4. ASSUME NEW t \in Tasks, ResultStep(t) PROVE RestTypes'
    <2>1. CASE Deliver(t)
        <3>1. pending' = NoBatch \/ pending'.turn = pending.turn
            BY <2>1 DEF Deliver, Kept, BatchRecord
        <3>2. pending # NoBatch
            BY <2>1 DEF Deliver, Accepts
        <3>. QED BY <2>1, <3>1, <3>2 DEF Deliver
    <2>2. CASE DeliverFails(t)
        <3>1. task[t].call \in Calls
            BY <2>2, InjectingCall DEF DeliverFails, At, ResultPcs
        <3>. QED BY <2>2, <3>1 DEF DeliverFails
    <2>3. CASE DeliverIgnored(t) \/ Inject(t) \/ SpillFails(t)
        BY <2>3 DEF DeliverIgnored, Inject, SpillFails
    <2>4. CASE Boundary(t) \/ BoundaryConsume(t) \/ BoundaryPause(t) \/ BoundaryUi(t)
                 \/ BoundaryContinue(t) \/ Request(t) \/ EmitRequest(t)
        BY <2>4 DEF Boundary, BoundaryConsume, BoundaryPause, BoundaryUi, BoundaryContinue, Request, EmitRequest
    <2>. QED BY <1>4, <2>1, <2>2, <2>3, <2>4 DEF ResultStep
<1>5. CASE ClientDone \/ \E c \in Calls : HandIn(c)
    <2>1. CASE ClientDone
        BY <2>1 DEF ClientDone
    <2>2. ASSUME NEW c \in Calls, HandIn(c) PROVE RestTypes'
        BY <2>2 DEF HandIn
    <2>. QED BY <1>5, <2>1, <2>2
<1>6. CASE Outside
    <2>1. CASE \E c \in Calls, a \in {"yes", "no"} : UserAnswers(c, a)
        BY <2>1 DEF UserAnswers
    <2>2. CASE \E s \in Setters : SetterStep(s) \/ (\E m \in ModeChanges : SetMode(s, m))
        BY <2>2 DEF SetterStep, SetMode, PersistMode, PersistModeFails, ListApprovals, ApproveNext,
           Consented, ConsentTypes
    <2>3. CASE StopStep
        <3>. USE DEF StopPcs
        <3>1. CASE CancelRead \/ CancelSignal \/ CancelAbort \/ CancelPause \/ CancelClear
            BY <3>1 DEF CancelRead, CancelSignal, CancelAbort, CancelPause, CancelClear
        <3>2. CASE Terminate \/ TerminateIdle \/ TerminateReset
            BY <3>2 DEF Terminate, TerminateIdle, TerminateReset
        <3>3. CASE Clear \/ ClearWipe \/ ClearSettle
            BY <3>3 DEF Clear, ClearWipe, ClearSettle
        <3>. QED BY <2>3, <3>1, <3>2, <3>3 DEF StopStep
    <2>4. CASE \E o \in Stops : CallStop(o)
        BY <2>4 DEF CallStop, StopPcs
    <2>5. CASE Restart \/ RestartQueue \/ RestartBusy \/ RestartRequest
        <3>1. CASE Restart
            <4>1. /\ cancelPending' = FALSE /\ cancelled' = FALSE /\ restart' = "queue"
                  /\ commands < MaxCommands /\ commands' = commands + 1
                  /\ UNCHANGED <<status, expected, pending, stored, stop, unstored>>
                BY <3>1 DEF Restart
            <4>2. commands' \in 0..MaxCommands
                BY <4>1
            <4>. QED BY <4>1, <4>2
        <3>2. CASE RestartQueue \/ RestartBusy
            BY <3>2 DEF RestartQueue, RestartBusy
        <3>3. CASE RestartRequest
            BY <3>3 DEF RestartRequest
        <3>. QED BY <2>5, <3>1, <3>2, <3>3
    <2>6. CASE UNCHANGED vars
        BY <2>6 DEF vars
    <2>. QED BY <1>6, <2>1, <2>2, <2>3, <2>4, <2>5, <2>6 DEF Outside
<1>. QED BY <1>1, <1>2, <1>3, <1>4, <1>5, <1>6, StepCases

\* Every state of the tool loops is well formed: a pending batch names calls of
\* an answer that was given and lacks one of them (tools.rs:18-40).
THEOREM WellTyped == Spec => []TypeOK
<1>1. Init => LateOnce /\ Single /\ Kept /\ Consented /\ RestTypes
    <2>1. Init => RestTypes
        <3>1. 0 \in 0..MaxCommands
            BY ToolAssumption
        <3>. QED BY <3>1 DEF Init, RestTypes, AllModes, StopPcs
    <2>. QED BY <2>1, LateStart, SingleStart, KeptStart, ConsentedStart
<1>2. Typed /\ Places /\ LateOnce /\ Single /\ Kept /\ Consented /\ RestTypes /\ [Next]_vars
          => LateOnce' /\ Single' /\ Kept' /\ Consented' /\ RestTypes'
    BY LateStep, SingleStep, KeptStep, ConsentedStep, RestTypesStep
<1>3. Typed /\ Places /\ LateOnce /\ Single /\ Kept /\ Consented /\ RestTypes => TypeOK
    <2>. SUFFICES ASSUME Typed, Places, LateOnce, Single, Kept, Consented, RestTypes PROVE TypeOK
        OBVIOUS
    <2>1. \/ pending = NoBatch
          \/ /\ pending.turn \in 1..turn /\ pending.total = size[pending.turn]
             /\ pending.done \subseteq CallsOf(pending.turn)
             /\ Cardinality(pending.done) < pending.total
        <3>. DEFINE m == pending.turn
        <3>. SUFFICES ASSUME m \in Turns
                      PROVE  /\ m \in 1..turn /\ pending.total = size[m]
                             /\ pending.done \subseteq CallsOf(m)
                             /\ Cardinality(pending.done) < pending.total
            BY DEF RestTypes
        <3>1. /\ task[m].pc # "none" /\ pending.total = size[m] /\ size[m] \in Nat
              /\ pending.done \subseteq CallsOf(m) /\ pending.done # CallsOf(m)
            BY ToolAssumption DEF Kept, BeforePcs, Places
        <3>2. m \in 1..turn
            BY <3>1, ToolAssumption DEF Places, Turns
        <3>3. IsFiniteSet(CallsOf(m)) /\ Cardinality(CallsOf(m)) = size[m]
            BY CallsCounted
        <3>4. Cardinality(pending.done) \in Nat /\ Cardinality(pending.done) <= size[m]
              /\ Cardinality(pending.done) # size[m]
            BY <3>1, <3>3, FS_Subset, FS_CardinalityType
        <3>. QED BY <3>1, <3>2, <3>4
    <2>. QED BY <2>1 DEF TypeOK, Typed, TaskRecord, Places, LateOnce, Single, Consented, ConsentTypes, RestTypes
<1>. QED BY <1>1, <1>2, <1>3, Placed, PTL DEF Spec
================================================================================
