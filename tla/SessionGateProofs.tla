-------------------------- MODULE SessionGateProofs --------------------------
(***************************************************************************)
(* Proofs about SessionGate, for any number of sessions, futures and        *)
(* permits.  The inductive invariant adds LocalsMatchPc to the invariants   *)
(* of the model: a future owns a permit in a local variable only between     *)
(* certain await points, so no assignment overwrites one that is still      *)
(* owned.  The last part shows that the gate implements PermitPool.         *)
(***************************************************************************)
EXTENDS SessionGate, FiniteSetTheorems, TLAPS

\* Which local variables of a future own a permit at which await point, and
\* that the argument of a running update is a status.
LocalsMatchPc ==
    \A t \in Tasks :
        /\ pc[t] \in {"bgPlace", "suspend", "restore"} => held[t] # NoPermit
        /\ held[t] # NoPermit =>
              pc[t] \in {"lock", "persist", "commit", "bgPlace", "suspend", "restore"}
        /\ released[t] # NoPermit => pc[t] \in {"persist", "commit"}
        /\ seat[t] # NoPermit <=> pc[t] \in {"waiting", "resume"}
        /\ pc[t] \in UpdatePcs \cup {"openWrite"} => target[t] \in Statuses

\* A future works on a session of the map.
LEMMA SessType == \A t \in Tasks : Sess(t) \in Sessions
  BY DEF Tasks, Sess

\* Replacing the token of a session keeps both token variables typed.
LEMMA FreshTokenType ==
  ASSUME NEW s \in Sessions, FreshToken(s),
         cancelled \in [Sessions -> BOOLEAN], token \in [Tasks -> TokenNames]
  PROVE  cancelled' \in [Sessions -> BOOLEAN] /\ token' \in [Tasks -> TokenNames]
  BY DEF FreshToken, TokenNames
-----------------------------------------------------------------------------
\* The initial state is typed and no local variable owns a permit.
LEMMA TypeInit == Init => TypeOK /\ LocalsMatchPc
  BY DEF Init, TypeOK, LocalsMatchPc, Statuses, NoStatus, OpNames, NoOp, PcNames, UpdatePcs,
         TokenNames

\* Every step keeps the types and the correspondence between await points and
\* local variables.
LEMMA TypeStep ==
  TypeOK /\ LocalsMatchPc /\ [Next]_vars => TypeOK' /\ LocalsMatchPc'
<1> USE GateAssumption, SessType
    DEF UpdatePcs, AwaitPcs, PcNames, Statuses, NoStatus, OpNames, AllOperations,
        Continuations, NoOp, sessionVars, flagVars, gateVars, Go, Goto, Done, Update
<1> SUFFICES ASSUME TypeOK, LocalsMatchPc, [Next]_vars
             PROVE  TypeOK' /\ LocalsMatchPc'
  OBVIOUS
<1>0. CASE UNCHANGED vars
  BY <1>0 DEF vars, taskVars, TypeOK, LocalsMatchPc
<1>c. ASSUME NEW t \in Tasks, NEW o \in Operations, Call(t, o)
      PROVE  TypeOK' /\ LocalsMatchPc'
  <2>1. TypeOK'
    BY <1>c DEF Call, Entry, TypeOK
  <2>2. LocalsMatchPc'
    BY <1>c DEF Call, Entry, TypeOK, LocalsMatchPc
  <2> QED BY <2>1, <2>2
<1>1. ASSUME NEW t \in Tasks, UpdateEnter(t) PROVE TypeOK' /\ LocalsMatchPc'
  <2>1. TypeOK'
    BY <1>1 DEF UpdateEnter, TypeOK, LocalsMatchPc
  <2>2. LocalsMatchPc'
    BY <1>1 DEF UpdateEnter, TypeOK, LocalsMatchPc
  <2> QED BY <2>1, <2>2
<1>2. ASSUME NEW t \in Tasks, UpdateGate(t) PROVE TypeOK' /\ LocalsMatchPc'
  <2>1. TypeOK'
    BY <1>2 DEF UpdateGate, TypeOK, LocalsMatchPc
  <2>2. LocalsMatchPc'
    BY <1>2 DEF UpdateGate, TypeOK, LocalsMatchPc
  <2> QED BY <2>1, <2>2
<1>3. ASSUME NEW t \in Tasks, UpdateLock(t) PROVE TypeOK' /\ LocalsMatchPc'
  <2>1. TypeOK'
    BY <1>3 DEF UpdateLock, Dropped, TypeOK, LocalsMatchPc
  <2>2. LocalsMatchPc'
    BY <1>3 DEF UpdateLock, Dropped, TypeOK, LocalsMatchPc
  <2> QED BY <2>1, <2>2
<1>4. ASSUME NEW t \in Tasks, UpdateLockRefused(t) PROVE TypeOK' /\ LocalsMatchPc'
  <2>1. TypeOK'
    BY <1>4 DEF UpdateLockRefused, Return, AfterErr, NextOp, Starters, TypeOK,
        LocalsMatchPc
  <2>2. LocalsMatchPc'
    BY <1>4 DEF UpdateLockRefused, Return, AfterErr, NextOp, Starters, TypeOK,
        LocalsMatchPc
  <2> QED BY <2>1, <2>2
<1>5. ASSUME NEW t \in Tasks, UpdatePersist(t) PROVE TypeOK' /\ LocalsMatchPc'
  <2>1. TypeOK'
    BY <1>5 DEF UpdatePersist, TypeOK, LocalsMatchPc
  <2>2. LocalsMatchPc'
    BY <1>5 DEF UpdatePersist, TypeOK, LocalsMatchPc
  <2> QED BY <2>1, <2>2
<1>6. ASSUME NEW t \in Tasks, UpdatePersistFails(t) PROVE TypeOK' /\ LocalsMatchPc'
  <2>1. TypeOK'
    BY <1>6 DEF UpdatePersistFails, Dropped, Return, AfterErr, NextOp, Starters, TypeOK,
        LocalsMatchPc
  <2>2. LocalsMatchPc'
    BY <1>6 DEF UpdatePersistFails, Dropped, Return, AfterErr, NextOp, Starters, TypeOK,
        LocalsMatchPc
  <2> QED BY <2>1, <2>2
<1>7. ASSUME NEW t \in Tasks, UpdateCommit(t) PROVE TypeOK' /\ LocalsMatchPc'
  <2>1. TypeOK'
    BY <1>7 DEF UpdateCommit, Dropped, Return, AfterOk, NextOp, Starters, TypeOK,
        LocalsMatchPc
  <2>2. LocalsMatchPc'
    BY <1>7 DEF UpdateCommit, Dropped, Return, AfterOk, NextOp, Starters, TypeOK,
        LocalsMatchPc
  <2> QED BY <2>1, <2>2
<1>8. ASSUME NEW t \in Tasks, StartDecide(t) PROVE TypeOK' /\ LocalsMatchPc'
  <2>1. TypeOK'
    BY <1>8 DEF StartDecide, TypeOK, LocalsMatchPc
  <2>2. LocalsMatchPc'
    BY <1>8 DEF StartDecide, TypeOK, LocalsMatchPc
  <2> QED BY <2>1, <2>2
<1>9. ASSUME NEW t \in Tasks, ResetExecution(t) PROVE TypeOK' /\ LocalsMatchPc'
  <2>1. cancelled' \in [Sessions -> BOOLEAN] /\ token' \in [Tasks -> TokenNames]
    BY <1>9, FreshTokenType DEF ResetExecution, TypeOK
  <2>2. pc' \in [Tasks -> PcNames] /\ op' \in [Tasks -> OpNames]
        /\ target' \in [Tasks -> Statuses \cup {NoStatus}]
    BY <1>9 DEF ResetExecution, TypeOK
  <2>3. TypeOK'
    BY <1>9, <2>1, <2>2 DEF ResetExecution, TypeOK
  <2>4. LocalsMatchPc'
    BY <1>9 DEF ResetExecution, TypeOK, LocalsMatchPc
  <2> QED BY <2>3, <2>4
<1>10. ASSUME NEW t \in Tasks, StartAppend(t) PROVE TypeOK' /\ LocalsMatchPc'
  <2>1. TypeOK'
    BY <1>10 DEF StartAppend, TypeOK, LocalsMatchPc
  <2>2. LocalsMatchPc'
    BY <1>10 DEF StartAppend, TypeOK, LocalsMatchPc
  <2> QED BY <2>1, <2>2
<1>11. ASSUME NEW t \in Tasks, BackgroundAcquire(t) PROVE TypeOK' /\ LocalsMatchPc'
  <2>1. TypeOK'
    BY <1>11 DEF BackgroundAcquire, TypeOK, LocalsMatchPc
  <2>2. LocalsMatchPc'
    BY <1>11 DEF BackgroundAcquire, TypeOK, LocalsMatchPc
  <2> QED BY <2>1, <2>2
<1>12. ASSUME NEW t \in Tasks, BackgroundAbort(t) PROVE TypeOK' /\ LocalsMatchPc'
  <2>1. TypeOK'
    BY <1>12 DEF BackgroundAbort, TypeOK, LocalsMatchPc
  <2>2. LocalsMatchPc'
    BY <1>12 DEF BackgroundAbort, TypeOK, LocalsMatchPc
  <2> QED BY <2>1, <2>2
<1>13. ASSUME NEW t \in Tasks, BackgroundPlace(t) PROVE TypeOK' /\ LocalsMatchPc'
  <2>1. TypeOK'
    BY <1>13 DEF BackgroundPlace, Dropped, TypeOK, LocalsMatchPc
  <2>2. LocalsMatchPc'
    BY <1>13 DEF BackgroundPlace, Dropped, TypeOK, LocalsMatchPc
  <2> QED BY <2>1, <2>2
<1>14. ASSUME NEW t \in Tasks, BackgroundDrop(t) PROVE TypeOK' /\ LocalsMatchPc'
  <2>1. TypeOK'
    BY <1>14 DEF BackgroundDrop, Dropped, TypeOK, LocalsMatchPc
  <2>2. LocalsMatchPc'
    BY <1>14 DEF BackgroundDrop, Dropped, TypeOK, LocalsMatchPc
  <2> QED BY <2>1, <2>2
<1>15. ASSUME NEW t \in Tasks, ProxyFails(t) PROVE TypeOK' /\ LocalsMatchPc'
  <2>1. TypeOK'
    BY <1>15 DEF ProxyFails, Starters, TypeOK, LocalsMatchPc
  <2>2. LocalsMatchPc'
    BY <1>15 DEF ProxyFails, Starters, TypeOK, LocalsMatchPc
  <2> QED BY <2>1, <2>2
<1>16. ASSUME NEW t \in Tasks, Request(t) PROVE TypeOK' /\ LocalsMatchPc'
  <2>1. TypeOK'
    BY <1>16 DEF Request, RequestFails, Starters, TypeOK, LocalsMatchPc
  <2>2. LocalsMatchPc'
    BY <1>16 DEF Request, RequestFails, Starters, TypeOK, LocalsMatchPc
  <2> QED BY <2>1, <2>2
<1>17. ASSUME NEW t \in Tasks, EmitRequest(t) PROVE TypeOK' /\ LocalsMatchPc'
  <2>1. TypeOK'
    BY <1>17 DEF EmitRequest, TypeOK, LocalsMatchPc
  <2>2. LocalsMatchPc'
    BY <1>17 DEF EmitRequest, TypeOK, LocalsMatchPc
  <2> QED BY <2>1, <2>2
<1>18. ASSUME NEW t \in Tasks, Respond(t) PROVE TypeOK' /\ LocalsMatchPc'
  <2>1. TypeOK'
    BY <1>18 DEF Respond, TypeOK, LocalsMatchPc
  <2>2. LocalsMatchPc'
    BY <1>18 DEF Respond, TypeOK, LocalsMatchPc
  <2> QED BY <2>1, <2>2
<1>19. ASSUME NEW t \in Tasks, ConsumeExpected(t) PROVE TypeOK' /\ LocalsMatchPc'
  <2>1. TypeOK'
    BY <1>19 DEF ConsumeExpected, TypeOK, LocalsMatchPc
  <2>2. LocalsMatchPc'
    BY <1>19 DEF ConsumeExpected, TypeOK, LocalsMatchPc
  <2> QED BY <2>1, <2>2
<1>20. ASSUME NEW t \in Tasks, RespondUiTool(t) PROVE TypeOK' /\ LocalsMatchPc'
  <2>1. TypeOK'
    BY <1>20 DEF RespondUiTool, TypeOK, LocalsMatchPc
  <2>2. LocalsMatchPc'
    BY <1>20 DEF RespondUiTool, TypeOK, LocalsMatchPc
  <2> QED BY <2>1, <2>2
<1>21. ASSUME NEW t \in Tasks, MarkBusy(t) PROVE TypeOK' /\ LocalsMatchPc'
  <2>1. TypeOK'
    BY <1>21 DEF MarkBusy, TypeOK, LocalsMatchPc
  <2>2. LocalsMatchPc'
    BY <1>21 DEF MarkBusy, TypeOK, LocalsMatchPc
  <2> QED BY <2>1, <2>2
<1>22. ASSUME NEW t \in Tasks, OutcomeRetry(t) PROVE TypeOK' /\ LocalsMatchPc'
  <2>1. TypeOK'
    BY <1>22 DEF OutcomeRetry, TypeOK, LocalsMatchPc
  <2>2. LocalsMatchPc'
    BY <1>22 DEF OutcomeRetry, TypeOK, LocalsMatchPc
  <2> QED BY <2>1, <2>2
<1>23. ASSUME NEW t \in Tasks, Outcome(t) PROVE TypeOK' /\ LocalsMatchPc'
  <2>1. TypeOK'
    BY <1>23 DEF Outcome, TypeOK, LocalsMatchPc
  <2>2. LocalsMatchPc'
    BY <1>23 DEF Outcome, TypeOK, LocalsMatchPc
  <2> QED BY <2>1, <2>2
<1>24. ASSUME NEW t \in Tasks, InitializeTools(t) PROVE TypeOK' /\ LocalsMatchPc'
  <2>1. TypeOK'
    BY <1>24 DEF InitializeTools, TokenNames, TypeOK, LocalsMatchPc
  <2>2. LocalsMatchPc'
    BY <1>24 DEF InitializeTools, TokenNames, TypeOK, LocalsMatchPc
  <2> QED BY <2>1, <2>2
<1>25. ASSUME NEW t \in Tasks, ToolSpawn(t) PROVE TypeOK' /\ LocalsMatchPc'
  <2>1. TypeOK'
    BY <1>25 DEF ToolSpawn, TokenNames, TypeOK, LocalsMatchPc
  <2>2. LocalsMatchPc'
    BY <1>25 DEF ToolSpawn, TokenNames, TypeOK, LocalsMatchPc
  <2> QED BY <2>1, <2>2
<1>26. ASSUME NEW t \in Tasks, ToolLoop(t) PROVE TypeOK' /\ LocalsMatchPc'
  <2>1. TypeOK'
    BY <1>26 DEF ToolLoop, TypeOK, LocalsMatchPc
  <2>2. LocalsMatchPc'
    BY <1>26 DEF ToolLoop, TypeOK, LocalsMatchPc
  <2> QED BY <2>1, <2>2
<1>27. ASSUME NEW t \in Tasks, AwaitTake(t) PROVE TypeOK' /\ LocalsMatchPc'
  <2>1. TypeOK'
    BY <1>27 DEF AwaitTake, TypeOK, LocalsMatchPc
  <2>2. LocalsMatchPc'
    BY <1>27 DEF AwaitTake, TypeOK, LocalsMatchPc
  <2> QED BY <2>1, <2>2
<1>28. ASSUME NEW t \in Tasks, AwaitSuspend(t) PROVE TypeOK' /\ LocalsMatchPc'
  <2>1. TypeOK'
    BY <1>28 DEF AwaitSuspend, TypeOK, LocalsMatchPc
  <2>2. LocalsMatchPc'
    BY <1>28 DEF AwaitSuspend, TypeOK, LocalsMatchPc
  <2> QED BY <2>1, <2>2
<1>29. ASSUME NEW t \in Tasks, AwaitWake(t) PROVE TypeOK' /\ LocalsMatchPc'
  <2>1. TypeOK'
    BY <1>29 DEF AwaitWake, TypeOK, LocalsMatchPc
  <2>2. LocalsMatchPc'
    BY <1>29 DEF AwaitWake, TypeOK, LocalsMatchPc
  <2> QED BY <2>1, <2>2
<1>30. ASSUME NEW t \in Tasks, AwaitResume(t) PROVE TypeOK' /\ LocalsMatchPc'
  <2>1. TypeOK'
    BY <1>30 DEF AwaitResume, TypeOK, LocalsMatchPc
  <2>2. LocalsMatchPc'
    BY <1>30 DEF AwaitResume, TypeOK, LocalsMatchPc
  <2> QED BY <2>1, <2>2
<1>31. ASSUME NEW t \in Tasks, AwaitRestore(t) PROVE TypeOK' /\ LocalsMatchPc'
  <2>1. TypeOK'
    BY <1>31 DEF AwaitRestore, Dropped, TypeOK, LocalsMatchPc
  <2>2. LocalsMatchPc'
    BY <1>31 DEF AwaitRestore, Dropped, TypeOK, LocalsMatchPc
  <2> QED BY <2>1, <2>2
<1>32. ASSUME NEW t \in Tasks, ToolsStale(t) PROVE TypeOK' /\ LocalsMatchPc'
  <2>1. TypeOK'
    BY <1>32 DEF ToolsStale, TokenNames, TypeOK, LocalsMatchPc
  <2>2. LocalsMatchPc'
    BY <1>32 DEF ToolsStale, TokenNames, TypeOK, LocalsMatchPc
  <2> QED BY <2>1, <2>2
<1>33. ASSUME NEW t \in Tasks, ToolsDone(t) PROVE TypeOK' /\ LocalsMatchPc'
  <2>1. TypeOK'
    BY <1>33 DEF ToolsDone, TokenNames, TypeOK, LocalsMatchPc
  <2>2. LocalsMatchPc'
    BY <1>33 DEF ToolsDone, TokenNames, TypeOK, LocalsMatchPc
  <2> QED BY <2>1, <2>2
<1>34. ASSUME NEW t \in Tasks, ToolsFail(t) PROVE TypeOK' /\ LocalsMatchPc'
  <2>1. TypeOK'
    BY <1>34 DEF ToolsFail, TokenNames, TypeOK, LocalsMatchPc
  <2>2. LocalsMatchPc'
    BY <1>34 DEF ToolsFail, TokenNames, TypeOK, LocalsMatchPc
  <2> QED BY <2>1, <2>2
<1>35. ASSUME NEW t \in Tasks, BoundaryCancel(t) PROVE TypeOK' /\ LocalsMatchPc'
  <2>1. cancelled' \in [Sessions -> BOOLEAN] /\ token' \in [Tasks -> TokenNames]
    BY <1>35, FreshTokenType DEF BoundaryCancel, TypeOK
  <2>2. pc' \in [Tasks -> PcNames] /\ op' \in [Tasks -> OpNames]
        /\ target' \in [Tasks -> Statuses \cup {NoStatus}]
    BY <1>35 DEF BoundaryCancel, TypeOK
  <2>3. TypeOK'
    BY <1>35, <2>1, <2>2 DEF BoundaryCancel, TypeOK
  <2>4. LocalsMatchPc'
    BY <1>35 DEF BoundaryCancel, TypeOK, LocalsMatchPc
  <2> QED BY <2>3, <2>4
<1>36. ASSUME NEW t \in Tasks, BoundaryContinue(t) PROVE TypeOK' /\ LocalsMatchPc'
  <2>1. TypeOK'
    BY <1>36 DEF BoundaryContinue, TypeOK, LocalsMatchPc
  <2>2. LocalsMatchPc'
    BY <1>36 DEF BoundaryContinue, TypeOK, LocalsMatchPc
  <2> QED BY <2>1, <2>2
<1>37. ASSUME NEW t \in Tasks, CancelRead(t) PROVE TypeOK' /\ LocalsMatchPc'
  <2>1. TypeOK'
    BY <1>37 DEF CancelRead, TypeOK, LocalsMatchPc
  <2>2. LocalsMatchPc'
    BY <1>37 DEF CancelRead, TypeOK, LocalsMatchPc
  <2> QED BY <2>1, <2>2
<1>38. ASSUME NEW t \in Tasks, CancelFlag(t) PROVE TypeOK' /\ LocalsMatchPc'
  <2>1. TypeOK'
    BY <1>38 DEF CancelFlag, TypeOK, LocalsMatchPc
  <2>2. LocalsMatchPc'
    BY <1>38 DEF CancelFlag, TypeOK, LocalsMatchPc
  <2> QED BY <2>1, <2>2
<1>39. ASSUME NEW t \in Tasks, CancelClear(t) PROVE TypeOK' /\ LocalsMatchPc'
  <2>1. TypeOK'
    BY <1>39 DEF CancelClear, TypeOK, LocalsMatchPc
  <2>2. LocalsMatchPc'
    BY <1>39 DEF CancelClear, TypeOK, LocalsMatchPc
  <2> QED BY <2>1, <2>2
<1>40. ASSUME NEW t \in Tasks, Terminate(t) PROVE TypeOK' /\ LocalsMatchPc'
  <2>1. TypeOK'
    BY <1>40 DEF Terminate, TypeOK, LocalsMatchPc
  <2>2. LocalsMatchPc'
    BY <1>40 DEF Terminate, TypeOK, LocalsMatchPc
  <2> QED BY <2>1, <2>2
<1>41. ASSUME NEW t \in Tasks, TerminateReset(t) PROVE TypeOK' /\ LocalsMatchPc'
  <2>1. cancelled' \in [Sessions -> BOOLEAN] /\ token' \in [Tasks -> TokenNames]
    BY <1>41, FreshTokenType DEF TerminateReset, TypeOK
  <2>2. pc' \in [Tasks -> PcNames] /\ op' \in [Tasks -> OpNames]
        /\ target' \in [Tasks -> Statuses \cup {NoStatus}]
    BY <1>41 DEF TerminateReset, TypeOK
  <2>3. TypeOK'
    BY <1>41, <2>1, <2>2 DEF TerminateReset, TypeOK
  <2>4. LocalsMatchPc'
    BY <1>41 DEF TerminateReset, TypeOK, LocalsMatchPc
  <2> QED BY <2>3, <2>4
<1>42. ASSUME NEW t \in Tasks, Clear(t) PROVE TypeOK' /\ LocalsMatchPc'
  <2>1. TypeOK'
    BY <1>42 DEF Clear, TypeOK, LocalsMatchPc
  <2>2. LocalsMatchPc'
    BY <1>42 DEF Clear, TypeOK, LocalsMatchPc
  <2> QED BY <2>1, <2>2
<1>43. ASSUME NEW t \in Tasks, ClearWipe(t) PROVE TypeOK' /\ LocalsMatchPc'
  <2>1. TypeOK'
    BY <1>43 DEF ClearWipe, TypeOK, LocalsMatchPc
  <2>2. LocalsMatchPc'
    BY <1>43 DEF ClearWipe, TypeOK, LocalsMatchPc
  <2> QED BY <2>1, <2>2
<1>44. ASSUME NEW t \in Tasks, ClearFails(t) PROVE TypeOK' /\ LocalsMatchPc'
  <2>1. TypeOK'
    BY <1>44 DEF ClearFails, TypeOK, LocalsMatchPc
  <2>2. LocalsMatchPc'
    BY <1>44 DEF ClearFails, TypeOK, LocalsMatchPc
  <2> QED BY <2>1, <2>2
<1>45. ASSUME NEW t \in Tasks, OpenRead(t) PROVE TypeOK' /\ LocalsMatchPc'
  <2>1. TypeOK'
    BY <1>45 DEF OpenRead, TypeOK, LocalsMatchPc
  <2>2. LocalsMatchPc'
    BY <1>45 DEF OpenRead, TypeOK, LocalsMatchPc
  <2> QED BY <2>1, <2>2
<1>46. ASSUME NEW t \in Tasks, OpenWrite(t) PROVE TypeOK' /\ LocalsMatchPc'
  <2>1. TypeOK'
    BY <1>46 DEF OpenWrite, TypeOK, LocalsMatchPc
  <2>2. LocalsMatchPc'
    BY <1>46 DEF OpenWrite, TypeOK, LocalsMatchPc
  <2> QED BY <2>1, <2>2
<1> QED
  BY <1>c, <1>0, <1>1, <1>2, <1>3, <1>4, <1>5, <1>6, <1>7, <1>8, <1>9, <1>10, <1>11,
      <1>12, <1>13, <1>14, <1>15, <1>16, <1>17, <1>18, <1>19, <1>20, <1>21, <1>22,
      <1>23, <1>24, <1>25, <1>26, <1>27, <1>28, <1>29, <1>30, <1>31, <1>32, <1>33,
      <1>34, <1>35, <1>36, <1>37, <1>38, <1>39, <1>40, <1>41, <1>42, <1>43, <1>44,
      <1>45, <1>46 DEF Next, GateStep, LockStep, LocalStep

\* TypeOK holds for every number of sessions, futures and permits: whatever
\* the interleaving, no operation leaves a variable of the status machine or
\* of the gate outside its type; in particular the semaphores hold only
\* permits they were created with (concurrency.rs:87-102).
THEOREM Typed == Spec => []TypeOK
<1>1. TypeOK /\ LocalsMatchPc /\ [Next]_vars => (TypeOK /\ LocalsMatchPc)'
  BY TypeStep
<1> QED BY TypeInit, <1>1, PTL DEF Spec
-----------------------------------------------------------------------------
(* Ownership of permits.                                                     *)

permitVars == <<permit, freeActive, freeSuspended, held, released, seat>>

\* A step that moves no permit keeps every statement about owners.
LEMMA OwnersUnchanged ==
  ASSUME UNCHANGED permitVars, NoDoubleOwner, NoLostPermit
  PROVE  NoDoubleOwner' /\ NoLostPermit'
  BY DEF permitVars, NoDoubleOwner, NoLostPermit

\* Task t moves permits, each from one place to another.
Moves(t) ==
    /\ \A p \in ActivePermits :
        /\ p \in freeActive => p \in freeActive' \/ held'[t] = p
        /\ \A s \in Sessions : permit[s] = p =>
              permit'[s] = p \/ p \in freeActive' \/ held'[t] = p \/ released'[t] = p
        /\ \A u \in Tasks : held[u] = p =>
              held'[u] = p \/ p \in freeActive' \/ permit'[Sess(t)] = p
        /\ \A u \in Tasks : released[u] = p =>
              released'[u] = p \/ p \in freeActive' \/ permit'[Sess(t)] = p
    /\ \A q \in SuspendedPermits :
        /\ q \in freeSuspended => q \in freeSuspended' \/ seat'[t] = q
        /\ \A u \in Tasks : seat[u] = q => seat'[u] = q \/ q \in freeSuspended'

\* Moving permits loses none.
LEMMA MovesLoseNothing ==
  ASSUME NEW t \in Tasks, Moves(t), NoLostPermit
  PROVE  NoLostPermit'
<1>1. ASSUME NEW p \in ActivePermits
      PROVE  \/ p \in freeActive'
             \/ \E s \in Sessions : permit'[s] = p
             \/ \E u \in Tasks : held'[u] = p \/ released'[u] = p
  <2>1. CASE p \in freeActive
    BY <2>1 DEF Moves
  <2>2. CASE \E s \in Sessions : permit[s] = p
    BY <2>2 DEF Moves
  <2>3. CASE \E u \in Tasks : held[u] = p \/ released[u] = p
    BY <2>3, SessType DEF Moves
  <2> QED BY <2>1, <2>2, <2>3 DEF NoLostPermit
<1>2. ASSUME NEW q \in SuspendedPermits
      PROVE  q \in freeSuspended' \/ \E u \in Tasks : seat'[u] = q
  BY DEF Moves, NoLostPermit
<1> QED BY <1>1, <1>2 DEF NoLostPermit

\* The steps that move no permit.
Neutral(t) ==
    \/ \E op0 \in Operations : Call(t, op0)
    \/ UpdateEnter(t) \/ UpdateLockRefused(t) \/ UpdatePersist(t) \/ StartDecide(t)
    \/ ResetExecution(t) \/ StartAppend(t) \/ ProxyFails(t) \/ Request(t)
    \/ EmitRequest(t) \/ Respond(t) \/ ConsumeExpected(t) \/ RespondUiTool(t)
    \/ MarkBusy(t) \/ OutcomeRetry(t) \/ Outcome(t) \/ InitializeTools(t)
    \/ ToolSpawn(t) \/ ToolLoop(t) \/ AwaitWake(t) \/ ToolsStale(t)
    \/ ToolsDone(t) \/ ToolsFail(t) \/ BoundaryCancel(t) \/ BoundaryContinue(t)
    \/ CancelRead(t) \/ CancelFlag(t) \/ CancelClear(t) \/ Terminate(t)
    \/ TerminateReset(t) \/ Clear(t) \/ ClearWipe(t) \/ ClearFails(t)
    \/ OpenRead(t) \/ OpenWrite(t)

\* A neutral step leaves every permit where it is.
LEMMA NeutralKeepsPermits ==
  ASSUME NEW t \in Tasks, Neutral(t)
  PROVE  UNCHANGED permitVars
  BY DEF Neutral, permitVars, sessionVars, flagVars, gateVars, Call, UpdateEnter,
      UpdateLockRefused, UpdatePersist, StartDecide, ResetExecution, StartAppend,
      ProxyFails, Request, EmitRequest, Respond, ConsumeExpected, RespondUiTool,
      MarkBusy, OutcomeRetry, Outcome, InitializeTools, ToolSpawn, ToolLoop, AwaitWake,
      ToolsStale, ToolsDone, ToolsFail, BoundaryCancel, BoundaryContinue, CancelRead,
      CancelFlag, CancelClear, Terminate, TerminateReset, Clear, ClearWipe, ClearFails,
      OpenRead, OpenWrite

\* Initially every permit is free.
LEMMA OwnersInit == Init => NoDoubleOwner /\ NoLostPermit
  BY GateAssumption DEF Init, NoDoubleOwner, NoLostPermit

\* A step moves a permit from one owner to exactly one other.
LEMMA OwnersStep ==
  TypeOK /\ LocalsMatchPc /\ NoDoubleOwner /\ NoLostPermit /\ [Next]_vars
    => NoDoubleOwner' /\ NoLostPermit'
<1> USE GateAssumption, SessType
    DEF sessionVars, flagVars, gateVars, Go, Goto, Done, Update, UpdatePcs
<1> SUFFICES ASSUME TypeOK, LocalsMatchPc, NoDoubleOwner, NoLostPermit, [Next]_vars
             PROVE  NoDoubleOwner' /\ NoLostPermit'
  OBVIOUS
<1>0. CASE UNCHANGED vars
  BY <1>0, OwnersUnchanged DEF vars, taskVars, permitVars
<1>n. ASSUME NEW t \in Tasks, Neutral(t) PROVE NoDoubleOwner' /\ NoLostPermit'
  BY <1>n, NeutralKeepsPermits, OwnersUnchanged
<1>1. ASSUME NEW t \in Tasks, UpdateGate(t) PROVE NoDoubleOwner' /\ NoLostPermit'
  <2>1. NoDoubleOwner'
    BY <1>1 DEF UpdateGate, TypeOK, LocalsMatchPc, NoDoubleOwner
  <2>2. Moves(t)
    BY <1>1 DEF UpdateGate, TypeOK, LocalsMatchPc, Moves
  <2> QED BY <2>1, <2>2, MovesLoseNothing
<1>2. ASSUME NEW t \in Tasks, UpdateLock(t) PROVE NoDoubleOwner' /\ NoLostPermit'
  <2>1. NoDoubleOwner'
    BY <1>2 DEF UpdateLock, Dropped, TypeOK, LocalsMatchPc, NoDoubleOwner
  <2>2. Moves(t)
    BY <1>2 DEF UpdateLock, Dropped, TypeOK, LocalsMatchPc, Moves
  <2> QED BY <2>1, <2>2, MovesLoseNothing
<1>3. ASSUME NEW t \in Tasks, UpdatePersistFails(t) PROVE NoDoubleOwner' /\ NoLostPermit'
  <2>1. NoDoubleOwner'
    BY <1>3 DEF UpdatePersistFails, Dropped, TypeOK, LocalsMatchPc, NoDoubleOwner
  <2>2. Moves(t)
    BY <1>3 DEF UpdatePersistFails, Dropped, TypeOK, LocalsMatchPc, Moves
  <2> QED BY <2>1, <2>2, MovesLoseNothing
<1>4. ASSUME NEW t \in Tasks, UpdateCommit(t) PROVE NoDoubleOwner' /\ NoLostPermit'
  <2>1. NoDoubleOwner'
    BY <1>4 DEF UpdateCommit, Dropped, TypeOK, LocalsMatchPc, NoDoubleOwner
  <2>2. Moves(t)
    BY <1>4 DEF UpdateCommit, Dropped, TypeOK, LocalsMatchPc, Moves
  <2> QED BY <2>1, <2>2, MovesLoseNothing
<1>5. ASSUME NEW t \in Tasks, BackgroundAcquire(t) PROVE NoDoubleOwner' /\ NoLostPermit'
  <2>1. NoDoubleOwner'
    BY <1>5 DEF BackgroundAcquire, TypeOK, LocalsMatchPc, NoDoubleOwner
  <2>2. Moves(t)
    BY <1>5 DEF BackgroundAcquire, TypeOK, LocalsMatchPc, Moves
  <2> QED BY <2>1, <2>2, MovesLoseNothing
<1>6. ASSUME NEW t \in Tasks, BackgroundAbort(t) PROVE NoDoubleOwner' /\ NoLostPermit'
  <2>1. NoDoubleOwner'
    BY <1>6 DEF BackgroundAbort, TypeOK, LocalsMatchPc, NoDoubleOwner
  <2>2. Moves(t)
    BY <1>6 DEF BackgroundAbort, TypeOK, LocalsMatchPc, Moves
  <2> QED BY <2>1, <2>2, MovesLoseNothing
<1>7. ASSUME NEW t \in Tasks, BackgroundPlace(t) PROVE NoDoubleOwner' /\ NoLostPermit'
  <2>1. NoDoubleOwner'
    BY <1>7 DEF BackgroundPlace, Dropped, TypeOK, LocalsMatchPc, NoDoubleOwner
  <2>2. Moves(t)
    BY <1>7 DEF BackgroundPlace, Dropped, TypeOK, LocalsMatchPc, Moves
  <2> QED BY <2>1, <2>2, MovesLoseNothing
<1>8. ASSUME NEW t \in Tasks, BackgroundDrop(t) PROVE NoDoubleOwner' /\ NoLostPermit'
  <2>1. NoDoubleOwner'
    BY <1>8 DEF BackgroundDrop, Dropped, TypeOK, LocalsMatchPc, NoDoubleOwner
  <2>2. Moves(t)
    BY <1>8 DEF BackgroundDrop, Dropped, TypeOK, LocalsMatchPc, Moves
  <2> QED BY <2>1, <2>2, MovesLoseNothing
<1>9. ASSUME NEW t \in Tasks, AwaitTake(t) PROVE NoDoubleOwner' /\ NoLostPermit'
  <2>1. NoDoubleOwner'
    BY <1>9 DEF AwaitTake, TypeOK, LocalsMatchPc, NoDoubleOwner
  <2>2. Moves(t)
    BY <1>9 DEF AwaitTake, TypeOK, LocalsMatchPc, Moves
  <2> QED BY <2>1, <2>2, MovesLoseNothing
<1>10. ASSUME NEW t \in Tasks, AwaitSuspend(t) PROVE NoDoubleOwner' /\ NoLostPermit'
  <2>1. NoDoubleOwner'
    BY <1>10 DEF AwaitSuspend, TypeOK, LocalsMatchPc, NoDoubleOwner
  <2>2. Moves(t)
    BY <1>10 DEF AwaitSuspend, TypeOK, LocalsMatchPc, Moves
  <2> QED BY <2>1, <2>2, MovesLoseNothing
<1>11. ASSUME NEW t \in Tasks, AwaitResume(t) PROVE NoDoubleOwner' /\ NoLostPermit'
  <2>1. NoDoubleOwner'
    BY <1>11 DEF AwaitResume, TypeOK, LocalsMatchPc, NoDoubleOwner
  <2>2. Moves(t)
    BY <1>11 DEF AwaitResume, TypeOK, LocalsMatchPc, Moves
  <2> QED BY <2>1, <2>2, MovesLoseNothing
<1>12. ASSUME NEW t \in Tasks, AwaitRestore(t) PROVE NoDoubleOwner' /\ NoLostPermit'
  <2>1. NoDoubleOwner'
    BY <1>12 DEF AwaitRestore, Dropped, TypeOK, LocalsMatchPc, NoDoubleOwner
  <2>2. Moves(t)
    BY <1>12 DEF AwaitRestore, Dropped, TypeOK, LocalsMatchPc, Moves
  <2> QED BY <2>1, <2>2, MovesLoseNothing
<1> QED
  BY <1>n, <1>0, <1>1, <1>2, <1>3, <1>4, <1>5, <1>6, <1>7, <1>8, <1>9, <1>10, <1>11,
      <1>12 DEF Next, GateStep, LockStep, LocalStep, Neutral

\* Permits are conserved: in every interleaving of the operations, with
\* writes failing anywhere, no permit has two owners (no double release) and
\* none is lost (management.rs:286-355, concurrency.rs:64-127).
THEOREM Conserved == Spec => [](NoDoubleOwner /\ NoLostPermit)
<1> DEFINE Inv == TypeOK /\ LocalsMatchPc /\ NoDoubleOwner /\ NoLostPermit
<1>1. Init => Inv
  BY TypeInit, OwnersInit
<1>2. Inv /\ [Next]_vars => Inv'
  BY TypeStep, OwnersStep
<1> QED BY <1>1, <1>2, PTL DEF Spec

\* The half of it about double ownership: a permit dropped by one owner is
\* not one that another owner still relies on (concurrency.rs:39-62).
THEOREM SingleOwner == Spec => []NoDoubleOwner
<1>1. NoDoubleOwner /\ NoLostPermit => NoDoubleOwner
  OBVIOUS
<1> QED BY <1>1, Conserved, PTL
-----------------------------------------------------------------------------
(* Steps of one future and the locals of the others.                         *)

\* A step of t changes no local variable of another future.
Alone(t) ==
    \A u \in Tasks \ {t} : pc'[u] = pc[u] /\ target'[u] = target[u] /\ held'[u] = held[u]

\* A step of t that does not touch the transition of a session.
Outside(t) ==
    /\ Alone(t)
    /\ pc[t] \notin {"persist", "commit"} /\ pc'[t] \notin {"persist", "commit"}
    /\ UNCHANGED <<lock, transition>>

\* A step of t that neither waits for a suspended permit nor returns one.
Unseated(t) ==
    /\ Alone(t)
    /\ pc[t] # "suspend"
    /\ UNCHANGED freeSuspended

\* Every step except the four under transition_lock and the two that trade
\* permits of both semaphores is outside and unseated.
LEMMA PlainSteps ==
  ASSUME TypeOK, NEW t \in Tasks,
         \/ \E o \in Operations : Call(t, o)
         \/ UpdateEnter(t) \/ UpdateGate(t) \/ UpdateLockRefused(t) \/ StartDecide(t)
         \/ ResetExecution(t) \/ StartAppend(t) \/ BackgroundAcquire(t) \/ BackgroundAbort(t)
         \/ BackgroundPlace(t) \/ BackgroundDrop(t) \/ ProxyFails(t) \/ Request(t)
         \/ EmitRequest(t) \/ Respond(t) \/ ConsumeExpected(t) \/ RespondUiTool(t)
         \/ MarkBusy(t) \/ OutcomeRetry(t) \/ Outcome(t) \/ InitializeTools(t)
         \/ ToolSpawn(t) \/ ToolLoop(t) \/ AwaitTake(t) \/ AwaitWake(t)
         \/ AwaitRestore(t) \/ ToolsStale(t) \/ ToolsDone(t) \/ ToolsFail(t)
         \/ BoundaryCancel(t) \/ BoundaryContinue(t) \/ CancelRead(t) \/ CancelFlag(t)
         \/ CancelClear(t) \/ Terminate(t) \/ TerminateReset(t) \/ Clear(t)
         \/ ClearWipe(t) \/ ClearFails(t) \/ OpenRead(t) \/ OpenWrite(t)
  PROVE  Outside(t) /\ Unseated(t)
<1> USE GateAssumption DEF sessionVars, flagVars, gateVars, Go, Goto, Done, Update, AllOperations,
        TypeOK, Alone, Outside, Unseated
<1>1. CASE \E o \in Operations : Call(t, o)
  BY <1>1 DEF Call, Entry
<1>2. CASE UpdateEnter(t) \/ UpdateGate(t) \/ UpdateLockRefused(t) \/ StartDecide(t)
  BY <1>2 DEF UpdateEnter, UpdateGate, UpdateLockRefused, Return, AfterErr, NextOp,
      Starters, StartDecide
<1>3. CASE ResetExecution(t) \/ StartAppend(t) \/ BackgroundAcquire(t) \/ BackgroundAbort(t)
  BY <1>3 DEF ResetExecution, StartAppend, BackgroundAcquire, BackgroundAbort
<1>4. CASE BackgroundPlace(t) \/ BackgroundDrop(t) \/ ProxyFails(t) \/ Request(t)
  BY <1>4 DEF BackgroundPlace, BackgroundDrop, ProxyFails, Starters, Request,
      RequestFails
<1>5. CASE EmitRequest(t) \/ Respond(t) \/ ConsumeExpected(t) \/ RespondUiTool(t)
  BY <1>5 DEF EmitRequest, Respond, ConsumeExpected, RespondUiTool
<1>6. CASE MarkBusy(t) \/ OutcomeRetry(t) \/ Outcome(t) \/ InitializeTools(t)
  BY <1>6 DEF MarkBusy, OutcomeRetry, Outcome, InitializeTools
<1>7. CASE ToolSpawn(t) \/ ToolLoop(t) \/ AwaitTake(t) \/ AwaitWake(t)
  BY <1>7 DEF ToolSpawn, ToolLoop, AwaitTake, AwaitWake
<1>8. CASE AwaitRestore(t) \/ ToolsStale(t) \/ ToolsDone(t) \/ ToolsFail(t)
  BY <1>8 DEF AwaitRestore, ToolsStale, ToolsDone, ToolsFail
<1>9. CASE BoundaryCancel(t) \/ BoundaryContinue(t) \/ CancelRead(t) \/ CancelFlag(t)
  BY <1>9 DEF BoundaryCancel, BoundaryContinue, CancelRead, CancelFlag
<1>10. CASE CancelClear(t) \/ Terminate(t) \/ TerminateReset(t) \/ Clear(t)
  BY <1>10 DEF CancelClear, Terminate, TerminateReset, Clear
<1>11. CASE ClearWipe(t) \/ ClearFails(t) \/ OpenRead(t) \/ OpenWrite(t)
  BY <1>11 DEF ClearWipe, ClearFails, OpenRead, OpenWrite
<1> QED
  BY <1>1, <1>2, <1>3, <1>4, <1>5, <1>6, <1>7, <1>8, <1>9, <1>10, <1>11

\* A step outside keeps every announcement.
LEMMA OutsideKeeps ==
  ASSUME TypeOK, TransitionAnnounced, NEW t \in Tasks, Outside(t)
  PROVE  TransitionAnnounced'
  BY GateAssumption DEF TypeOK, TransitionAnnounced, Outside, Alone

\* Initially no session is in transition.
LEMMA AnnouncedInit == Init => TransitionAnnounced
  BY GateAssumption DEF Init, TransitionAnnounced

\* Every step keeps lock, announcement and await points together.
LEMMA AnnouncedStep ==
  TypeOK /\ TransitionAnnounced /\ [Next]_vars => TransitionAnnounced'
<1> USE GateAssumption, SessType DEF sessionVars, flagVars, gateVars, Go, Goto, Done, Update
<1> SUFFICES ASSUME TypeOK, TransitionAnnounced, [Next]_vars PROVE TransitionAnnounced'
  OBVIOUS
<1>0. CASE UNCHANGED vars
  BY <1>0 DEF vars, taskVars, TransitionAnnounced
<1>1. ASSUME NEW t \in Tasks, UpdateLock(t) PROVE TransitionAnnounced'
  BY <1>1 DEF UpdateLock, TypeOK, TransitionAnnounced
<1>2. ASSUME NEW t \in Tasks, UpdatePersist(t) PROVE TransitionAnnounced'
  BY <1>2 DEF UpdatePersist, TypeOK, TransitionAnnounced
<1>3. ASSUME NEW t \in Tasks, UpdatePersistFails(t) PROVE TransitionAnnounced'
  BY <1>3 DEF UpdatePersistFails, Return, AfterErr, NextOp, Starters, TypeOK,
      TransitionAnnounced
<1>4. ASSUME NEW t \in Tasks, UpdateCommit(t) PROVE TransitionAnnounced'
  BY <1>4 DEF UpdateCommit, Return, AfterOk, NextOp, Starters, TypeOK,
      TransitionAnnounced
<1>5. ASSUME NEW t \in Tasks, AwaitSuspend(t) \/ AwaitResume(t) PROVE TransitionAnnounced'
  <2>1. Outside(t)
    BY <1>5 DEF AwaitSuspend, AwaitResume, Outside, Alone, TypeOK
  <2> QED BY <2>1, OutsideKeeps
<1> QED
  BY <1>0, <1>1, <1>2, <1>3, <1>4, <1>5, PlainSteps, OutsideKeeps
     DEF Next, GateStep, LockStep, LocalStep

\* Whoever finds status_transition empty finds the session in no transition,
\* and a published target is the one the holder of transition_lock will commit
\* or abandon (management.rs:260-357): start_workflow and inject_messages may
\* rely on what they read.
THEOREM Announced == Spec => []TransitionAnnounced
<1> DEFINE Inv == TypeOK /\ LocalsMatchPc /\ TransitionAnnounced
<1>1. Init => Inv
  BY TypeInit, AnnouncedInit
<1>2. Inv /\ [Next]_vars => Inv'
  BY TypeStep, AnnouncedStep
<1> QED BY <1>1, <1>2, PTL DEF Spec
-----------------------------------------------------------------------------
(* The wedged gate.                                                          *)

\* With every active permit owned by a wait none is free.
LEMMA WedgedMeansFull ==
  ASSUME TypeOK, NoDoubleOwner, Wedged
  PROVE  freeActive = {}
  BY DEF TypeOK, NoDoubleOwner, Wedged

\* A step that moves no suspended permit leaves a wedge as it is.
LEMMA UnseatedKeepsWedge ==
  ASSUME TypeOK, Wedged, NEW t \in Tasks, Unseated(t)
  PROVE  Wedged'
<1>1. ASSUME NEW p \in ActivePermits
      PROVE  \E u \in Tasks : pc'[u] = "suspend" /\ held'[u] = p
  <2>1. PICK u \in Tasks : pc[u] = "suspend" /\ held[u] = p
    BY DEF Wedged
  <2>2. u # t
    BY <2>1 DEF Unseated
  <2> QED BY <2>1, <2>2 DEF Unseated, Alone
<1> QED BY <1>1 DEF Wedged, Unseated

\* No step leaves a wedged state.
LEMMA WedgeStep ==
  TypeOK /\ NoDoubleOwner /\ [Next]_vars => (Wedged => Wedged')
<1> USE DEF sessionVars, flagVars, gateVars, Go, Goto, Done, Update
<1> SUFFICES ASSUME TypeOK, NoDoubleOwner, Wedged, [Next]_vars PROVE Wedged'
  OBVIOUS
<1>0. CASE UNCHANGED vars
  BY <1>0 DEF vars, gateVars, taskVars, Wedged
<1>1. ASSUME NEW t \in Tasks, AwaitSuspend(t) \/ AwaitResume(t) PROVE FALSE
  BY <1>1, WedgedMeansFull DEF AwaitSuspend, AwaitResume, Wedged
<1>2. ASSUME NEW t \in Tasks, UpdateLock(t) \/ UpdatePersist(t) \/ UpdatePersistFails(t) \/ UpdateCommit(t)
      PROVE  Wedged'
  <2>1. Unseated(t)
    BY <1>2 DEF UpdateLock, UpdatePersist, UpdatePersistFails, Return, AfterErr, NextOp,
        Starters, UpdateCommit, AfterOk, Unseated, Alone, TypeOK
  <2> QED BY <2>1, UnseatedKeepsWedge
<1> QED
  BY <1>0, <1>1, <1>2, PlainSteps, UnseatedKeepsWedge DEF Next, GateStep, LockStep, LocalStep

\* For any capacity of the two semaphores: once every active permit belongs to
\* a checkSession wait that needs a suspended permit and none is free, no
\* cancel, terminate, /clear, timeout or failing write ever frees the gate
\* (concurrency.rs:117-127, 64-73).
THEOREM WedgeForever == Spec => WedgeIsForever
<1> DEFINE Inv == TypeOK /\ LocalsMatchPc /\ NoDoubleOwner /\ NoLostPermit
<1>1. Init => Inv
  BY TypeInit, OwnersInit
<1>2. Inv /\ [Next]_vars => Inv'
  BY TypeStep, OwnersStep
<1>3. Inv /\ [Next]_vars => [Wedged => Wedged']_vars
  BY WedgeStep
<1> QED BY <1>1, <1>2, <1>3, PTL DEF Spec, WedgeIsForever

\* For any capacity of the two semaphores: the gate is wedged only when at
\* least as many checkSession waits are under way as both semaphores have
\* permits together, so fewer concurrent waits can never block it
\* (concurrency.rs:117-127, 64-73).
THEOREM WedgeCrowd == Spec => []WedgeNeedsCrowd
<1> DEFINE Inv == TypeOK /\ LocalsMatchPc /\ NoDoubleOwner /\ NoLostPermit
<1>1. Init => Inv
  BY TypeInit, OwnersInit
<1>2. Inv /\ [Next]_vars => Inv'
  BY TypeStep, OwnersStep
<1>3. Inv => WedgeNeedsCrowd
  <2> SUFFICES ASSUME Inv, Wedged
               PROVE  Cardinality(Waiters) >= Cardinality(ActivePermits) + Cardinality(SuspendedPermits)
    BY DEF WedgeNeedsCrowd
  <2> DEFINE A == {t \in Tasks : pc[t] = "suspend"}
             B == {t \in Tasks : pc[t] \in {"waiting", "resume"}}
             f == [t \in A |-> held[t]]
             g == [t \in B |-> seat[t]]
  <2>1. Waiters = A \cup B /\ A \cap B = {}
    BY DEF Waiters
  <2>2. IsFiniteSet(A) /\ IsFiniteSet(B)
    <3>1. A \in SUBSET Tasks /\ B \in SUBSET Tasks
      OBVIOUS
    <3> QED BY <3>1, FiniteTasks, FS_Subset
  <2>3. f \in Surjection(A, ActivePermits)
    <3>1. \A t \in A : held[t] \in ActivePermits
      BY DEF TypeOK, LocalsMatchPc
    <3>2. \A p \in ActivePermits : \E t \in A : held[t] = p
      BY DEF Wedged
    <3> QED BY <3>1, <3>2 DEF Surjection
  <2>4. g \in Surjection(B, SuspendedPermits)
    <3>1. \A t \in B : seat[t] \in SuspendedPermits
      BY DEF TypeOK, LocalsMatchPc
    <3>2. ASSUME NEW q \in SuspendedPermits PROVE \E t \in B : seat[t] = q
      <4>1. PICK t \in Tasks : seat[t] = q
        BY DEF Wedged, NoLostPermit
      <4>2. q # NoPermit
        BY GateAssumption
      <4>3. t \in B
        BY <4>1, <4>2 DEF LocalsMatchPc
      <4> QED BY <4>1, <4>3
    <3> QED BY <3>1, <3>2 DEF Surjection
  <2> HIDE DEF A, B, f, g
  <2>5. Cardinality(ActivePermits) <= Cardinality(A) /\ IsFiniteSet(ActivePermits)
    BY <2>2, <2>3, FS_Surjection
  <2>6. Cardinality(SuspendedPermits) <= Cardinality(B) /\ IsFiniteSet(SuspendedPermits)
    BY <2>2, <2>4, FS_Surjection
  <2>7. Cardinality(A \cup B) = Cardinality(A) + Cardinality(B) - Cardinality(A \cap B)
    BY <2>2, FS_Union
  <2>8. Cardinality(A \cap B) = 0
    BY <2>1, FS_EmptySet
  <2>9. /\ Cardinality(A) \in Nat /\ Cardinality(B) \in Nat
        /\ Cardinality(ActivePermits) \in Nat /\ Cardinality(SuspendedPermits) \in Nat
    BY <2>2, <2>5, <2>6, FS_CardinalityType
  <2> QED BY <2>1, <2>5, <2>6, <2>7, <2>8, <2>9
<1> QED BY <1>1, <1>2, <1>3, PTL DEF Spec
-----------------------------------------------------------------------------
(* Memory and table, without resume_session of a live session.               *)

NoOpen == \A t \in Tasks : pc[t] \notin {"openRead", "openWrite"}

\* A write that is durable but not committed is the holder's target.
CommitDurable == \A t \in Tasks : pc[t] = "commit" => db[Sess(t)] = target[t]

TableInv == NoOpen /\ CommitDurable /\ MemoryMatchesDb

\* Only the steps under transition_lock write a status.
LEMMA StatusSteps ==
  ASSUME "open" \notin Operations, TypeOK, NEW t \in Tasks,
         \/ \E o \in Operations : Call(t, o)
         \/ UpdateEnter(t) \/ UpdateGate(t) \/ UpdateLockRefused(t) \/ StartDecide(t)
         \/ ResetExecution(t) \/ StartAppend(t) \/ BackgroundAcquire(t) \/ BackgroundAbort(t)
         \/ BackgroundPlace(t) \/ BackgroundDrop(t) \/ ProxyFails(t) \/ Request(t)
         \/ EmitRequest(t) \/ Respond(t) \/ ConsumeExpected(t) \/ RespondUiTool(t)
         \/ MarkBusy(t) \/ OutcomeRetry(t) \/ Outcome(t) \/ InitializeTools(t)
         \/ ToolSpawn(t) \/ ToolLoop(t) \/ AwaitTake(t) \/ AwaitWake(t)
         \/ AwaitRestore(t) \/ ToolsStale(t) \/ ToolsDone(t) \/ ToolsFail(t)
         \/ BoundaryCancel(t) \/ BoundaryContinue(t) \/ CancelRead(t) \/ CancelFlag(t)
         \/ CancelClear(t) \/ Terminate(t) \/ TerminateReset(t) \/ Clear(t)
         \/ ClearWipe(t) \/ ClearFails(t) \/ AwaitSuspend(t) \/ AwaitResume(t)
  PROVE  UNCHANGED <<status, db>> /\ pc'[t] \notin {"openRead", "openWrite"}
<1> USE GateAssumption DEF sessionVars, Go, Goto, Done, Update, AllOperations, TypeOK
<1>1. CASE \E o \in Operations : Call(t, o)
  BY <1>1 DEF Call, Entry
<1>2. CASE UpdateEnter(t) \/ UpdateGate(t) \/ UpdateLockRefused(t) \/ StartDecide(t)
  BY <1>2 DEF UpdateEnter, UpdateGate, UpdateLockRefused, Return, AfterErr, NextOp,
      Starters, StartDecide
<1>3. CASE ResetExecution(t) \/ StartAppend(t) \/ BackgroundAcquire(t) \/ BackgroundAbort(t)
  BY <1>3 DEF ResetExecution, StartAppend, BackgroundAcquire, BackgroundAbort
<1>4. CASE BackgroundPlace(t) \/ BackgroundDrop(t) \/ ProxyFails(t) \/ Request(t)
  BY <1>4 DEF BackgroundPlace, BackgroundDrop, ProxyFails, Starters, Request,
      RequestFails
<1>5. CASE EmitRequest(t) \/ Respond(t) \/ ConsumeExpected(t) \/ RespondUiTool(t)
  BY <1>5 DEF EmitRequest, Respond, ConsumeExpected, RespondUiTool
<1>6. CASE MarkBusy(t) \/ OutcomeRetry(t) \/ Outcome(t) \/ InitializeTools(t)
  BY <1>6 DEF MarkBusy, OutcomeRetry, Outcome, InitializeTools
<1>7. CASE ToolSpawn(t) \/ ToolLoop(t) \/ AwaitTake(t) \/ AwaitWake(t)
  BY <1>7 DEF ToolSpawn, ToolLoop, AwaitTake, AwaitWake
<1>8. CASE AwaitRestore(t) \/ ToolsStale(t) \/ ToolsDone(t) \/ ToolsFail(t)
  BY <1>8 DEF AwaitRestore, ToolsStale, ToolsDone, ToolsFail
<1>9. CASE BoundaryCancel(t) \/ BoundaryContinue(t) \/ CancelRead(t) \/ CancelFlag(t)
  BY <1>9 DEF BoundaryCancel, BoundaryContinue, CancelRead, CancelFlag
<1>10. CASE CancelClear(t) \/ Terminate(t) \/ TerminateReset(t) \/ Clear(t)
  BY <1>10 DEF CancelClear, Terminate, TerminateReset, Clear
<1>11. CASE ClearWipe(t) \/ ClearFails(t) \/ AwaitSuspend(t) \/ AwaitResume(t)
  BY <1>11 DEF ClearWipe, ClearFails, AwaitSuspend, AwaitResume
<1> QED
  BY <1>1, <1>2, <1>3, <1>4, <1>5, <1>6, <1>7, <1>8, <1>9, <1>10, <1>11

\* A step that writes no status and stays outside transition_lock.
LEMMA OutsideKeepsTable ==
  ASSUME TypeOK, TransitionAnnounced, TableInv, NEW t \in Tasks, Outside(t),
         UNCHANGED <<status, db>>, pc'[t] \notin {"openRead", "openWrite"}
  PROVE  TableInv'
<1>1. NoOpen' /\ CommitDurable'
  BY DEF Outside, Alone, TableInv, NoOpen, CommitDurable
<1>2. MemoryMatchesDb'
  <2> SUFFICES ASSUME NEW s \in Sessions, status[s] # db[s]
               PROVE  lock'[s] # NoTask /\ pc'[lock'[s]] = "commit" /\ db'[s] = target'[lock'[s]]
    BY DEF MemoryMatchesDb
  <2>1. lock[s] # NoTask /\ pc[lock[s]] = "commit" /\ db[s] = target[lock[s]]
    BY DEF TableInv, MemoryMatchesDb
  <2>2. lock[s] \in Tasks \ {t}
    BY <2>1 DEF TypeOK, Outside
  <2> QED BY <2>1, <2>2 DEF Outside, Alone
<1> QED BY <1>1, <1>2 DEF TableInv

\* Every step keeps memory and table together.
LEMMA TableStep ==
  ASSUME "open" \notin Operations
  PROVE  TypeOK /\ TransitionAnnounced /\ TableInv /\ [Next]_vars => TableInv'
<1> USE GateAssumption, SessType DEF sessionVars, flagVars, gateVars, Go, Goto, Done, Update
<1> SUFFICES ASSUME TypeOK, TransitionAnnounced, TableInv, [Next]_vars PROVE TableInv'
  OBVIOUS
<1>0. CASE UNCHANGED vars
  BY <1>0 DEF vars, taskVars, TableInv, NoOpen, CommitDurable, MemoryMatchesDb
<1>1. ASSUME NEW t \in Tasks, UpdateLock(t) PROVE TableInv'
  <2>1. NoOpen'
    BY <1>1 DEF UpdateLock, TypeOK, TableInv, NoOpen
  <2>2. CommitDurable'
    BY <1>1 DEF UpdateLock, TypeOK, TransitionAnnounced, TableInv, CommitDurable
  <2>3. MemoryMatchesDb'
    BY <1>1 DEF UpdateLock, TypeOK, TransitionAnnounced, TableInv, CommitDurable,
        MemoryMatchesDb
  <2> QED BY <2>1, <2>2, <2>3 DEF TableInv
<1>2. ASSUME NEW t \in Tasks, UpdatePersist(t) PROVE TableInv'
  <2>1. NoOpen'
    BY <1>2 DEF UpdatePersist, TypeOK, TableInv, NoOpen
  <2>2. CommitDurable'
    BY <1>2 DEF UpdatePersist, TypeOK, TransitionAnnounced, TableInv, CommitDurable
  <2>3. MemoryMatchesDb'
    BY <1>2 DEF UpdatePersist, TypeOK, TransitionAnnounced, TableInv, CommitDurable,
        MemoryMatchesDb
  <2> QED BY <2>1, <2>2, <2>3 DEF TableInv
<1>3. ASSUME NEW t \in Tasks, UpdatePersistFails(t) PROVE TableInv'
  <2>1. NoOpen'
    BY <1>3 DEF UpdatePersistFails, Return, AfterErr, NextOp, Starters, TypeOK,
        TableInv, NoOpen
  <2>2. CommitDurable'
    BY <1>3 DEF UpdatePersistFails, Return, AfterErr, NextOp, Starters, TypeOK,
        TransitionAnnounced, TableInv, CommitDurable
  <2>3. MemoryMatchesDb'
    BY <1>3 DEF UpdatePersistFails, Return, AfterErr, NextOp, Starters, TypeOK,
        TransitionAnnounced, TableInv, CommitDurable, MemoryMatchesDb
  <2> QED BY <2>1, <2>2, <2>3 DEF TableInv
<1>4. ASSUME NEW t \in Tasks, UpdateCommit(t) PROVE TableInv'
  <2>1. NoOpen'
    BY <1>4 DEF UpdateCommit, Return, AfterOk, NextOp, Starters, TypeOK, TableInv,
        NoOpen
  <2>2. CommitDurable'
    BY <1>4 DEF UpdateCommit, Return, AfterOk, NextOp, Starters, TypeOK,
        TransitionAnnounced, TableInv, CommitDurable
  <2>3. MemoryMatchesDb'
    BY <1>4 DEF UpdateCommit, Return, AfterOk, NextOp, Starters, TypeOK,
        TransitionAnnounced, TableInv, CommitDurable, MemoryMatchesDb
  <2> QED BY <2>1, <2>2, <2>3 DEF TableInv
<1>5. ASSUME NEW t \in Tasks, AwaitSuspend(t) \/ AwaitResume(t) PROVE TableInv'
  <2>1. Outside(t)
    BY <1>5 DEF AwaitSuspend, AwaitResume, Outside, Alone, TypeOK
  <2> QED BY <1>5, <2>1, StatusSteps, OutsideKeepsTable
<1>6. ASSUME NEW t \in Tasks, OpenRead(t) \/ OpenWrite(t) PROVE FALSE
  BY <1>6 DEF OpenRead, OpenWrite, TableInv, NoOpen
<1> QED
  BY <1>0, <1>1, <1>2, <1>3, <1>4, <1>5, <1>6, PlainSteps, StatusSteps, OutsideKeepsTable
     DEF Next, GateStep, LockStep, LocalStep

\* As long as nobody re-opens a live session, the status in memory and the
\* status column agree outside the window between a write and its commit,
\* whatever writes fail (management.rs:327-355).
THEOREM Table == ASSUME "open" \notin Operations PROVE Spec => []MemoryMatchesDb
<1> DEFINE Inv == TypeOK /\ LocalsMatchPc /\ TransitionAnnounced /\ TableInv
<1>1. Init => TableInv
  BY DEF Init, TableInv, NoOpen, CommitDurable, MemoryMatchesDb
<1>2. Init => Inv
  BY <1>1, TypeInit, AnnouncedInit
<1>3. Inv /\ [Next]_vars => Inv'
  BY TypeStep, AnnouncedStep, TableStep
<1>4. Inv => MemoryMatchesDb
  BY DEF TableInv
<1> QED BY <1>2, <1>3, <1>4, PTL DEF Spec
-----------------------------------------------------------------------------
(* SessionGate implements PermitPool.  Most operations only shed permits:    *)
(* what their future and their session own afterwards they owned before, and *)
(* the rest is free.  That no permit has two owners (NoDoubleOwner) makes     *)
(* "the rest" exact.                                                         *)

\* The permits a step of t can reach through active_permit and its locals.
Mine(t) == {permit[Sess(t)], held[t], released[t]}

\* A step of t touches no permit of another future or session.
Apart(t) ==
    /\ \A u \in Tasks \ {t} : held'[u] = held[u] /\ released'[u] = released[u] /\ seat'[u] = seat[u]
    /\ \A s \in Sessions \ {Sess(t)} : permit'[s] = permit[s]

\* A step of t keeps some of its permits and drops the others.
Sheds(t) ==
    /\ Apart(t) /\ Moves(t)
    /\ seat'[t] = seat[t] /\ freeSuspended' = freeSuspended
    /\ Mine(t)' \subseteq Mine(t) \cup {NoPermit}
    /\ freeActive \subseteq freeActive' /\ freeActive' \subseteq freeActive \cup Mine(t)

\* What belongs to the other sessions stays theirs.
LEMMA OthersKeep ==
  ASSUME NEW t \in Tasks, Apart(t), NEW s \in Sessions, s # Sess(t)
  PROVE  Owned(s)' = Owned(s)
<1>1. \A u \in Tasks : Sess(u) = s => u \in Tasks \ {t}
  OBVIOUS
<1> QED BY <1>1 DEF Apart, Owned

\* The function `owned` changes at Sess(t) only.
LEMMA OwnedAt ==
  ASSUME NEW t \in Tasks, Apart(t), NEW E, Owned(Sess(t))' = E
  PROVE  [s \in Sessions |-> Owned(s)]' = [[s \in Sessions |-> Owned(s)] EXCEPT ![Sess(t)] = E]
  BY OthersKeep, SessType

\* Shedding permits is a Give of the pool.
LEMMA ShedIsGive ==
  ASSUME TypeOK, TypeOK', NoDoubleOwner, NoDoubleOwner', NEW t \in Tasks, Sheds(t)
  PROVE  Pool!Give(Sess(t))
<1> DEFINE s == Sess(t)  given == freeActive' \ freeActive
<1>1. s \in Sessions
  BY SessType
<1>2. given \subseteq Owned(s) \cap ActivePermits
  BY <1>1, GateAssumption DEF Sheds, Mine, TypeOK, Owned
<1>3. (freeActive \cup freeSuspended)' = (freeActive \cup freeSuspended) \cup given
  BY DEF Sheds
<1>4. Owned(s)' \subseteq Owned(s)
  <2> SUFFICES ASSUME NEW p \in ActivePermits \cup SuspendedPermits, p \in Owned(s)' PROVE p \in Owned(s)
    BY DEF Owned
  <2>1. p # NoPermit
    BY GateAssumption
  <2>2. CASE p \in Mine(t)' \cup {seat'[t]}
    BY <2>1, <2>2, <1>1 DEF Sheds, Mine, Owned
  <2>3. CASE \E u \in Tasks \ {t} : Sess(u) = s /\ p \in {held'[u], released'[u], seat'[u]}
    BY <2>3 DEF Sheds, Apart, Owned
  <2> QED BY <2>2, <2>3 DEF Owned, Mine
<1>5. Owned(s)' \cap given = {}
  <2> SUFFICES ASSUME NEW p \in ActivePermits, p \in freeActive', p \in Owned(s)' PROVE FALSE
    BY DEF TypeOK
  <2>1. permit'[s] # p
    BY <1>1 DEF NoDoubleOwner
  <2>2. \A u \in Tasks : held'[u] # p /\ released'[u] # p
    BY DEF NoDoubleOwner
  <2>3. \A u \in Tasks : seat'[u] # p
    BY TwoSemaphores, GateAssumption DEF TypeOK
  <2> QED BY <2>1, <2>2, <2>3 DEF Owned
<1>6. Owned(s) \ given \subseteq Owned(s)'
  <2> SUFFICES ASSUME NEW p \in ActivePermits \cup SuspendedPermits, p \in Owned(s), p \notin given
               PROVE  p \in Owned(s)'
    BY DEF Owned
  <2>1. CASE \E u \in Tasks \ {t} : Sess(u) = s /\ p \in {held[u], released[u], seat[u]}
    BY <2>1 DEF Sheds, Apart, Owned
  <2>2. CASE p = seat[t]
    BY <2>2 DEF Sheds, Owned
  <2>3. CASE p \in Mine(t)
    <3>1. p \in ActivePermits
      BY <2>3, <1>1, GateAssumption, TwoSemaphores DEF Mine, TypeOK
    <3>2. p \notin freeActive'
      BY <2>3, <1>1 DEF Mine, NoDoubleOwner
    <3> QED BY <2>3, <3>1, <3>2, <1>1 DEF Mine, Sheds, Moves, Owned
  <2> QED BY <2>1, <2>2, <2>3 DEF Owned, Mine
<1>7. Owned(s)' = Owned(s) \ given
  BY <1>4, <1>5, <1>6
<1>8. [r \in Sessions |-> Owned(r)]' = [[r \in Sessions |-> Owned(r)] EXCEPT ![s] = Owned(s) \ given]
  BY <1>7, OwnedAt DEF Sheds
<1>9. given \in SUBSET ([r \in Sessions |-> Owned(r)][s] \cap ActivePermits)
  BY <1>1, <1>2
<1> QED BY <1>1, <1>3, <1>8, <1>9 DEF Pool!Give

\* Acquiring an active permit into a local that owns none is a Take.
LEMMA AcquireIsTake ==
  ASSUME TypeOK, NEW t \in Tasks, NEW p \in freeActive, Apart(t),
         held[t] = NoPermit, held'[t] = p, released'[t] = released[t], seat'[t] = seat[t],
         permit' = permit, freeActive' = freeActive \ {p}, freeSuspended' = freeSuspended
  PROVE  Pool!Take(Sess(t))
<1> DEFINE s == Sess(t)
<1>1. s \in Sessions /\ p \in ActivePermits /\ p \notin freeSuspended /\ p # NoPermit
  BY SessType, TwoSemaphores, GateAssumption DEF TypeOK
<1>2. Owned(s)' = Owned(s) \cup {p}
  <2>1. \A q \in ActivePermits \cup SuspendedPermits : q \in Owned(s)' <=> q \in Owned(s) \cup {p}
    BY <1>1, GateAssumption DEF Owned, Apart
  <2> QED BY <2>1, <1>1 DEF Owned
<1>3. [r \in Sessions |-> Owned(r)]' = [[r \in Sessions |-> Owned(r)] EXCEPT ![s] = Owned(s) \cup {p}]
  BY <1>2, OwnedAt
<1>4. (freeActive \cup freeSuspended)' = (freeActive \cup freeSuspended) \ {p}
  BY <1>1
<1> QED BY <1>1, <1>3, <1>4 DEF Pool!Take

\* suspend_agent is a Suspend.
LEMMA SuspendIsSuspend ==
  ASSUME TypeOK, LocalsMatchPc, NoDoubleOwner, NEW t \in Tasks, AwaitSuspend(t)
  PROVE  Pool!Suspend(Sess(t))
<1> DEFINE s == Sess(t)  a == held[t]
<1>1. PICK q \in freeSuspended : freeSuspended' = freeSuspended \ {q} /\ seat' = [seat EXCEPT ![t] = q]
  BY DEF AwaitSuspend
<1>2. /\ s \in Sessions /\ a \in ActivePermits /\ q \in SuspendedPermits /\ a # q
      /\ a # NoPermit /\ q # NoPermit /\ a \notin freeActive /\ a \notin freeSuspended /\ q \notin freeActive
  BY SessType, TwoSemaphores, GateAssumption, <1>1 DEF TypeOK, LocalsMatchPc, AwaitSuspend, NoDoubleOwner
<1>3. /\ seat[t] = NoPermit /\ seat'[t] = q /\ held'[t] = NoPermit
      /\ permit' = permit /\ released' = released
      /\ \A u \in Tasks \ {t} : held'[u] = held[u] /\ seat'[u] = seat[u]
  BY <1>1 DEF AwaitSuspend, sessionVars, TypeOK, LocalsMatchPc
<1>4. Apart(t)
  BY <1>3 DEF Apart
<1>5. /\ permit[s] # a /\ \A u \in Tasks \ {t} : held[u] # a
      /\ \A u \in Tasks : released[u] # a /\ seat[u] # a
  BY <1>2, TwoSemaphores, GateAssumption DEF NoDoubleOwner, TypeOK
<1>6. Owned(s)' = (Owned(s) \ {a}) \cup {q}
  <2>1. \A p \in ActivePermits \cup SuspendedPermits : p \in Owned(s)' <=> p \in (Owned(s) \ {a}) \cup {q}
    BY <1>2, <1>3, <1>5, GateAssumption DEF Owned
  <2> QED BY <2>1, <1>2 DEF Owned
<1>7. [r \in Sessions |-> Owned(r)]' = [[r \in Sessions |-> Owned(r)] EXCEPT ![s] = (Owned(s) \ {a}) \cup {q}]
  BY <1>4, <1>6, OwnedAt
<1>8. (freeActive \cup freeSuspended)' = ((freeActive \cup freeSuspended) \ {q}) \cup {a}
  BY <1>1, <1>2 DEF AwaitSuspend
<1>9. a \in Owned(s) /\ q \in freeActive \cup freeSuspended
  BY <1>1, <1>2 DEF Owned
<1>10. Pool!Exchange(s, a, q)
  BY <1>2, <1>7, <1>8, <1>9 DEF Pool!Exchange
<1> QED BY <1>2, <1>10 DEF Pool!Suspend

\* SuspendedAgentGuard::resume is a Resume.
LEMMA ResumeIsResume ==
  ASSUME TypeOK, LocalsMatchPc, NoDoubleOwner, NEW t \in Tasks, AwaitResume(t)
  PROVE  Pool!Resume(Sess(t))
<1> DEFINE s == Sess(t)  q == seat[t]
<1>1. PICK a \in freeActive : freeActive' = freeActive \ {a} /\ held' = [held EXCEPT ![t] = a]
  BY DEF AwaitResume
<1>2. /\ s \in Sessions /\ a \in ActivePermits /\ q \in SuspendedPermits /\ a # q
      /\ a # NoPermit /\ q # NoPermit /\ q \notin freeActive /\ q \notin freeSuspended /\ a \notin freeSuspended
  BY SessType, TwoSemaphores, GateAssumption, <1>1 DEF TypeOK, LocalsMatchPc, AwaitResume, NoDoubleOwner
<1>3. /\ held[t] = NoPermit /\ held'[t] = a /\ seat'[t] = NoPermit
      /\ permit' = permit /\ released' = released
      /\ \A u \in Tasks \ {t} : held'[u] = held[u] /\ seat'[u] = seat[u]
  BY <1>1 DEF AwaitResume, sessionVars, TypeOK, LocalsMatchPc
<1>4. Apart(t)
  BY <1>3 DEF Apart
<1>5. /\ permit[s] # q /\ \A u \in Tasks \ {t} : seat[u] # q
      /\ \A u \in Tasks : released[u] # q /\ held[u] # q
  BY <1>2, TwoSemaphores, GateAssumption DEF NoDoubleOwner, TypeOK
<1>6. Owned(s)' = (Owned(s) \ {q}) \cup {a}
  <2>1. \A p \in ActivePermits \cup SuspendedPermits : p \in Owned(s)' <=> p \in (Owned(s) \ {q}) \cup {a}
    BY <1>2, <1>3, <1>5, GateAssumption DEF Owned
  <2> QED BY <2>1, <1>2 DEF Owned
<1>7. [r \in Sessions |-> Owned(r)]' = [[r \in Sessions |-> Owned(r)] EXCEPT ![s] = (Owned(s) \ {q}) \cup {a}]
  BY <1>4, <1>6, OwnedAt
<1>8. (freeActive \cup freeSuspended)' = ((freeActive \cup freeSuspended) \ {a}) \cup {q}
  BY <1>1, <1>2 DEF AwaitResume
<1>9. q \in Owned(s) /\ a \in freeActive \cup freeSuspended
  BY <1>1, <1>2 DEF Owned
<1>10. Pool!Exchange(s, q, a)
  BY <1>2, <1>7, <1>8, <1>9 DEF Pool!Exchange
<1> QED BY <1>2, <1>10 DEF Pool!Resume
-----------------------------------------------------------------------------
poolVars == <<freeActive \cup freeSuspended, [s \in Sessions |-> Owned(s)]>>

\* A step that moves no permit is a stutter of the pool.
LEMMA NoMoveNoChange ==
  ASSUME UNCHANGED permitVars
  PROVE  UNCHANGED poolVars
  BY DEF permitVars, poolVars, Owned

\* Every step of the gate is a step of the pool, or a stutter.
LEMMA PoolStep ==
  ASSUME TypeOK, TypeOK', LocalsMatchPc, NoDoubleOwner, NoDoubleOwner', [Next]_vars
  PROVE  [Pool!PoolNext]_poolVars
<1> USE GateAssumption, SessType
    DEF sessionVars, flagVars, gateVars, Go, Goto, Done, Update, UpdatePcs
<1>0. CASE UNCHANGED vars
  BY <1>0, NoMoveNoChange DEF vars, taskVars, permitVars
<1>n. ASSUME NEW t \in Tasks, Neutral(t) PROVE UNCHANGED poolVars
  BY <1>n, NeutralKeepsPermits, NoMoveNoChange
<1>1. ASSUME NEW t \in Tasks, UpdateGate(t) \/ BackgroundAcquire(t) PROVE Pool!Take(Sess(t))
  <2>1. PICK p \in freeActive : freeActive' = freeActive \ {p} /\ held' = [held EXCEPT ![t] = p]
    BY <1>1 DEF UpdateGate, BackgroundAcquire
  <2>2. held[t] = NoPermit /\ held'[t] = p
    BY <1>1, <2>1 DEF UpdateGate, BackgroundAcquire, LocalsMatchPc, TypeOK
  <2>3. permit' = permit /\ released' = released /\ seat' = seat /\ freeSuspended' = freeSuspended
    BY <1>1 DEF UpdateGate, BackgroundAcquire
  <2>4. Apart(t)
    BY <2>1, <2>3 DEF Apart, TypeOK
  <2> QED BY <2>1, <2>2, <2>3, <2>4, AcquireIsTake
<1>2. ASSUME NEW t \in Tasks, UpdateLock(t) PROVE Pool!Give(Sess(t))
  <2>1. Moves(t)
    BY <1>2 DEF UpdateLock, Dropped, TypeOK, LocalsMatchPc, Moves
  <2>2. Apart(t) /\ seat' = seat /\ freeSuspended' = freeSuspended
    BY <1>2 DEF UpdateLock, TypeOK, Apart
  <2>3. /\ Mine(t)' \subseteq Mine(t) \cup {NoPermit}
        /\ freeActive \subseteq freeActive' /\ freeActive' \subseteq freeActive \cup Mine(t)
    BY <1>2 DEF UpdateLock, Dropped, TypeOK, Mine
  <2> QED BY <2>1, <2>2, <2>3, ShedIsGive DEF Sheds
<1>3. ASSUME NEW t \in Tasks, UpdatePersistFails(t) PROVE Pool!Give(Sess(t))
  <2>1. Moves(t)
    BY <1>3 DEF UpdatePersistFails, Dropped, TypeOK, LocalsMatchPc, Moves
  <2>2. Apart(t) /\ seat' = seat /\ freeSuspended' = freeSuspended
    BY <1>3 DEF UpdatePersistFails, TypeOK, Apart
  <2>3. /\ Mine(t)' \subseteq Mine(t) \cup {NoPermit}
        /\ freeActive \subseteq freeActive' /\ freeActive' \subseteq freeActive \cup Mine(t)
    BY <1>3 DEF UpdatePersistFails, Dropped, TypeOK, Mine
  <2> QED BY <2>1, <2>2, <2>3, ShedIsGive DEF Sheds
<1>4. ASSUME NEW t \in Tasks, UpdateCommit(t) PROVE Pool!Give(Sess(t))
  <2>1. Moves(t)
    BY <1>4 DEF UpdateCommit, Dropped, TypeOK, LocalsMatchPc, Moves
  <2>2. Apart(t) /\ seat' = seat /\ freeSuspended' = freeSuspended
    BY <1>4 DEF UpdateCommit, TypeOK, Apart
  <2>3. /\ Mine(t)' \subseteq Mine(t) \cup {NoPermit}
        /\ freeActive \subseteq freeActive' /\ freeActive' \subseteq freeActive \cup Mine(t)
    BY <1>4 DEF UpdateCommit, Dropped, TypeOK, Mine
  <2> QED BY <2>1, <2>2, <2>3, ShedIsGive DEF Sheds
<1>5. ASSUME NEW t \in Tasks, BackgroundAbort(t) PROVE Pool!Give(Sess(t))
  <2>1. Moves(t)
    BY <1>5 DEF BackgroundAbort, TypeOK, LocalsMatchPc, Moves
  <2>2. Apart(t) /\ seat' = seat /\ freeSuspended' = freeSuspended
    BY <1>5 DEF BackgroundAbort, TypeOK, Apart
  <2>3. /\ Mine(t)' \subseteq Mine(t) \cup {NoPermit}
        /\ freeActive \subseteq freeActive' /\ freeActive' \subseteq freeActive \cup Mine(t)
    BY <1>5 DEF BackgroundAbort, TypeOK, Mine
  <2> QED BY <2>1, <2>2, <2>3, ShedIsGive DEF Sheds
<1>6. ASSUME NEW t \in Tasks, BackgroundPlace(t) PROVE Pool!Give(Sess(t))
  <2>1. Moves(t)
    BY <1>6 DEF BackgroundPlace, Dropped, TypeOK, LocalsMatchPc, Moves
  <2>2. Apart(t) /\ seat' = seat /\ freeSuspended' = freeSuspended
    BY <1>6 DEF BackgroundPlace, TypeOK, Apart
  <2>3. /\ Mine(t)' \subseteq Mine(t) \cup {NoPermit}
        /\ freeActive \subseteq freeActive' /\ freeActive' \subseteq freeActive \cup Mine(t)
    BY <1>6 DEF BackgroundPlace, Dropped, TypeOK, Mine
  <2> QED BY <2>1, <2>2, <2>3, ShedIsGive DEF Sheds
<1>7. ASSUME NEW t \in Tasks, BackgroundDrop(t) PROVE Pool!Give(Sess(t))
  <2>1. Moves(t)
    BY <1>7 DEF BackgroundDrop, Dropped, TypeOK, LocalsMatchPc, Moves
  <2>2. Apart(t) /\ seat' = seat /\ freeSuspended' = freeSuspended
    BY <1>7 DEF BackgroundDrop, TypeOK, Apart
  <2>3. /\ Mine(t)' \subseteq Mine(t) \cup {NoPermit}
        /\ freeActive \subseteq freeActive' /\ freeActive' \subseteq freeActive \cup Mine(t)
    BY <1>7 DEF BackgroundDrop, Dropped, TypeOK, Mine
  <2> QED BY <2>1, <2>2, <2>3, ShedIsGive DEF Sheds
<1>8. ASSUME NEW t \in Tasks, AwaitRestore(t) PROVE Pool!Give(Sess(t))
  <2>1. Moves(t)
    BY <1>8 DEF AwaitRestore, Dropped, TypeOK, LocalsMatchPc, Moves
  <2>2. Apart(t) /\ seat' = seat /\ freeSuspended' = freeSuspended
    BY <1>8 DEF AwaitRestore, TypeOK, Apart
  <2>3. /\ Mine(t)' \subseteq Mine(t) \cup {NoPermit}
        /\ freeActive \subseteq freeActive' /\ freeActive' \subseteq freeActive \cup Mine(t)
    BY <1>8 DEF AwaitRestore, Dropped, TypeOK, Mine
  <2> QED BY <2>1, <2>2, <2>3, ShedIsGive DEF Sheds
<1>9. ASSUME NEW t \in Tasks, AwaitTake(t) PROVE UNCHANGED poolVars
  <2>1. UNCHANGED <<freeActive, freeSuspended, released, seat>>
    BY <1>9 DEF AwaitTake
  <2>2. held[t] = NoPermit /\ held'[t] = permit[Sess(t)] /\ permit'[Sess(t)] = NoPermit
    BY <1>9 DEF AwaitTake, LocalsMatchPc, TypeOK
  <2>3. Apart(t)
    BY <1>9 DEF AwaitTake, Apart, TypeOK
  <2>4. Owned(Sess(t))' = Owned(Sess(t))
    <3>1. \A p \in ActivePermits \cup SuspendedPermits : p \in Owned(Sess(t))' <=> p \in Owned(Sess(t))
      BY <2>1, <2>2, <2>3 DEF Owned, Apart
    <3> QED BY <3>1 DEF Owned
  <2>5. [s \in Sessions |-> Owned(s)]' = [s \in Sessions |-> Owned(s)]
    BY <2>3, <2>4, OthersKeep
  <2> QED BY <2>1, <2>5 DEF poolVars
<1>10. \A t \in Tasks : Sess(t) \in Sessions
  OBVIOUS
<1>11. ASSUME NEW t \in Tasks, Pool!Take(Sess(t)) \/ Pool!Give(Sess(t)) \/ Pool!Suspend(Sess(t)) \/ Pool!Resume(Sess(t))
      PROVE  Pool!PoolNext
  BY <1>10, <1>11 DEF Pool!PoolNext
<1>12. ASSUME NEW t \in Tasks, GateStep(t) PROVE Pool!PoolNext
  BY <1>12, <1>1, <1>11, SuspendIsSuspend, ResumeIsResume DEF GateStep
<1>13. ASSUME NEW t \in Tasks, LockStep(t) PROVE [Pool!PoolNext]_poolVars
  BY <1>13, <1>2, <1>11, <1>n DEF LockStep, Neutral
<1>14. ASSUME NEW t \in Tasks, LocalStep(t) PROVE [Pool!PoolNext]_poolVars
  BY <1>14, <1>3, <1>4, <1>5, <1>6, <1>7, <1>8, <1>9, <1>11, <1>n DEF LocalStep, Neutral
<1> QED
  BY <1>0, <1>n, <1>12, <1>13, <1>14 DEF Next, Neutral

\* At first every permit is free.
LEMMA PoolStarts == Init => Pool!PoolInit
  BY GateAssumption DEF Init, Pool!PoolInit, Pool!Permits, Owned

\* The gate as the operations use it implements the pool of permits: whatever
\* is called, cancelled or fails, a permit reaches another session only by
\* being free first, and a wait of checkSession exchanges its active permit
\* for a suspended one and back in single steps (concurrency.rs:64-127,
\* management.rs:286-355).
THEOREM Implements == Spec => ImplementsPool
<1> DEFINE Inv == TypeOK /\ LocalsMatchPc /\ NoDoubleOwner /\ NoLostPermit
<1>1. Init => Inv
  BY TypeInit, OwnersInit
<1>2. Inv /\ [Next]_vars => Inv'
  BY TypeStep, OwnersStep
<1>3. Inv /\ Inv' /\ [Next]_vars => [Pool!PoolNext]_poolVars
  BY PoolStep
<1> QED
  BY <1>1, <1>2, <1>3, PoolStarts, PTL DEF Spec, ImplementsPool, Pool!PoolSpec, poolVars
=============================================================================
