--------------------------- MODULE SessionWaitProofs ---------------------------
(***************************************************************************)
(* What SessionWait promises for every forest of sessions: the values its   *)
(* variables take, and that waits never form a cycle.                       *)
(***************************************************************************)
EXTENDS SessionWait, TLAPS

Pcs == {"none", "check", "fetch", "fetched", "sleep"}
Waits == [pc : Pcs, target : Sessions \cup {NoParent}, seen : Statuses]
StopPcs == {"none", "signal", "signalPause", "notify", "notifyPause", "pause", "idle", "announce", "reset"}

\* A notification changes the await points of waits and nothing else: who waits
\* goes on to wait for the same session (session_bus.rs, notify_waiters).
LEMMA NotifiedKeeps ==
    ASSUME NEW x, wait \in [Sessions -> Waits]
    PROVE  /\ Notified(x) \in [Sessions -> Waits]
           /\ \A s \in Sessions : /\ Notified(x)[s].target = wait[s].target
                                  /\ Notified(x)[s].pc # "none" <=> wait[s].pc # "none"
BY DEF Notified, Waits, Pcs

\* Types of the variables without the cross-references.
Shapes ==
    /\ row \in [Sessions -> Statuses] /\ flag \in [Sessions -> BOOLEAN]
    /\ wait \in [Sessions -> Waits]
    /\ update \in [Sessions -> {"none", "work", "stop"}]
    /\ stop \in [Sessions -> StopPcs]
WaitsBelow == \A s \in Sessions : wait[s].pc # "none" =>
    wait[s].target \in Sessions /\ Descends(wait[s].target, s)
StopsAnnounce == \A s \in Sessions : update[s] = "stop" <=> stop[s] = "announce"

LEMMA TypeParts == TypeOK <=> Shapes /\ WaitsBelow /\ StopsAnnounce
BY DEF TypeOK, Shapes, WaitsBelow, StopsAnnounce, Waits, Pcs, StopPcs

\* Type correctness: every value is of its type, every wait is for a delegated
\* session, and a stop operation waits for the announcement of its own status.
THEOREM Typed == Spec => []TypeOK
<1>. USE WaitAssumption DEF Statuses, Resting
<1>1. Init => TypeOK
    <2>. SUFFICES ASSUME Init PROVE Shapes /\ WaitsBelow /\ StopsAnnounce
        BY TypeParts
    <2>. QED BY DEF Init, Shapes, WaitsBelow, StopsAnnounce, Waits, Pcs, StopPcs, NoWait
<1>2. TypeOK /\ [Next]_vars => TypeOK'
    <2>. SUFFICES ASSUME Shapes, WaitsBelow, StopsAnnounce, [Next]_vars
                  PROVE  Shapes' /\ WaitsBelow' /\ StopsAnnounce'
        BY TypeParts DEF TypeOK, Shapes, WaitsBelow, StopsAnnounce, Waits, Pcs, StopPcs, Descends, Lineage
    <2>. USE DEF Shapes, WaitsBelow, StopsAnnounce, StopPcs
    <2>1. ASSUME NEW s \in Sessions, NEW c \in Sessions, BeginWait(s, c)
          PROVE  Shapes' /\ WaitsBelow' /\ StopsAnnounce'
        BY <2>1 DEF BeginWait, Waits, Pcs
    <2>2. ASSUME NEW s \in Sessions, WaitStep(s) \/ TimeOut(s)
          PROVE  Shapes' /\ WaitsBelow' /\ StopsAnnounce'
        <3>1. CASE CheckFlag(s) \/ Heartbeat(s)
            BY <3>1 DEF CheckFlag, Heartbeat, NoWait, Waits, Pcs
        <3>2. ASSUME NEW w \in Waits, wait' = [wait EXCEPT ![s] = w],
                     w.pc # "none" => wait[s].pc # "none" /\ w.target = wait[s].target,
                     UNCHANGED <<row, flag, update, stop>>
              PROVE  Shapes' /\ WaitsBelow' /\ StopsAnnounce'
            BY <3>2
        <3>3. CASE Fetch(s)
            <4>1. row[wait[s].target] \in Statuses
                BY <3>3 DEF Fetch
            <4>. DEFINE read == [pc |-> "fetched", target |-> wait[s].target,
                                 seen |-> row[wait[s].target]]
            <4>2. read \in Waits /\ wait[s].pc # "none" /\ read.target = wait[s].target
                <5>1. wait[s] \in Waits /\ wait[s].pc = "fetch"
                    BY <3>3 DEF Fetch
                <5>. QED BY <4>1, <5>1 DEF Waits, Pcs
            <4>3. NoWait \in Waits /\ NoWait.pc = "none"
                BY DEF NoWait, Waits, Pcs
            <4>4. CASE wait' = [wait EXCEPT ![s] = read]
                BY <3>2, <3>3, <4>2, <4>4 DEF Fetch
            <4>5. CASE wait' = [wait EXCEPT ![s] = NoWait]
                BY <3>2, <3>3, <4>3, <4>5 DEF Fetch
            <4>. QED BY <3>3, <4>4, <4>5 DEF Fetch
        <3>4. CASE Sleep(s) \/ TimeOut(s)
            BY <3>2, <3>4 DEF Sleep, TimeOut, NoWait, Waits, Pcs
        <3>. QED BY <2>2, <3>1, <3>3, <3>4 DEF WaitStep
    <2>3. ASSUME NEW s \in Sessions, NEW status \in Resting, Finish(s, status)
          PROVE  Shapes' /\ WaitsBelow' /\ StopsAnnounce'
        BY <2>3 DEF Finish, Persist
    <2>4. ASSUME NEW s \in Sessions, Start(s)
          PROVE  Shapes' /\ WaitsBelow' /\ StopsAnnounce'
        BY <2>4 DEF Start, Persist
    <2>5. ASSUME NEW s \in Sessions, Announce(s) \/ CancelNotify(s)
          PROVE  Shapes' /\ WaitsBelow' /\ StopsAnnounce'
        <3>1. WaitsBelow' /\ wait' \in [Sessions -> Waits]
            BY <2>5, NotifiedKeeps DEF Announce, CancelNotify
        <3>. QED BY <2>5, <3>1 DEF Announce, CancelNotify
    <2>6. ASSUME NEW s \in Sessions,
                 CancelRead(s) \/ CancelSignal(s) \/ Terminate(s) \/ StopReset(s)
          PROVE  Shapes' /\ WaitsBelow' /\ StopsAnnounce'
        BY <2>6 DEF CancelRead, CancelSignal, Terminate, StopReset
    <2>7. ASSUME NEW s \in Sessions, StopRest(s)
          PROVE  Shapes' /\ WaitsBelow' /\ StopsAnnounce'
        BY <2>7 DEF StopRest, Persist
    <2>8. CASE UNCHANGED vars
        BY <2>8 DEF vars
    <2>. QED BY <2>1, <2>2, <2>3, <2>4, <2>5, <2>6, <2>7, <2>8 DEF Next
<1>. QED BY <1>1, <1>2, PTL DEF Spec

\* The lineage goes up step by step: above c stands its parent and who stands
\* above its parent (handlers.rs:222-240).
LEMMA LineageSteps ==
    ASSUME NEW c \in Sessions
    PROVE  /\ Lineage(c) \in SUBSET Sessions
           /\ Above(c, Lineage(c))
<1>. USE WaitAssumption
<1>1. Lineage(c) \in SUBSET Sessions
    BY DEF Lineage
<1>2. ASSUME NEW x \in Lineage(c) \cup {c} PROVE Parent[x] \in Lineage(c) \cup {NoParent}
    <2>1. x \in Sessions
        BY <1>1, <1>2
    <2>2. CASE Parent[x] = NoParent
        BY <2>2
    <2>3. CASE Parent[x] \in Sessions
        BY <1>2, <2>1, <2>3 DEF Lineage, Above
    <2>. QED BY <2>1, <2>2, <2>3
<1>. QED BY <1>1, <1>2 DEF Above

\* Who stands above the parent of x stands above x.
LEMMA LineageOfParent ==
    ASSUME NEW x \in Sessions, Parent[x] \in Sessions, NEW s \in Lineage(Parent[x])
    PROVE  s \in Lineage(x)
<1>. USE WaitAssumption
<1>1. s \in Sessions
    BY DEF Lineage
<1>2. ASSUME NEW up \in SUBSET Sessions, Above(x, up) PROVE s \in up
    <2>1. Parent[x] \in up
        BY <1>2 DEF Above
    <2>2. Above(Parent[x], up)
        BY <1>2, <2>1 DEF Above
    <2>. QED BY <2>2 DEF Lineage
<1>. QED BY <1>1, <1>2 DEF Lineage

\* Between s and a session c below it there is a child of s.
LEMMA ChildOnTheWay ==
    ASSUME NEW c \in Sessions, NEW s \in Lineage(c)
    PROVE  \E x \in Lineage(c) \cup {c} : Parent[x] = s
<1>. SUFFICES ASSUME \A x \in Lineage(c) \cup {c} : Parent[x] # s PROVE FALSE
    OBVIOUS
<1>. DEFINE up == Lineage(c) \ {s}
<1>1. up \in SUBSET Sessions
    BY LineageSteps
<1>2. Above(c, up)
    BY LineageSteps DEF Above
<1>3. s \in up
    BY <1>1, <1>2 DEF Lineage
<1>. QED BY <1>3

\* Nobody waits for a session that waits for it, around any corner and in any
\* forest of sessions.
THEOREM NoCycle == Spec => []NoWaitCycle
<1>1. TypeOK => NoWaitCycle
    <2>. SUFFICES ASSUME TypeOK, NEW group \in (SUBSET Sessions) \ {{}},
                         \A s \in group : wait[s].pc # "none" /\ wait[s].target \in group
                  PROVE  FALSE
        BY DEF NoWaitCycle
    <2>. USE WaitAssumption
    <2>1. \A s \in group : wait[s].target \in group /\ s \in Lineage(wait[s].target)
        BY DEF TypeOK, Descends
    <2>. DEFINE between == {x \in Sessions : \E g, h \in group : g \in Lineage(x) /\ x \in Lineage(h)}
                chain == group \cup between
    <2>2. ASSUME NEW s \in chain PROVE \E x \in chain : Parent[x] = s
        <3>1. PICK h \in group : s \in Lineage(h)
            BY <2>1, <2>2
        <3>2. PICK x \in Lineage(h) \cup {h} : Parent[x] = s
            BY <3>1, ChildOnTheWay
        <3>3. CASE x = h
            BY <3>2, <3>3
        <3>4. CASE x \in Lineage(h)
            <4>1. x \in Sessions /\ h \in Sessions /\ s \in Sessions
                BY <3>1, <3>4 DEF Lineage
            <4>2. \E g \in group : g \in Lineage(x)
                <5>1. CASE s \in group
                    <6>1. Parent[x] \in Lineage(x) \cup {NoParent}
                        BY <4>1, LineageSteps DEF Above
                    <6>. QED BY <3>2, <4>1, <5>1, <6>1
                <5>2. CASE s \in between
                    BY <3>2, <4>1, <5>2, LineageOfParent
                <5>. QED BY <2>2, <5>1, <5>2
            <4>. QED BY <3>2, <3>4, <4>1, <4>2
        <3>. QED BY <3>2, <3>3, <3>4
    <2>3. chain \in (SUBSET Sessions) \ {{}}
        OBVIOUS
    <2>. QED BY <2>2, <2>3, Youngest
<1>. QED BY <1>1, Typed, PTL
================================================================================
