------------------------------ MODULE PermitPool ------------------------------
(***************************************************************************)
(* What the concurrency gate (agent/concurrency.rs) promises, whatever the  *)
(* operations that use it do: every permit is free or owned by one session, *)
(* a permit goes from one session to another only by being free in between, *)
(* and a suspended permit is obtained, and given up, only in exchange for    *)
(* an active one and in the same step.  SessionGate implements it.           *)
(***************************************************************************)
CONSTANTS Sessions, ActivePermits, SuspendedPermits

VARIABLES
    free,   \* the permits nobody owns
    owned   \* [session -> the permits its futures and its entry own]

Permits == ActivePermits \cup SuspendedPermits

PoolInit ==
    /\ free = Permits
    /\ owned = [s \in Sessions |-> {}]

\* acquire_active_agent.
Take(s) == \E p \in free \cap ActivePermits :
    /\ free' = free \ {p}
    /\ owned' = [owned EXCEPT ![s] = @ \cup {p}]

\* Permits are dropped, several by one step of a future.
Give(s) == \E given \in SUBSET (owned[s] \cap ActivePermits) :
    /\ free' = free \cup given
    /\ owned' = [owned EXCEPT ![s] = @ \ given]

\* suspend_agent and SuspendedAgentGuard::resume: permit `out` for permit `in`.
Exchange(s, out, in) ==
    /\ out \in owned[s] /\ in \in free
    /\ free' = (free \ {in}) \cup {out}
    /\ owned' = [owned EXCEPT ![s] = (@ \ {out}) \cup {in}]

Suspend(s) == \E a \in ActivePermits, q \in SuspendedPermits : Exchange(s, a, q)
Resume(s)  == \E a \in ActivePermits, q \in SuspendedPermits : Exchange(s, q, a)

PoolNext == \E s \in Sessions : Take(s) \/ Give(s) \/ Suspend(s) \/ Resume(s)

PoolSpec == PoolInit /\ [][PoolNext]_<<free, owned>>
=============================================================================
