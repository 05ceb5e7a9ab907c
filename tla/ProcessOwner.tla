---------------------------- MODULE ProcessOwner ---------------------------
(***************************************************************************)
(* Which process runs the Telegram delivery queue: a PostgreSQL session    *)
(* advisory lock, checked by every slot before it dispatches and by a      *)
(* monitor loop.  core/telegram_delivery_queue_owner.py and the            *)
(* supervisor in core/telegram_delivery_queue_worker.py.  The definitions  *)
(* of the specification carry the component's name, so that another module *)
(* of the queue can be extended beside it.                                 *)
(***************************************************************************)
EXTENDS Naturals, FiniteSets

CONSTANTS
    Processes,      \* containers that may run the queue
    Slots,          \* dispatch slots of a process
    MaxFaults       \* bound: lost sessions, crashes and failed tasks

NoOne == "no one"

ASSUME OwnerConstants ==
    /\ NoOne \notin Processes
    /\ IsFiniteSet(Processes) /\ IsFiniteSet(Slots)
    /\ MaxFaults \in Nat

VARIABLES
    phase,      \* phase[p]
    session,    \* session[p]: the connection that took the lock, as PostgreSQL sees it
    holder,     \* the process whose session holds the advisory lock
    slot,       \* slot[p][s]
    late,       \* late[p]: calls p began after its session had lost the lock
    faults

ownerVars == <<phase, session, holder, slot, late, faults>>

OwnerTypeOK ==
    /\ phase \in [Processes -> {"down", "starting", "running", "stopping"}]
    /\ session \in [Processes -> {"none", "open", "ended", "orphaned"}]
    /\ holder \in Processes \cup {NoOne}
    /\ \A p \in Processes : (holder = p) = (session[p] \in {"open", "orphaned"})
    /\ slot \in [Processes -> [Slots -> {"idle", "checked", "calling"}]]
    /\ late \in [Processes -> Nat]
    /\ faults \in 0..MaxFaults

OwnerInit ==
    /\ phase = [p \in Processes |-> "down"]
    /\ session = [p \in Processes |-> "none"]
    /\ holder = NoOne
    /\ slot = [p \in Processes |-> [s \in Slots |-> "idle"]]
    /\ late = [p \in Processes |-> 0]
    /\ faults = 0

-----------------------------------------------------------------------------
Free(p) == IF holder = p THEN NoOne ELSE holder

\* The container (re)starts a process that exited
Boot(p) ==
    /\ phase[p] = "down"
    /\ phase' = [phase EXCEPT ![p] = "starting"]
    /\ UNCHANGED <<session, holder, slot, late, faults>>

\* acquire_telegram_delivery_queue_owner: pg_try_advisory_lock, or the process exits
Acquire(p) ==
    /\ phase[p] = "starting"
    /\ IF holder = NoOne
       THEN /\ holder' = p
            /\ session' = [session EXCEPT ![p] = "open"]
            /\ phase' = [phase EXCEPT ![p] = "running"]
            /\ late' = [late EXCEPT ![p] = 0]
       ELSE /\ phase' = [phase EXCEPT ![p] = "down"]
            /\ UNCHANGED <<session, holder, late>>
    /\ UNCHANGED <<slot, faults>>

\* Mutant: a slot relies on the lock its process took at the start
TakenOnce(p) == phase[p] = "running"

\* assert_held: the same backend, still with the lock
Held(p) == session[p] = "open"

\* A slot with a claimed job checks the owner before provider entry
Check(p, s) ==
    /\ phase[p] \in {"running", "stopping"}
    /\ slot[p][s] = "idle"
    /\ Held(p)
    /\ slot' = [slot EXCEPT ![p][s] = "checked"]
    /\ UNCHANGED <<phase, session, holder, late, faults>>

\* After the awaits of the marker, the provider call; the marker may refuse
BeginCall(p, s) ==
    /\ slot[p][s] = "checked"
    /\ \/ slot' = [slot EXCEPT ![p][s] = "idle"] /\ UNCHANGED late
       \/ /\ slot' = [slot EXCEPT ![p][s] = "calling"]
          /\ late' = [late EXCEPT ![p] = IF holder = p THEN @ ELSE @ + 1]
    /\ UNCHANGED <<phase, session, holder, faults>>

Answer(p, s) ==
    /\ slot[p][s] = "calling"
    /\ slot' = [slot EXCEPT ![p][s] = "idle"]
    /\ UNCHANGED <<phase, session, holder, late, faults>>

\* telegram_delivery_queue_owner_monitor_loop
Monitor(p) ==
    /\ phase[p] = "running"
    /\ session[p] # "open"
    /\ phase' = [phase EXCEPT ![p] = "stopping"]
    /\ UNCHANGED <<session, holder, slot, late, faults>>

\* Mutant: the connection goes back to the pool with its lock
StopKeepsLock(p) ==
    /\ phase[p] = "stopping"
    /\ phase' = [phase EXCEPT ![p] = "down"]
    /\ slot' = [slot EXCEPT ![p] = [s \in Slots |-> "idle"]]
    /\ UNCHANGED <<session, holder, late, faults>>

\* The supervisor's finally: all tasks cancelled, the lease closed
Stop(p) ==
    /\ phase[p] = "stopping"
    /\ phase' = [phase EXCEPT ![p] = "down"]
    /\ slot' = [slot EXCEPT ![p] = [s \in Slots |-> "idle"]]
    /\ holder' = IF session[p] = "open" THEN Free(p) ELSE holder
    /\ session' = [session EXCEPT ![p] = IF @ = "orphaned" THEN @ ELSE "none"]
    /\ UNCHANGED <<late, faults>>

Fault ==
    /\ faults < MaxFaults
    /\ faults' = faults + 1

\* PostgreSQL ends the session: the lock is free though the process goes on
SessionEnds(p) ==
    /\ Fault
    /\ session[p] = "open"
    /\ session' = [session EXCEPT ![p] = "ended"]
    /\ holder' = Free(p)
    /\ UNCHANGED <<phase, slot, late>>

\* A supervised task fails
TaskFails(p) ==
    /\ Fault
    /\ phase[p] = "running"
    /\ phase' = [phase EXCEPT ![p] = "stopping"]
    /\ UNCHANGED <<session, holder, slot, late>>

\* The process dies or its network does: PostgreSQL keeps the session for a while
Crash(p) ==
    /\ Fault
    /\ phase[p] \in {"running", "stopping"}
    /\ phase' = [phase EXCEPT ![p] = "down"]
    /\ slot' = [slot EXCEPT ![p] = [s \in Slots |-> "idle"]]
    /\ session' = [session EXCEPT ![p] = IF @ = "open" THEN "orphaned" ELSE @]
    /\ UNCHANGED <<holder, late>>

Reap(p) ==
    /\ session[p] = "orphaned"
    /\ session' = [session EXCEPT ![p] = "none"]
    /\ holder' = Free(p)
    /\ UNCHANGED <<phase, slot, late, faults>>

OwnerNext ==
    \E p \in Processes :
        \/ Boot(p) \/ Acquire(p) \/ Monitor(p) \/ Stop(p)
        \/ SessionEnds(p) \/ TaskFails(p) \/ Crash(p) \/ Reap(p)
        \/ \E s \in Slots : Check(p, s) \/ BeginCall(p, s) \/ Answer(p, s)

OwnerSpec == OwnerInit /\ [][OwnerNext]_ownerVars

\* Containers restart, the monitor and the supervisor run, TCP keepalives end
\* the sessions of dead processes
OwnerFairSpec ==
    /\ OwnerSpec
    /\ \A p \in Processes :
          /\ WF_ownerVars(Boot(p)) /\ WF_ownerVars(Acquire(p))
          /\ WF_ownerVars(Monitor(p)) /\ WF_ownerVars(Stop(p)) /\ WF_ownerVars(Reap(p))

-----------------------------------------------------------------------------
(* Properties.                                                             *)

\* A process that lost the lock begins at most one more call per slot, however
\* long its monitor takes (telegram_delivery_queue_worker.py:1391).
OverrunBounded == \A p \in Processes : late[p] <= Cardinality(Slots)

\* Whatever fails, some process comes to hold the lock and run the queue
\* (telegram_delivery_queue_owner.py:82, telegram_delivery_queue_worker.py:2395).
QueueServed == []<>(\E p \in Processes : phase[p] = "running" /\ holder = p)
=============================================================================
