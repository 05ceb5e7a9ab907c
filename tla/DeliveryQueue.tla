---------------------------- MODULE DeliveryQueue ----------------------------
(***************************************************************************)
(* The durable Telegram delivery queue: worker slots claim job rows under  *)
(* a fenced lease, pass the freshness, limiter and dispatch gates, call    *)
(* Telegram, and persist its answer, while lease recovery, outcome replay, *)
(* reconciliation and an operator work on the same rows and the process    *)
(* may stop or crash at any point.  Each action is one database            *)
(* transaction or one stretch of event-loop code without an await.         *)
(***************************************************************************)
EXTENDS DeliveryJob

CONSTANTS
    Lane,        \* the bot whose lane a slot belongs to
    MaxRestarts  \* bound on shutdowns and crashes

ASSUME QueueConstants == Lane \in [Slots -> Bots] /\ MaxRestarts \in Nat

VARIABLES
    job,       \* telegram_delivery_jobs
    outcome,   \* telegram_delivery_provider_outcomes, by job and lease_token
    paused,    \* telegram_delivery_runtime_gates in state "blocked"
    slot,      \* the coroutine of each slot: where it is and what it holds
    barriers,  \* _provider_outcome_persistence_barriers
    recovery,  \* the lease recovery coroutine
    process,   \* "up" or "stopping" (tasks cancelled, draining)
    restarts,  \* shutdowns and crashes so far
    net,       \* requests on their way to Telegram, <<job, token>>
    accepted   \* how often Telegram carried a job out

durable == <<job, outcome, paused>>
volatile == <<slot, barriers, recovery, process, restarts>>
provider == <<net, accepted>>
vars == <<job, outcome, paused, slot, barriers, recovery, process, restarts,
          net, accepted>>

-----------------------------------------------------------------------------
(* State *)

BeforeDispatch == {"claimed", "checked", "fresh", "admitted", "final",
                   "entered", "marking"}

SlotStates ==
    [pc    : {"idle", "cycle"} \cup BeforeDispatch
             \cup {"calling", "answered", "applying"},
     job   : Jobs \cup {None},
     token : 0..MaxToken,
     fact  : Facts \cup {"none"},
     probe : BOOLEAN]

IdleSlot == [pc |-> "idle", job |-> None, token |-> 0, fact |-> "none",
             probe |-> FALSE]

OutcomeRows == [fact   : Facts \cup {"none"},
                worker : Slots \cup {None},
                apply  : {"none", "pending", "applied", "quarantined"}]

NoOutcome == [fact |-> "none", worker |-> None, apply |-> "none"]

TypeOK ==
    /\ job \in [Jobs -> JobRows]
    /\ outcome \in [Jobs -> [Tokens -> OutcomeRows]]
    /\ paused \subseteq Bots \cup {"gateway"}
    /\ slot \in [Slots -> SlotStates]
    /\ barriers \subseteq Jobs \X Tokens
    /\ recovery \in {"idle", "checked"}
    /\ process \in {"up", "stopping"}
    /\ restarts \in 0..MaxRestarts
    /\ net \subseteq Jobs \X Tokens
    /\ accepted \in [Jobs -> Nat]

\* A slot past its claim holds a job and the fence it was claimed with.
SlotsHoldJobs ==
    \A s \in Slots : slot[s].pc \notin {"idle", "cycle"}
                        => slot[s].job \in Jobs /\ slot[s].token \in Tokens

Init ==
    /\ job = [j \in Jobs |-> AbsentRow]
    /\ outcome = [j \in Jobs |-> [t \in Tokens |-> NoOutcome]]
    /\ paused = {}
    /\ slot = [s \in Slots |-> IdleSlot]
    /\ barriers = {}
    /\ recovery = "idle"
    /\ process = "up"
    /\ restarts = 0
    /\ net = {}
    /\ accepted = [j \in Jobs |-> 0]

-----------------------------------------------------------------------------
(* Helpers of the worker cycle *)

\* _role_provider_fact_blocked
RoleFactBlocked(bot) == \E b \in barriers : BotOf[b[1]] = bot

PendingOutcome(j) == \E t \in Tokens : outcome[j][t].apply = "pending"

GatePaused(j) == BotOf[j] \in paused \/ "gateway" \in paused

\* Slot s goes on to step pc, still holding its job.
GoTo(s, pc) == slot' = [slot EXCEPT ![s].pc = pc]
EndCycle(s) == slot' = [slot EXCEPT ![s] = IdleSlot]

SetJob(j, r) == job' = [job EXCEPT ![j] = r]

\* defer_unstarted / release_unstarted under the lease fence: a lease that
\* was lost or already dispatched is left alone.
DeferUnstarted(s) ==
    LET j == slot[s].job
        r == job[j]
    IN  SetJob(j, IF HoldsLease(r, s, slot[s].token) /\ ~r.started
                  THEN Deferred(r) ELSE r)

\* The fence of mark_telegram_delivery_dispatch_started.
MayMark(s) ==
    LET r == job[slot[s].job]
    IN  HoldsLease(r, s, slot[s].token) /\ r.lease = "live" /\ ~r.started

\* The fence of record_telegram_delivery_provider_outcome.
MayRecord(s) ==
    LET r == job[slot[s].job]
    IN  r.token = slot[s].token /\ r.started /\ r.worker \in {None, s}

-----------------------------------------------------------------------------
(* Feeders *)

\* enqueue_telegram_delivery_job: insert, or find the dedupe_key taken and
\* change nothing; eligible_at may still be ahead.
Enqueue(j) ==
    /\ job[j].state = "absent"
    /\ \E due \in BOOLEAN :
          SetJob(j, [AbsentRow EXCEPT !.state = "pending", !.due = due])
    /\ UNCHANGED <<outcome, paused, volatile, provider>>

-----------------------------------------------------------------------------
(* The worker cycle up to the provider call *)

BeginCycle(s) ==
    /\ process = "up" /\ slot[s].pc = "idle"
    /\ ~RoleFactBlocked(Lane[s])
    /\ GoTo(s, "cycle")
    /\ UNCHANGED <<durable, barriers, recovery, process, restarts, provider>>

Claimable(j, bot) ==
    /\ BotOf[j] = bot
    /\ job[j].state \in CLAIMABLE_DELIVERY_STATES
    /\ job[j].due /\ ~job[j].cooldown
    /\ ~DispatchBlocked(job, j)
    /\ ~GatePaused(j)

\* claim_next_telegram_delivery_job.  SKIP LOCKED makes the priority order
\* advisory, so any claimable row may be taken.  When the commit's answer is
\* lost the row stays leased with no slot behind it.
ClaimNext(s) ==
    /\ slot[s].pc = "cycle"
    /\ \E j \in Jobs :
          /\ Claimable(j, Lane[s])
          /\ job[j].token < MaxToken
          /\ SetJob(j, Leased(job[j], s))
          /\ \/ slot' = [slot EXCEPT ![s] = [IdleSlot EXCEPT
                              !.pc = "claimed", !.job = j,
                              !.token = job[j].token + 1]]
             \/ EndCycle(s)
    /\ UNCHANGED <<outcome, paused, barriers, recovery, process, restarts, provider>>

NothingToClaim(s) ==
    /\ slot[s].pc = "cycle"
    /\ \A j \in Jobs : Claimable(j, Lane[s]) => job[j].token = MaxToken
    /\ EndCycle(s)
    /\ UNCHANGED <<durable, barriers, recovery, process, restarts, provider>>

\* The barrier is looked at again once the claim has committed, ...
ProceedAfterClaim(s) ==
    /\ slot[s].pc = "claimed"
    /\ ~RoleFactBlocked(Lane[s])
    /\ GoTo(s, "checked")
    /\ UNCHANGED <<durable, barriers, recovery, process, restarts, provider>>

\* ... and again, without an await, at the entry to the dispatch.
EnterDispatch(s) ==
    /\ slot[s].pc = "final"
    /\ ~RoleFactBlocked(Lane[s])
    /\ GoTo(s, "entered")
    /\ UNCHANGED <<durable, barriers, recovery, process, restarts, provider>>

DeferForRetainedFact(s) ==
    /\ slot[s].pc \in {"claimed", "final"}
    /\ RoleFactBlocked(Lane[s])
    /\ DeferUnstarted(s)
    /\ EndCycle(s)
    /\ UNCHANGED <<outcome, paused, barriers, recovery, process, restarts, provider>>

\* apply_telegram_delivery_freshness_result, before and after admission.
CheckFreshness(s) ==
    LET j == slot[s].job
        r == job[j]
    IN  /\ slot[s].pc \in {"checked", "admitted"}
        /\ \E v \in Verdicts :
              IF v = "send"
              THEN /\ GoTo(s, IF slot[s].pc = "checked" THEN "fresh" ELSE "final")
                   /\ UNCHANGED job
              ELSE /\ SetJob(j, IF HoldsLease(r, s, slot[s].token)
                                THEN Refreshed(r, v) ELSE r)
                   /\ EndCycle(s)
        /\ UNCHANGED <<outcome, paused, barriers, recovery, process, restarts, provider>>

\* The Redis limiter admits the job, possibly as the bot's one probe after a
\* cooldown, or asks for a wait that returns the lease.
LimiterAdmits(s) ==
    /\ slot[s].pc = "fresh"
    /\ \E p \in BOOLEAN :
          /\ p => "rate_limited" \in Facts
          /\ slot' = [slot EXCEPT ![s].pc = "admitted", ![s].probe = p]
    /\ UNCHANGED <<durable, barriers, recovery, process, restarts, provider>>

\* Limiter wait, a blocker found by the dispatch gate, or business state that
\* changed before the marker: the unstarted lease goes back to the queue.
DeferDispatch(s) ==
    /\ slot[s].pc \in {"fresh", "entered"}
    /\ DeferUnstarted(s)
    /\ EndCycle(s)
    /\ UNCHANGED <<outcome, paused, barriers, recovery, process, restarts, provider>>

\* _release_after_predispatch_error: an exception, or cancellation when the
\* process is stopping, anywhere before the marker is known to be committed.
\* The release may fail as well and leave the lease to recovery.
PredispatchError(s) ==
    /\ slot[s].pc \in BeforeDispatch
    /\ DeferUnstarted(s) \/ UNCHANGED job
    /\ EndCycle(s)
    /\ UNCHANGED <<outcome, paused, barriers, recovery, process, restarts, provider>>

\* The marker is a SERIALIZABLE transaction: everything it reads, the gate
\* included, comes from the snapshot of its first statement.
ReadDispatchGate(s) ==
    /\ slot[s].pc = "entered"
    /\ MayMark(s)
    /\ ~GatePaused(slot[s].job)
    /\ ~DispatchBlocked(job, slot[s].job)
    /\ GoTo(s, "marking")
    /\ UNCHANGED <<durable, barriers, recovery, process, restarts, provider>>

\* The lease was lost, or ran out while the marker waited for its locks.
MarkStale(s) ==
    /\ slot[s].pc \in {"entered", "marking"}
    /\ ~MayMark(s)
    /\ EndCycle(s)
    /\ UNCHANGED <<durable, barriers, recovery, process, restarts, provider>>

\* Markers each of which reads what the other writes: two dispatches at one
\* destination, or two probes of one bot.  A probe and a plain send of its bot
\* at another destination conflict one way only, and have a serial order.
MutualConflict(s, x) ==
    LET j == slot[s].job
        k == slot[x].job
    IN  \/ DestOf[j] = DestOf[k]
        \/ BotOf[j] = BotOf[k] /\ slot[s].probe /\ slot[x].probe

\* Mutant: the marker runs without serializable isolation.
NoAbortedMarkers(s) == {}

\* Of markers in mutual conflict PostgreSQL lets the first commit and aborts
\* the others, which start over.  A marker it aborts without need reads the
\* gate again and is where it was, or has failed (PredispatchError).
AbortedMarkers(s) ==
    {x \in Slots \ {s} : slot[x].pc = "marking" /\ MutualConflict(s, x)}

\* The marker commits.  Its answer may be lost on the way back: the slot then
\* releases the lease in vain and calls nobody.
MarkDispatchStarted(s) ==
    LET j == slot[s].job
        marked == [job EXCEPT ![j].started = TRUE, ![j].probe = slot[s].probe]
        after(own) == [x \in Slots |->
                         IF x = s THEN own
                         ELSE IF x \in AbortedMarkers(s)
                         THEN [slot[x] EXCEPT !.pc = "entered"]
                         ELSE slot[x]]
    IN  /\ slot[s].pc = "marking"
        /\ MayMark(s)
        /\ job' = marked
        /\ \/ /\ slot' = after([slot[s] EXCEPT !.pc = "calling"])
              /\ net' = net \cup {<<j, slot[s].token>>}
           \/ /\ slot' = after(IdleSlot)
              /\ UNCHANGED net
        /\ UNCHANGED <<outcome, paused, barriers, recovery, process, restarts, accepted>>

-----------------------------------------------------------------------------
(* Telegram *)

\* The provider's answer reaches the slot, and the persistence barrier goes
\* up in the same stretch of code.  An answer that leaves the effect open
\* leaves the request on the wire.
ProviderAnswers(s) ==
    LET j == slot[s].job
        t == slot[s].token
    IN  /\ slot[s].pc = "calling"
        /\ \E f \in PossibleFacts(j) :
              /\ f \notin UncertainFacts => <<j, t>> \in net
              /\ net' = IF f \in UncertainFacts THEN net ELSE net \ {<<j, t>>}
              /\ accepted' = IF f \in AcceptedFacts
                             THEN [accepted EXCEPT ![j] = @ + 1] ELSE accepted
              /\ slot' = [slot EXCEPT ![s].pc = "answered", ![s].fact = f]
        /\ barriers' = barriers \cup {<<j, t>>}
        /\ UNCHANGED <<durable, recovery, process, restarts>>

\* A request whose answer nobody will see is carried out or lost.
RequestLands(c) ==
    /\ c \in net
    /\ net' = net \ {c}
    /\ \/ accepted' = [accepted EXCEPT ![c[1]] = @ + 1]
       \/ UNCHANGED accepted
    /\ UNCHANGED <<durable, volatile>>

-----------------------------------------------------------------------------
(* Persisting the answer *)

\* record_telegram_delivery_provider_outcome: one row per job and token, a
\* retry finds it.  The commit may succeed without the slot learning of it.
RecordProviderOutcome(s) ==
    LET j == slot[s].job
        t == slot[s].token
    IN  /\ slot[s].pc = "answered"
        /\ MayRecord(s)
        /\ outcome' = IF outcome[j][t] # NoOutcome THEN outcome
                      ELSE [outcome EXCEPT ![j][t] =
                              [fact |-> slot[s].fact, worker |-> s,
                               apply |-> "pending"]]
        /\ \/ /\ barriers' = barriers \ {<<j, t>>}
              /\ IF process = "up" THEN GoTo(s, "applying") ELSE EndCycle(s)
           \/ UNCHANGED <<slot, barriers>>
        /\ UNCHANGED <<job, paused, recovery, process, restarts, provider>>

\* The fence refuses the fact.  The error ends the lane's tasks (CancelSlot),
\* the activation loop catches it and starts the lane again; the barrier is
\* still installed.
RejectFact(s) ==
    /\ slot[s].pc = "answered"
    /\ ~MayRecord(s)
    /\ EndCycle(s)
    /\ UNCHANGED <<durable, barriers, recovery, process, restarts, provider>>

\* Mutants: only the normal fence, which a recovered row no longer passes, or
\* no check of the row's state.
MayApplyLeasedOnly(j, t) ==
    HoldsLease(job[j], outcome[j][t].worker, t) /\ job[j].started
MayApplyInAnyState(j, t) ==
    /\ job[j].token = t /\ job[j].started
    /\ job[j].worker \in {None, outcome[j][t].worker}

\* The fences of resolve_telegram_delivery_result for a recorded outcome.
MayApply(j, t) ==
    LET r == job[j]
    IN  /\ r.token = t /\ r.started
        /\ r.worker \in {None, outcome[j][t].worker}
        /\ r.state \in {"leased"} \cup UnresolvedDestinationStates

\* apply_telegram_delivery_provider_outcome: job row, runtime gate and
\* outcome row in one transaction.
ApplyProviderOutcome(j, t) ==
    LET fact == outcome[j][t].fact
    IN  IF MayApply(j, t)
        THEN /\ SetJob(j, Resolved(job, j, fact))
             /\ paused' = paused \cup PausedScope(j, fact)
             /\ outcome' = [outcome EXCEPT ![j][t].apply = "applied"]
        ELSE /\ outcome' = [outcome EXCEPT ![j][t].apply = "quarantined"]
             /\ UNCHANGED <<job, paused>>

\* The slot applies its own outcome, finds it already applied, or gives up
\* and leaves it to the replay loop.
ApplyInSlot(s) ==
    LET j == slot[s].job
        t == slot[s].token
    IN  /\ slot[s].pc = "applying"
        /\ \/ outcome[j][t].apply = "pending" /\ ApplyProviderOutcome(j, t)
           \/ UNCHANGED durable
        /\ EndCycle(s)
        /\ UNCHANGED <<barriers, recovery, process, restarts, provider>>

\* Mutant: replay serves rows that are still leased only.
ReplayLeasedOnly(j, t) ==
    /\ process = "up"
    /\ outcome[j][t].apply = "pending" /\ job[j].state = "leased"
    /\ ApplyProviderOutcome(j, t)
    /\ UNCHANGED <<volatile, provider>>

\* run_telegram_provider_outcome_replay_cycle, one row of its backlog.
Replay(j, t) ==
    /\ process = "up"
    /\ outcome[j][t].apply = "pending"
    /\ ApplyProviderOutcome(j, t)
    /\ UNCHANGED <<volatile, provider>>

-----------------------------------------------------------------------------
(* Lease recovery and reconciliation *)

\* _recover_expired_leases looks at the barriers and then awaits the database.
RecoveryCheck ==
    /\ process = "up" /\ recovery = "idle"
    /\ barriers = {}
    /\ recovery' = "checked"
    /\ UNCHANGED <<durable, slot, barriers, process, restarts, provider>>

\* Mutant: recovery leaves dispatched rows alone.
ExpiredUnstartedLeases == {j \in Jobs : /\ job[j].state = "leased"
                                        /\ job[j].lease = "expired"
                                        /\ ~job[j].started
                                        /\ ~PendingOutcome(j)}

ExpiredLeases == {j \in Jobs : /\ job[j].state = "leased"
                               /\ job[j].lease = "expired"
                               /\ ~PendingOutcome(j)}

RecoverExpiredLeases ==
    /\ recovery = "checked"
    /\ job' = [j \in Jobs |-> IF j \in ExpiredLeases THEN Recovered(job[j], j)
                              ELSE job[j]]
    /\ recovery' = "idle"
    /\ UNCHANGED <<outcome, paused, slot, barriers, process, restarts, provider>>

\* reconcile_telegram_delivery_jobs, one row of its batch.
Reconcile(j) ==
    /\ process = "up"
    /\ ~PendingOutcome(j)
    /\ \/ /\ job[j].state = "pending_reconcile"
          /\ \E v \in Verdicts : SetJob(j, Reconciled(job[j], j, v))
       \/ /\ job[j].state = "ambiguous"
          /\ SetJob(j, Escalated(job[j]))
    /\ UNCHANGED <<outcome, paused, volatile, provider>>

\* resolve_ambiguous_telegram_delivery_job.  The operator has evidence: the
\* message is in the chat, or the request is gone without having had effect.
OperatorResolves(j) ==
    /\ job[j].state \in {"ambiguous", "ambiguous_unresolved"}
    /\ \/ /\ accepted[j] > 0
          /\ SetJob(j, ConfirmedSent(job[j]))
       \/ /\ accepted[j] = 0 /\ \A c \in net : c[1] # j
          /\ SetJob(j, SafeRetry(job[j]))
    /\ UNCHANGED <<outcome, paused, volatile, provider>>

\* reconcile_ready_telegram_delivery_jobs_by_freshness, run from a script.
ReconcileReady(j) ==
    /\ job[j].state \in CLAIMABLE_DELIVERY_STATES
    /\ job[j].due
    /\ ~PendingOutcome(j)
    /\ \E v \in Verdicts \ {"send"} : SetJob(j, ReconciledByFreshness(job[j], v))
    /\ UNCHANGED <<outcome, paused, volatile, provider>>

-----------------------------------------------------------------------------
(* Time *)

LeaseExpires(j) ==
    /\ job[j].lease = "live"
    /\ SetJob(j, [job[j] EXCEPT !.lease = "expired"])
    /\ UNCHANGED <<outcome, paused, volatile, provider>>

\* next_retry_at is never before the row's own bot_cooldown_until.
RetryDue(j) ==
    /\ job[j].state # "absent" /\ ~job[j].due /\ ~job[j].cooldown
    /\ SetJob(j, [job[j] EXCEPT !.due = TRUE])
    /\ UNCHANGED <<outcome, paused, volatile, provider>>

CooldownEnds(j) ==
    /\ job[j].cooldown
    /\ SetJob(j, [job[j] EXCEPT !.cooldown = FALSE])
    /\ UNCHANGED <<outcome, paused, volatile, provider>>

RateLimitWindowEnds(j) ==
    /\ job[j].recent
    /\ SetJob(j, [job[j] EXCEPT !.recent = FALSE])
    /\ UNCHANGED <<outcome, paused, volatile, provider>>

-----------------------------------------------------------------------------
(* Shutdown, crash, restart *)

\* Shutdown cancels every task.  A slot that holds an answer records it
\* first, one that waits for an answer leaves its row leased and started,
\* one before the marker releases its lease (PredispatchError).
Shutdown ==
    /\ process = "up" /\ restarts < MaxRestarts
    /\ process' = "stopping"
    /\ restarts' = restarts + 1
    /\ recovery' = "idle"
    /\ UNCHANGED <<durable, slot, barriers, provider>>

\* Cancelled with the process, or because another slot of the lane raised a
\* refused fact or a limiter failure, which cancels the slots of its lane.
CancelSlot(s) ==
    /\ process = "stopping" \/ \E x \in Slots \ {s} : Lane[x] = Lane[s]
    /\ slot[s].pc \in {"cycle", "calling", "applying"}
    /\ EndCycle(s)
    /\ UNCHANGED <<durable, barriers, recovery, process, restarts, provider>>

FreshProcess ==
    /\ slot' = [s \in Slots |-> IdleSlot]
    /\ barriers' = {}
    /\ recovery' = "idle"
    /\ process' = "up"

Restart ==
    /\ process = "stopping"
    /\ \A s \in Slots : slot[s].pc = "idle"
    /\ FreshProcess
    /\ UNCHANGED <<durable, restarts, provider>>

\* The host dies and the process comes back with the database as it was.
Crash ==
    /\ restarts < MaxRestarts
    /\ restarts' = restarts + 1
    /\ FreshProcess
    /\ UNCHANGED <<durable, provider>>

-----------------------------------------------------------------------------

SlotStep(s) ==
    \/ BeginCycle(s) \/ ClaimNext(s) \/ NothingToClaim(s)
    \/ ProceedAfterClaim(s) \/ EnterDispatch(s) \/ DeferForRetainedFact(s)
    \/ CheckFreshness(s) \/ LimiterAdmits(s) \/ DeferDispatch(s)
    \/ PredispatchError(s) \/ ReadDispatchGate(s) \/ MarkStale(s)
    \/ MarkDispatchStarted(s) \/ ProviderAnswers(s)
    \/ RecordProviderOutcome(s) \/ RejectFact(s) \/ ApplyInSlot(s)
    \/ CancelSlot(s)

JobStep(j) ==
    \/ Enqueue(j) \/ Reconcile(j) \/ OperatorResolves(j) \/ ReconcileReady(j)
    \/ LeaseExpires(j) \/ RetryDue(j) \/ CooldownEnds(j)
    \/ RateLimitWindowEnds(j)

Next ==
    \/ \E s \in Slots : SlotStep(s)
    \/ \E j \in Jobs : JobStep(j)
    \/ \E j \in Jobs, t \in Tokens : Replay(j, t) \/ RequestLands(<<j, t>>)
    \/ RecoveryCheck \/ RecoverExpiredLeases
    \/ Shutdown \/ Restart \/ Crash

Spec == Init /\ [][Next]_vars

-----------------------------------------------------------------------------
(* Safety *)

\* No two jobs of one destination have an unsettled provider call at the same
\* time, whatever slot, bot or recovery path each is on: what the scope locks
\* and blockers of _assert_durable_dispatch_gate are for.
DestinationExclusion ==
    \A j, k \in Jobs :
        j # k /\ DestOf[j] = DestOf[k] => ~(InFlight(job[j]) /\ InFlight(job[k]))

\* Telegram carries out a non-idempotent send at most once, through lost
\* answers, expired leases, crashes, replays and operator retries.
NoDuplicateSend == \A j \in SendJobs : accepted[j] <= 1

\* What a send's row says is what happened: "sent" only if Telegram has the
\* message; claimable, paused or given up only if it has not and no request
\* that could still deliver it is on the wire.
RowAgreesWithTelegram ==
    \A j \in SendJobs :
        /\ job[j].state = "sent" => accepted[j] = 1
        /\ job[j].state \in CLAIMABLE_DELIVERY_STATES \cup BlockedStates
                          \cup (FINAL_DELIVERY_STATES \ {"sent"})
             => accepted[j] = 0 /\ \A c \in net : c[1] # j

\* A recorded success of a send or of a repeatable method is never thrown
\* away: it is quarantined as stale only when the row already says "sent".
SuccessNeverLost ==
    \A j \in SendJobs \cup RepeatJobs, t \in Tokens :
        outcome[j][t].fact = "ok" /\ outcome[j][t].apply = "quarantined"
            => job[j].state = "sent"

\* No outcome, recovery, reconciliation or operator call moves a row out of
\* FINAL_DELIVERY_STATES.
FinalIsForever ==
    [][\A j \in Jobs : job[j].state \in FINAL_DELIVERY_STATES
                           => job'[j].state = job[j].state]_vars

\* No dispatch starts at a destination while a 429 of that destination is
\* still running, although the marker reads an old snapshot.
DestinationCooldownRespected ==
    [][\A j, k \in Jobs :
          /\ j # k /\ DestOf[j] = DestOf[k]
          /\ ~job[j].started /\ job'[j].started
          => ~LimitRunning(job[k])]_vars

\* A limited bot has one unsettled probe at a time, at whatever destinations
\* its jobs are: of two slots admitted as probes that both read a gate without
\* one, only one starts.  (A plain send whose snapshot is older than the probe
\* may still start beside it.)
OneProbe ==
    \A j, k \in Jobs :
        /\ j # k /\ BotOf[j] = BotOf[k]
        /\ InFlight(job[j]) /\ InFlight(job[k])
        => ~(job[j].probe /\ job[k].probe)

-----------------------------------------------------------------------------
(* The promise to the feeders *)

Phase(r) == CASE InFlight(r) -> "turn"
              [] r.state = "sent" -> "delivered"
              [] r.state \in BlockedStates -> "parked"
              [] r.state \in FINAL_DELIVERY_STATES \ {"sent"} -> "dropped"
              [] OTHER -> "waiting"

Promise == INSTANCE DeliveryPromise
             WITH phase <- [j \in Jobs |-> Phase(job[j])],
                  landed <- {j \in SendJobs : accepted[j] > 0}

\* The queue, with its leases, fences, replays and crashes, implements the
\* promise: turns exclude each other, a send lands only in its turn, and the
\* turn ends as delivered exactly when it landed.
PromiseKept == Promise!Spec

-----------------------------------------------------------------------------
(* Progress *)

\* The event loop runs every coroutine that can run, PostgreSQL comes back
\* after an outage, a stopped process is restarted by its supervisor, and
\* time passes.  Nothing is assumed of Telegram, feeders or the operator.
Fairness ==
    /\ \A s \in Slots : WF_vars(SlotStep(s))
    /\ \A j \in Jobs : WF_vars(Reconcile(j)) /\ WF_vars(LeaseExpires(j))
    /\ \A j \in Jobs, t \in Tokens : WF_vars(Replay(j, t))
    /\ WF_vars(RecoveryCheck) /\ WF_vars(RecoverExpiredLeases)
    /\ WF_vars(Restart)

FairSpec == Spec /\ Fairness

\* A barrier nobody will lift in this process: its answer was refused.
FactRetained ==
    \E b \in barriers : \A s \in Slots :
        ~(slot[s].pc = "answered" /\ <<slot[s].job, slot[s].token>> = b)

\* No lease is held for ever: not by a crashed slot, a cancelled one, a lost
\* commit answer or a failed release.  The one exception is a refused provider
\* fact, whose barrier keeps lease recovery off until the process is replaced.
LeasesEnd ==
    \A j \in Jobs :
        job[j].state = "leased" ~> (job[j].state # "leased" \/ FactRetained)

\* Every recorded provider answer is applied or quarantined in the end, also
\* when its slot is gone or the process restarts.
FactsReachTheirRow ==
    \A j \in Jobs, t \in Tokens :
        outcome[j][t].apply = "pending" ~> outcome[j][t].apply # "pending"

=============================================================================
