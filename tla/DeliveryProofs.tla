--------------------------- MODULE DeliveryProofs ---------------------------
(***************************************************************************)
(* Theorems about DeliveryQueue, for every value of its constants, in      *)
(* three parts: types and the dispatch gate; what reaches Telegram, and    *)
(* the refinement of DeliveryPromise; recorded successes.                  *)
(***************************************************************************)
EXTENDS DeliveryQueue, TLAPS

-----------------------------------------------------------------------------
(* Row operations keep rows well formed *)

\* The lease operations yield rows.
LEMMA LeaseOps ==
    ASSUME NEW r \in JobRows, NEW s \in Slots, NEW j \in Jobs
    PROVE  /\ AbsentRow \in JobRows
           /\ r.token < MaxToken => Leased(r, s) \in JobRows
           /\ Unleased(r) \in JobRows
           /\ Deferred(r) \in JobRows
           /\ Recovered(r, j) \in JobRows
<1> USE JobConstants DEF JobRows, JobStates, CLAIMABLE_DELIVERY_STATES,
        UnresolvedDestinationStates, BlockedStates, FINAL_DELIVERY_STATES
<1>1. AbsentRow \in JobRows
  BY DEF AbsentRow
<1>2. Unleased(r) \in JobRows
  BY DEF Unleased
<1>3. r.token < MaxToken => Leased(r, s) \in JobRows
  <2> SUFFICES ASSUME r.token < MaxToken PROVE Leased(r, s) \in JobRows
    OBVIOUS
  <2>1. r.token + 1 \in 0..MaxToken
    OBVIOUS
  <2> QED
    BY <2>1 DEF Leased
<1>4. Deferred(r) \in JobRows
  BY <1>2 DEF Deferred
<1>5. Recovered(r, j) \in JobRows
  <2>1. RecoveredState(r, j) \in JobStates
    BY DEF RecoveredState
  <2> QED
    BY <1>2, <2>1 DEF Recovered
<1> QED
  BY <1>1, <1>2, <1>3, <1>4, <1>5

\* Recovery needs no slot, the operator and the observer no verdict.
LEMMA RecoveredRow == \A r \in JobRows, j \in Jobs : Recovered(r, j) \in JobRows
BY JobConstants
DEF Recovered, RecoveredState, Unleased, JobRows, JobStates,
    CLAIMABLE_DELIVERY_STATES, UnresolvedDestinationStates

\* The rows the operator, the observer and reconciliation write are rows.
LEMMA EscalatedRow ==
    ASSUME NEW r \in JobRows
    PROVE  /\ Escalated(r) \in JobRows
           /\ SafeRetry(r) \in JobRows
           /\ ConfirmedSent(r) \in JobRows
           /\ UnsafeReconcile(r) \in JobRows
BY JobConstants
DEF SafeRetry, ConfirmedSent, Escalated, UnsafeReconcile, Unleased, JobRows,
    JobStates, CLAIMABLE_DELIVERY_STATES, UnresolvedDestinationStates,
    FINAL_DELIVERY_STATES

\* A provider answer turns a row into a row.
LEMMA ResolvedRow ==
    ASSUME NEW row \in [Jobs -> JobRows], NEW j \in Jobs, NEW f
    PROVE  Resolved(row, j, f) \in JobRows
<1>1. ResultState(j, f) \in JobStates
  BY DEF ResultState, JobStates, CLAIMABLE_DELIVERY_STATES,
     UnresolvedDestinationStates, BlockedStates, FINAL_DELIVERY_STATES
<1>2. row[j] \in JobRows
  OBVIOUS
<1>3. BotRateLimited(row, j) \in BOOLEAN
  BY DEF BotRateLimited, JobRows
<1>4. Unleased(row[j]) \in JobRows
  BY <1>2, JobConstants DEF Unleased, JobRows
<1> DEFINE u == Unleased(row[j])
           d == IF \/ ResultState(j, f) = "pending_retry"
                   \/ f = "forbidden" /\ j \notin PrivateJobs
                THEN FALSE ELSE u.due
           c == u.cooldown \/ (f = "rate_limited" /\ BotRateLimited(row, j))
<1>5. d \in BOOLEAN /\ c \in BOOLEAN /\ (u.recent \/ f = "rate_limited") \in BOOLEAN
  BY <1>3, <1>4 DEF JobRows
<1>6. Resolved(row, j, f) =
        [u EXCEPT !.state = ResultState(j, f), !.due = d,
                  !.limited = (f = "rate_limited"),
                  !.recent = u.recent \/ f = "rate_limited",
                  !.cooldown = c, !.probe = FALSE]
  BY <1>4 DEF Resolved, JobRows
<1> QED
  <2> HIDE DEF u, d, c
  <2> QED
    BY <1>1, <1>4, <1>5, <1>6 DEF JobRows, u

\* So do freshness verdicts, reconciliation and the operator.
LEMMA ReconcileOps ==
    ASSUME NEW r \in JobRows, NEW j \in Jobs, NEW v \in Verdicts
    PROVE  /\ v # "send" => Refreshed(r, v) \in JobRows
           /\ v # "send" => ReconciledByFreshness(r, v) \in JobRows
           /\ SafeRetry(r) \in JobRows
           /\ ConfirmedSent(r) \in JobRows
           /\ Escalated(r) \in JobRows
           /\ Reconciled(r, j, v) \in JobRows
<1>1. v # "send" => FreshnessState(v) \in JobStates
  BY JobConstants DEF FreshnessState, JobStates, CLAIMABLE_DELIVERY_STATES,
     UnresolvedDestinationStates, BlockedStates, FINAL_DELIVERY_STATES,
     AllVerdicts
<1>2. v # "send" => Refreshed(r, v) \in JobRows
  BY <1>1, JobConstants DEF Refreshed, Unleased, JobRows
<1>3. v # "send" => ReconciledByFreshness(r, v) \in JobRows
  BY <1>2 DEF ReconciledByFreshness, JobRows
<1>4. /\ SafeRetry(r) \in JobRows
      /\ ConfirmedSent(r) \in JobRows
      /\ Escalated(r) \in JobRows
      /\ UnsafeReconcile(r) \in JobRows
  BY EscalatedRow
<1>5. Reconciled(r, j, v) \in JobRows
  <2>1. CASE v = "send" /\ j \in RepeatJobs
    BY <1>4, <2>1 DEF Reconciled
  <2>2. CASE v = "send" /\ j \notin RepeatJobs
    BY <1>4, <2>2 DEF Reconciled
  <2>3. CASE v # "send"
    BY <1>3, <2>3 DEF Reconciled
  <2> QED
    BY <2>1, <2>2, <2>3
<1> QED
  BY <1>2, <1>3, <1>4, <1>5

-----------------------------------------------------------------------------
(* Type correctness *)

TypeInv == TypeOK /\ SlotsHoldJobs

\* Slot s moves on, or ends its cycle; the others stay.
LEMMA SlotOps ==
    ASSUME TypeInv, NEW s \in Slots, NEW pc
    PROVE  /\ IdleSlot \in SlotStates
           /\ GoTo(s, pc) /\ slot[s].pc \notin {"idle", "cycle"}
              /\ [slot[s] EXCEPT !.pc = pc] \in SlotStates
                => slot' \in [Slots -> SlotStates] /\ SlotsHoldJobs'
           /\ EndCycle(s) => slot' \in [Slots -> SlotStates] /\ SlotsHoldJobs'
<1> USE DEF TypeInv, TypeOK
<1>1. IdleSlot \in SlotStates
  BY JobConstants DEF IdleSlot, SlotStates
<1>2. ASSUME GoTo(s, pc), slot[s].pc \notin {"idle", "cycle"},
             [slot[s] EXCEPT !.pc = pc] \in SlotStates
      PROVE  slot' \in [Slots -> SlotStates] /\ SlotsHoldJobs'
  BY <1>2 DEF GoTo, SlotsHoldJobs, SlotStates
<1>3. ASSUME EndCycle(s)
      PROVE  slot' \in [Slots -> SlotStates] /\ SlotsHoldJobs'
  BY <1>1, <1>3 DEF EndCycle, SlotsHoldJobs, IdleSlot
<1> QED
  BY <1>1, <1>2, <1>3

\* Applying a recorded answer keeps the three durable tables well formed.
LEMMA ApplyType ==
    ASSUME TypeInv, NEW j \in Jobs, NEW t \in Tokens, ApplyProviderOutcome(j, t)
    PROVE  /\ job' \in [Jobs -> JobRows]
           /\ outcome' \in [Jobs -> [Tokens -> OutcomeRows]]
           /\ paused' \subseteq Bots \cup {"gateway"}
<1> USE DEF TypeInv, TypeOK
<1>1. Resolved(job, j, outcome[j][t].fact) \in JobRows
  BY ResolvedRow
<1>2. PausedScope(j, outcome[j][t].fact) \subseteq Bots \cup {"gateway"}
  BY JobConstants DEF PausedScope
<1>3. ASSUME NEW a \in {"applied", "quarantined"}
      PROVE  [outcome EXCEPT ![j][t].apply = a] \in [Jobs -> [Tokens -> OutcomeRows]]
  <2>1. outcome[j] \in [Tokens -> OutcomeRows] /\ outcome[j][t] \in OutcomeRows
    OBVIOUS
  <2>2. [outcome[j][t] EXCEPT !.apply = a] \in OutcomeRows
    BY <2>1 DEF OutcomeRows
  <2>3. [outcome[j] EXCEPT ![t] = [outcome[j][t] EXCEPT !.apply = a]]
           \in [Tokens -> OutcomeRows]
    BY <2>1, <2>2
  <2>4. [outcome EXCEPT ![j][t].apply = a] =
           [outcome EXCEPT ![j] = [outcome[j] EXCEPT ![t] =
                                     [outcome[j][t] EXCEPT !.apply = a]]]
    BY <2>1
  <2> QED
    BY <2>3, <2>4
<1>4. CASE MayApply(j, t)
  BY <1>1, <1>2, <1>3, <1>4 DEF ApplyProviderOutcome, SetJob
<1>5. CASE ~MayApply(j, t)
  BY <1>3, <1>5 DEF ApplyProviderOutcome
<1> QED
  BY <1>4, <1>5

\* The slots' steps keep the types.
LEMMA SlotStepType ==
    ASSUME TypeInv, NEW s \in Slots, SlotStep(s)
    PROVE  TypeInv'
<1> USE DEF TypeInv, durable, volatile, provider
<1> DEFINE j == slot[s].job
           t == slot[s].token
<1>1. slot[s] \in SlotStates
  BY DEF TypeOK
<1>2. slot[s].pc \notin {"idle", "cycle"}
        => j \in Jobs /\ t \in Tokens /\ job[j] \in JobRows
  BY DEF SlotsHoldJobs, TypeOK
<1>3. ASSUME slot[s].pc \notin {"idle", "cycle"}, DeferUnstarted(s)
      PROVE  job' \in [Jobs -> JobRows]
  <2>1. Deferred(job[j]) \in JobRows
    BY <1>2, <1>3, LeaseOps
  <2> QED
    BY <1>2, <1>3, <2>1 DEF DeferUnstarted, SetJob, TypeOK
<1>4. ASSUME NEW pc \in {"cycle", "checked", "fresh", "admitted", "final",
                         "entered", "marking", "calling", "applying"}
      PROVE  [slot[s] EXCEPT !.pc = pc] \in SlotStates
  BY <1>1 DEF SlotStates, BeforeDispatch
<1>5. CASE BeginCycle(s)
  BY <1>1, <1>5 DEF BeginCycle, GoTo, TypeOK, SlotsHoldJobs, SlotStates
<1>6. CASE ClaimNext(s)
  <2>1. PICK k \in Jobs :
          /\ job[k].token < MaxToken
          /\ SetJob(k, Leased(job[k], s))
          /\ \/ slot' = [slot EXCEPT ![s] = [IdleSlot EXCEPT !.pc = "claimed",
                              !.job = k, !.token = job[k].token + 1]]
             \/ EndCycle(s)
    BY <1>6 DEF ClaimNext
  <2>2. job[k] \in JobRows
    BY DEF TypeOK
  <2>3. Leased(job[k], s) \in JobRows
    BY <2>1, <2>2, LeaseOps
  <2>4. job' \in [Jobs -> JobRows]
    BY <2>1, <2>3 DEF SetJob, TypeOK
  <2>5. job[k].token + 1 \in Tokens
    BY <2>1, <2>2, JobConstants DEF JobRows, Tokens
  <2>6. [IdleSlot EXCEPT !.pc = "claimed", !.job = k, !.token = job[k].token + 1]
          \in SlotStates
    <3>1. IdleSlot \in SlotStates
      BY SlotOps
    <3>2. job[k].token + 1 \in 0..MaxToken
      BY <2>5, JobConstants DEF Tokens
    <3> QED
      BY <3>1, <3>2 DEF SlotStates, BeforeDispatch
  <2>7. slot' \in [Slots -> SlotStates] /\ SlotsHoldJobs'
    <3>1. CASE EndCycle(s)
      BY <3>1, SlotOps
    <3>2. CASE slot' = [slot EXCEPT ![s] = [IdleSlot EXCEPT !.pc = "claimed",
                              !.job = k, !.token = job[k].token + 1]]
      BY <2>5, <2>6, <3>2 DEF SlotsHoldJobs, TypeOK, IdleSlot
    <3> QED
      BY <2>1, <3>1, <3>2
  <2> QED
    BY <1>6, <2>4, <2>7 DEF ClaimNext, TypeOK
<1>7. CASE NothingToClaim(s)
  BY <1>7, SlotOps DEF NothingToClaim, TypeOK
<1>8. CASE ProceedAfterClaim(s)
  BY <1>4, <1>8, SlotOps DEF ProceedAfterClaim, TypeOK
<1>9. CASE EnterDispatch(s)
  BY <1>4, <1>9, SlotOps DEF EnterDispatch, TypeOK
<1>10. CASE DeferForRetainedFact(s)
  BY <1>3, <1>10, SlotOps DEF DeferForRetainedFact, TypeOK
<1>11. CASE CheckFreshness(s)
  <2>1. PICK v \in Verdicts :
          IF v = "send"
          THEN /\ GoTo(s, IF slot[s].pc = "checked" THEN "fresh" ELSE "final")
               /\ UNCHANGED job
          ELSE /\ SetJob(j, IF HoldsLease(job[j], s, t)
                            THEN Refreshed(job[j], v) ELSE job[j])
               /\ EndCycle(s)
    BY <1>11 DEF CheckFreshness
  <2>2. slot[s].pc \in {"checked", "admitted"}
    BY <1>11 DEF CheckFreshness
  <2>3. CASE v = "send"
    <3>1. slot' \in [Slots -> SlotStates] /\ SlotsHoldJobs'
      BY <1>4, <2>1, <2>2, <2>3, SlotOps
    <3> QED
      BY <1>11, <2>1, <2>3, <3>1 DEF CheckFreshness, TypeOK
  <2>4. CASE v # "send"
    <3>1. Refreshed(job[j], v) \in JobRows
      BY <1>2, <2>2, <2>4, ReconcileOps
    <3>2. job' \in [Jobs -> JobRows]
      BY <1>2, <2>1, <2>2, <2>4, <3>1 DEF SetJob, TypeOK
    <3>3. slot' \in [Slots -> SlotStates] /\ SlotsHoldJobs'
      BY <2>1, <2>4, SlotOps
    <3> QED
      BY <1>11, <3>2, <3>3 DEF CheckFreshness, TypeOK
  <2> QED
    BY <2>3, <2>4
<1>12. CASE LimiterAdmits(s)
  <2>1. slot' \in [Slots -> SlotStates] /\ SlotsHoldJobs'
    <3>1. PICK p \in BOOLEAN :
            slot' = [slot EXCEPT ![s].pc = "admitted", ![s].probe = p]
      BY <1>12 DEF LimiterAdmits
    <3>3. [slot[s] EXCEPT !.pc = "admitted", !.probe = p] \in SlotStates
      BY <1>1 DEF SlotStates, BeforeDispatch
    <3>4. slot' = [slot EXCEPT ![s] = [slot[s] EXCEPT !.pc = "admitted", !.probe = p]]
      BY <3>1 DEF TypeOK
    <3>5. slot' \in [Slots -> SlotStates]
      BY <3>3, <3>4 DEF TypeOK
    <3>6. slot[s].pc \notin {"idle", "cycle"}
      BY <1>12 DEF LimiterAdmits
    <3>7. SlotsHoldJobs'
      BY <1>1, <3>4, <3>6 DEF SlotsHoldJobs, TypeOK, SlotStates
    <3> QED
      BY <3>5, <3>7
  <2> QED
    BY <1>12, <2>1 DEF LimiterAdmits, TypeOK
<1>13. CASE DeferDispatch(s)
  BY <1>3, <1>13, SlotOps DEF DeferDispatch, TypeOK
<1>14. CASE PredispatchError(s)
  BY <1>3, <1>14, SlotOps DEF PredispatchError, BeforeDispatch, TypeOK
<1>15. CASE ReadDispatchGate(s)
  BY <1>4, <1>15, SlotOps DEF ReadDispatchGate, TypeOK
<1>16. CASE MarkStale(s)
  BY <1>16, SlotOps DEF MarkStale, TypeOK
<1>17. CASE MarkDispatchStarted(s)
  <2>1. slot[s].pc = "marking"
    BY <1>17 DEF MarkDispatchStarted
  <2>2. job' = [job EXCEPT ![j].started = TRUE, ![j].probe = slot[s].probe]
    BY <1>17 DEF MarkDispatchStarted
  <2>3. job' \in [Jobs -> JobRows]
    BY <1>1, <1>2, <2>1, <2>2 DEF TypeOK, JobRows, SlotStates
  <2>4. \A x \in Slots : \/ slot'[x] = slot[x]
                          \/ slot'[x] = IdleSlot
                          \/ /\ slot[x].pc = "marking"
                             /\ \E pc \in {"calling", "entered"} :
                                   slot'[x] = [slot[x] EXCEPT !.pc = pc]
    BY <1>17 DEF MarkDispatchStarted, AbortedMarkers
  <2>5. slot' \in [Slots -> SlotStates]
    <3>1. DOMAIN slot' = Slots /\ slot' = [x \in Slots |-> slot'[x]]
      BY <1>17 DEF MarkDispatchStarted
    <3>2. IdleSlot \in SlotStates
      BY SlotOps
    <3>3. ASSUME NEW x \in Slots PROVE slot'[x] \in SlotStates
      <4>1. slot[x] \in SlotStates
        BY DEF TypeOK
      <4>2. \A pc \in {"calling", "entered"} : [slot[x] EXCEPT !.pc = pc] \in SlotStates
        BY <4>1 DEF SlotStates, BeforeDispatch
      <4> QED
        BY <2>4, <3>2, <4>1, <4>2
    <3> QED
      BY <3>1, <3>3
  <2>6. SlotsHoldJobs'
    BY <2>4, <2>5 DEF SlotsHoldJobs, TypeOK, SlotStates, IdleSlot
  <2>7. net' \subseteq Jobs \X Tokens
    BY <1>2, <1>17, <2>1 DEF MarkDispatchStarted, TypeOK
  <2> QED
    BY <1>17, <2>3, <2>5, <2>6, <2>7 DEF MarkDispatchStarted, TypeOK
<1>18. CASE ProviderAnswers(s)
  <2>1. slot[s].pc = "calling"
    BY <1>18 DEF ProviderAnswers
  <2>2. PICK f \in PossibleFacts(j) :
          /\ net' = IF f \in UncertainFacts THEN net ELSE net \ {<<j, t>>}
          /\ accepted' = IF f \in AcceptedFacts
                         THEN [accepted EXCEPT ![j] = @ + 1] ELSE accepted
          /\ slot' = [slot EXCEPT ![s].pc = "answered", ![s].fact = f]
    BY <1>18 DEF ProviderAnswers
  <2>3. f \in Facts
    BY DEF PossibleFacts
  <2>4. slot' \in [Slots -> SlotStates] /\ SlotsHoldJobs'
    BY <1>1, <2>1, <2>2, <2>3 DEF SlotsHoldJobs, TypeOK, SlotStates
  <2>5. accepted' \in [Jobs -> Nat] /\ net' \subseteq Jobs \X Tokens
    BY <1>2, <2>1, <2>2 DEF TypeOK
  <2>6. barriers' \subseteq Jobs \X Tokens
    BY <1>2, <1>18, <2>1 DEF ProviderAnswers, TypeOK
  <2> QED
    BY <1>18, <2>4, <2>5, <2>6 DEF ProviderAnswers, TypeOK
<1>19. CASE RecordProviderOutcome(s)
  <2>1. slot[s].pc = "answered"
    BY <1>19 DEF RecordProviderOutcome
  <2>2. outcome' \in [Jobs -> [Tokens -> OutcomeRows]]
    BY <1>1, <1>2, <1>19, <2>1
    DEF RecordProviderOutcome, TypeOK, OutcomeRows, SlotStates
  <2>3. barriers' \subseteq Jobs \X Tokens
    BY <1>19 DEF RecordProviderOutcome, TypeOK
  <2>4. slot' \in [Slots -> SlotStates] /\ SlotsHoldJobs'
    <3>1. \/ GoTo(s, "applying") \/ EndCycle(s) \/ UNCHANGED slot
      BY <1>19 DEF RecordProviderOutcome
    <3> QED
      BY <1>4, <2>1, <3>1, SlotOps DEF TypeOK, SlotsHoldJobs
  <2> QED
    BY <1>19, <2>2, <2>3, <2>4 DEF RecordProviderOutcome, TypeOK
<1>20. CASE RejectFact(s)
  BY <1>4, <1>20, SlotOps DEF RejectFact, TypeOK
<1>21. CASE ApplyInSlot(s)
  <2>1. slot[s].pc = "applying"
    BY <1>21 DEF ApplyInSlot
  <2>2. \/ ApplyProviderOutcome(j, t) \/ UNCHANGED durable
    BY <1>21 DEF ApplyInSlot
  <2>3. ApplyProviderOutcome(j, t) => (/\ job' \in [Jobs -> JobRows]
                                      /\ outcome' \in [Jobs -> [Tokens -> OutcomeRows]]
                                      /\ paused' \subseteq Bots \cup {"gateway"})
    BY <1>2, <2>1, ApplyType
  <2>4. slot' \in [Slots -> SlotStates] /\ SlotsHoldJobs'
    BY <1>21, SlotOps DEF ApplyInSlot
  <2> QED
    BY <1>21, <2>2, <2>3, <2>4 DEF ApplyInSlot, TypeOK
<1>22. CASE CancelSlot(s)
  BY <1>22, SlotOps DEF CancelSlot, TypeOK
<1> QED
  BY <1>5, <1>6, <1>7, <1>8, <1>9, <1>10, <1>11, <1>12, <1>13, <1>14, <1>15,
     <1>16, <1>17, <1>18, <1>19, <1>20, <1>21, <1>22 DEF SlotStep

-----------------------------------------------------------------------------

\* Everything else keeps the types too.
LEMMA JobStepType ==
    ASSUME TypeInv, NEW j \in Jobs, JobStep(j)
    PROVE  TypeInv'
<1> USE DEF TypeInv, durable, volatile, provider
<1>1. job[j] \in JobRows
  BY DEF TypeOK
<1>2. ASSUME NEW r \in JobRows, SetJob(j, r),
             UNCHANGED <<outcome, paused, volatile, provider>>
      PROVE  TypeInv'
  BY <1>2 DEF SetJob, TypeOK, SlotsHoldJobs
<1>3. CASE Enqueue(j)
  <2>1. \A due \in BOOLEAN : [AbsentRow EXCEPT !.state = "pending", !.due = due] \in JobRows
    <3>1. AbsentRow \in JobRows
      BY JobConstants DEF AbsentRow, JobRows, JobStates
    <3> QED
      BY <3>1 DEF JobRows, JobStates, CLAIMABLE_DELIVERY_STATES
  <2> QED
    BY <1>2, <1>3, <2>1 DEF Enqueue
<1>4. CASE Reconcile(j)
  <2>1. CASE \E v \in Verdicts : SetJob(j, Reconciled(job[j], j, v))
    BY <1>1, <1>2, <1>4, <2>1, ReconcileOps DEF Reconcile
  <2>2. CASE SetJob(j, Escalated(job[j]))
    BY <1>1, <1>2, <1>4, <2>2, EscalatedRow DEF Reconcile
  <2> QED
    BY <1>4, <2>1, <2>2 DEF Reconcile
<1>5. CASE OperatorResolves(j)
  BY <1>1, <1>2, <1>5, EscalatedRow DEF OperatorResolves
<1>6. CASE ReconcileReady(j)
  BY <1>1, <1>2, <1>6, ReconcileOps DEF ReconcileReady
<1>7. /\ [job[j] EXCEPT !.lease = "expired"] \in JobRows
      /\ [job[j] EXCEPT !.due = TRUE] \in JobRows
      /\ [job[j] EXCEPT !.cooldown = FALSE] \in JobRows
      /\ [job[j] EXCEPT !.recent = FALSE] \in JobRows
  BY <1>1 DEF JobRows
<1>8. CASE LeaseExpires(j) \/ RetryDue(j) \/ CooldownEnds(j) \/ RateLimitWindowEnds(j)
  BY <1>2, <1>7, <1>8 DEF LeaseExpires, RetryDue, CooldownEnds, RateLimitWindowEnds
<1> QED
  BY <1>3, <1>4, <1>5, <1>6, <1>8 DEF JobStep

\* Replay, Telegram, the loops and the process keep the types.
LEMMA ProcessStepType ==
    ASSUME TypeInv,
           \/ \E j \in Jobs, t \in Tokens : Replay(j, t) \/ RequestLands(<<j, t>>)
           \/ RecoveryCheck \/ RecoverExpiredLeases
           \/ Shutdown \/ Restart \/ Crash
    PROVE  TypeInv'
<1> USE DEF TypeInv, durable, volatile, provider
<1>1. ASSUME NEW j \in Jobs, NEW t \in Tokens, Replay(j, t)
      PROVE  TypeInv'
  <2>1. ApplyProviderOutcome(j, t)
    BY <1>1 DEF Replay
  <2>2. /\ job' \in [Jobs -> JobRows]
        /\ outcome' \in [Jobs -> [Tokens -> OutcomeRows]]
        /\ paused' \subseteq Bots \cup {"gateway"}
    BY <2>1, ApplyType
  <2> QED
    BY <1>1, <2>2 DEF Replay, TypeOK, SlotsHoldJobs
<1>2. ASSUME NEW j \in Jobs, NEW t \in Tokens, RequestLands(<<j, t>>)
      PROVE  TypeInv'
  BY <1>2 DEF RequestLands, TypeOK, SlotsHoldJobs
<1>3. CASE RecoveryCheck
  BY <1>3 DEF RecoveryCheck, TypeOK, SlotsHoldJobs
<1>4. CASE RecoverExpiredLeases
  <2>1. \A j \in Jobs : job[j] \in JobRows /\ Recovered(job[j], j) \in JobRows
    BY RecoveredRow DEF TypeOK
  <2>2. job' \in [Jobs -> JobRows]
    BY <1>4, <2>1 DEF RecoverExpiredLeases
  <2> QED
    BY <1>4, <2>2 DEF RecoverExpiredLeases, TypeOK, SlotsHoldJobs
<1>5. CASE Shutdown
  BY <1>5, QueueConstants DEF Shutdown, TypeOK, SlotsHoldJobs
<1>6. IdleSlot \in SlotStates
  BY JobConstants DEF IdleSlot, SlotStates
<1>7. FreshProcess => slot' \in [Slots -> SlotStates] /\ SlotsHoldJobs'
  BY <1>6 DEF FreshProcess, SlotsHoldJobs, IdleSlot
<1>8. CASE Restart
  BY <1>7, <1>8 DEF Restart, FreshProcess, TypeOK
<1>9. CASE Crash
  BY <1>7, <1>9, QueueConstants DEF Crash, FreshProcess, TypeOK
<1> QED
  BY <1>1, <1>2, <1>3, <1>4, <1>5, <1>8, <1>9

\* The empty queue with idle slots is well typed.
LEMMA InitType == Init => TypeInv
<1> SUFFICES ASSUME Init PROVE TypeInv
  OBVIOUS
<1>1. AbsentRow \in JobRows
  BY JobConstants DEF AbsentRow, JobRows, JobStates
<1>2. IdleSlot \in SlotStates
  BY JobConstants DEF IdleSlot, SlotStates
<1>3. NoOutcome \in OutcomeRows
  BY DEF NoOutcome, OutcomeRows
<1> QED
  BY <1>1, <1>2, <1>3, QueueConstants
  DEF Init, TypeInv, TypeOK, SlotsHoldJobs, IdleSlot

\* Every step keeps the types.
LEMMA StepType == TypeInv /\ [Next]_vars => TypeInv'
<1> SUFFICES ASSUME TypeInv, [Next]_vars PROVE TypeInv'
  OBVIOUS
<1>1. CASE UNCHANGED vars
  BY <1>1 DEF TypeInv, TypeOK, SlotsHoldJobs, vars
<1>2. CASE Next
  BY <1>2, SlotStepType, JobStepType, ProcessStepType DEF Next
<1> QED
  BY <1>1, <1>2

\* Every row, outcome, slot, barrier and counter of the queue keeps its type,
\* for any number of jobs, slots, bots and destinations.
THEOREM TypeCorrect == Spec => []TypeOK
<1>1. Spec => []TypeInv
  BY InitType, StepType, PTL DEF Spec
<1>2. TypeInv => TypeOK
  BY DEF TypeInv
<1> QED
  BY <1>1, <1>2, PTL

-----------------------------------------------------------------------------
(* The dispatch gate *)

\* What a row may become in a step that is no dispatch marker: nothing but a
\* marker puts a row in flight, only the answer to a call in flight starts a
\* 429, and a final row stays as it is.
Quiet(r, q) ==
    /\ q.started => r.started
    /\ InFlight(q) => InFlight(r) /\ (q.probe => r.probe)
    /\ LimitRunning(q) => LimitRunning(r) \/ InFlight(r)
    /\ r.state \in FINAL_DELIVERY_STATES => q.state = r.state

\* A row that stays as it is is quiet.
LEMMA QuietRefl == \A r : Quiet(r, r)
BY DEF Quiet

\* So is the passing of a deadline, ...
LEMMA QuietTime ==
    ASSUME NEW r \in JobRows
    PROVE  /\ Quiet(r, [r EXCEPT !.lease = "expired"])
           /\ Quiet(r, [r EXCEPT !.due = TRUE])
           /\ Quiet(r, [r EXCEPT !.cooldown = FALSE])
           /\ Quiet(r, [r EXCEPT !.recent = FALSE])
BY DEF Quiet, InFlight, LimitRunning, JobRows

\* ... claiming and deferring, ...
LEMMA QuietLease ==
    ASSUME NEW r \in JobRows, NEW s \in Slots
    PROVE  /\ r.state \in CLAIMABLE_DELIVERY_STATES => Quiet(r, Leased(r, s))
           /\ r.state = "leased" => Quiet(r, Deferred(r))
BY DEF Quiet, InFlight, LimitRunning, JobRows, CLAIMABLE_DELIVERY_STATES,
       FINAL_DELIVERY_STATES, UnresolvedDestinationStates, Leased, Deferred, Unleased

\* ... recovery, freshness verdicts, reconciliation and the operator, ...
LEMMA QuietRecovery ==
    ASSUME NEW r \in JobRows, NEW j \in Jobs, NEW v
    PROVE  /\ r.state = "leased" => Quiet(r, Recovered(r, j))
           /\ r.state = "leased" => Quiet(r, Refreshed(r, v))
           /\ r.state \notin FINAL_DELIVERY_STATES => Quiet(r, ReconciledByFreshness(r, v))
           /\ r.state \notin FINAL_DELIVERY_STATES => Quiet(r, SafeRetry(r))
           /\ r.state \notin FINAL_DELIVERY_STATES => Quiet(r, ConfirmedSent(r))
           /\ r.state = "pending_reconcile" => Quiet(r, Reconciled(r, j, v))
           /\ r.state = "ambiguous" => Quiet(r, Escalated(r))
<1> USE DEF Quiet, InFlight, LimitRunning, JobRows, FINAL_DELIVERY_STATES,
        UnresolvedDestinationStates, Unleased
<1>1. r.state = "leased" => Quiet(r, Recovered(r, j))
  BY DEF Recovered
<1>2. r.state = "leased" => Quiet(r, Refreshed(r, v))
  BY DEF Refreshed
<1>3. r.state \notin FINAL_DELIVERY_STATES => Quiet(r, ReconciledByFreshness(r, v))
  BY DEF ReconciledByFreshness, Refreshed
<1>4. r.state \notin FINAL_DELIVERY_STATES => Quiet(r, SafeRetry(r))
  BY DEF SafeRetry
<1>5. r.state \notin FINAL_DELIVERY_STATES => Quiet(r, ConfirmedSent(r))
  BY DEF ConfirmedSent
<1>6. r.state \notin FINAL_DELIVERY_STATES => Quiet(r, UnsafeReconcile(r))
  BY DEF UnsafeReconcile
<1>7. r.state = "pending_reconcile" => Quiet(r, Reconciled(r, j, v))
  <2>1. r.state = "pending_reconcile" => r.state \notin FINAL_DELIVERY_STATES
    OBVIOUS
  <2> HIDE DEF Quiet
  <2> QED
    BY <1>3, <1>4, <1>6, <2>1 DEF Reconciled
<1>8. r.state = "ambiguous" => Quiet(r, Escalated(r))
  BY DEF Escalated
<1> QED
  BY <1>1, <1>2, <1>3, <1>4, <1>5, <1>7, <1>8

\* ... and applying a recorded answer.
LEMMA QuietAnswer ==
    ASSUME TypeInv, NEW j \in Jobs, NEW t \in Tokens, ApplyProviderOutcome(j, t)
    PROVE  \A k \in Jobs : Quiet(job[k], job'[k])
<1>1. job \in [Jobs -> JobRows] /\ job[j] \in JobRows
  BY DEF TypeInv, TypeOK
<1>2. CASE MayApply(j, t)
  <2> DEFINE q == Resolved(job, j, outcome[j][t].fact)
  <2>1. job' = [job EXCEPT ![j] = q]
    BY <1>2 DEF ApplyProviderOutcome, SetJob
  <2>2. InFlight(job[j]) /\ job[j].started /\ job[j].state \notin FINAL_DELIVERY_STATES
    BY <1>2 DEF MayApply, InFlight, FINAL_DELIVERY_STATES, UnresolvedDestinationStates
  <2>3. q.probe = FALSE /\ q.started = job[j].started
    BY <1>1 DEF Resolved, Unleased, JobRows
  <2>4. Quiet(job[j], q)
    BY <2>2, <2>3 DEF Quiet
  <2> QED
    <3> HIDE DEF q
    <3> QED
      BY <1>1, <2>1, <2>4, QuietRefl DEF Quiet
<1>3. CASE ~MayApply(j, t)
  BY <1>1, <1>3, QuietRefl DEF ApplyProviderOutcome
<1> QED
  BY <1>2, <1>3

\* Every step but a marker is quiet on every row.
LEMMA QuietStep ==
    ASSUME TypeInv, Next, \A s \in Slots : ~MarkDispatchStarted(s)
    PROVE  \A k \in Jobs : Quiet(job[k], job'[k])
<1> USE DEF durable, volatile, provider
<1>1. job \in [Jobs -> JobRows] /\ \A k \in Jobs : job[k] \in JobRows
  BY DEF TypeInv, TypeOK
<1>2. CASE UNCHANGED job
  BY <1>1, <1>2, QuietRefl
<1>3. ASSUME NEW j \in Jobs, NEW q, Quiet(job[j], q), SetJob(j, q)
      PROVE  \A k \in Jobs : Quiet(job[k], job'[k])
  BY <1>1, <1>3, QuietRefl DEF SetJob
<1>4. ASSUME NEW s \in Slots, SlotStep(s)
      PROVE  \A k \in Jobs : Quiet(job[k], job'[k])
  <2> DEFINE j == slot[s].job
  <2>1. slot[s].pc \notin {"idle", "cycle"} => j \in Jobs /\ slot[s].token \in Tokens
    BY DEF TypeInv, SlotsHoldJobs
  <2>2. ASSUME slot[s].pc \notin {"idle", "cycle"}, DeferUnstarted(s)
        PROVE  \A k \in Jobs : Quiet(job[k], job'[k])
    <3>1. HoldsLease(job[j], s, slot[s].token) => Quiet(job[j], Deferred(job[j]))
      BY <1>1, <2>1, <2>2, QuietLease DEF HoldsLease
    <3>2. Quiet(job[j], job[j])
      BY <1>1, <2>1, <2>2, QuietRefl
    <3> QED
      BY <1>3, <2>1, <2>2, <3>1, <3>2 DEF DeferUnstarted
  <2>3. CASE ClaimNext(s)
    <3>1. PICK i \in Jobs : Claimable(i, Lane[s]) /\ SetJob(i, Leased(job[i], s))
      BY <2>3 DEF ClaimNext
    <3>2. Quiet(job[i], Leased(job[i], s))
      BY <1>1, <3>1, QuietLease DEF Claimable
    <3> QED
      BY <1>3, <3>1, <3>2
  <2>4. CASE DeferForRetainedFact(s)
    BY <2>2, <2>4 DEF DeferForRetainedFact
  <2>5. CASE CheckFreshness(s)
    <3>1. slot[s].pc \notin {"idle", "cycle"}
      BY <2>5 DEF CheckFreshness
    <3>2. PICK v \in Verdicts :
             \/ UNCHANGED job
             \/ SetJob(j, IF HoldsLease(job[j], s, slot[s].token)
                          THEN Refreshed(job[j], v) ELSE job[j])
      BY <2>5 DEF CheckFreshness
    <3>3. HoldsLease(job[j], s, slot[s].token) => Quiet(job[j], Refreshed(job[j], v))
      BY <1>1, <2>1, <3>1, QuietRecovery DEF HoldsLease
    <3>4. Quiet(job[j], job[j])
      BY <1>1, <2>1, <3>1, QuietRefl
    <3> QED
      BY <1>2, <1>3, <2>1, <3>1, <3>2, <3>3, <3>4
  <2>6. CASE DeferDispatch(s)
    BY <2>2, <2>6 DEF DeferDispatch
  <2>7. CASE PredispatchError(s)
    BY <1>2, <2>2, <2>7 DEF PredispatchError, BeforeDispatch
  <2>8. CASE ApplyInSlot(s)
    BY <1>2, <2>1, <2>8, QuietAnswer DEF ApplyInSlot
  <2>9. CASE UNCHANGED job
    BY <1>2, <2>9
  <2> QED
    BY <1>4, <2>3, <2>4, <2>5, <2>6, <2>7, <2>8, <2>9
    DEF SlotStep, BeginCycle, NothingToClaim, ProceedAfterClaim, EnterDispatch,
        LimiterAdmits, ReadDispatchGate, MarkStale, ProviderAnswers,
        RecordProviderOutcome, RejectFact, CancelSlot
<1>5. ASSUME NEW j \in Jobs, JobStep(j)
      PROVE  \A k \in Jobs : Quiet(job[k], job'[k])
  <2>1. CASE Enqueue(j)
    <3>1. PICK due \in BOOLEAN :
             SetJob(j, [AbsentRow EXCEPT !.state = "pending", !.due = due])
      BY <2>1 DEF Enqueue
    <3> DEFINE q == [AbsentRow EXCEPT !.state = "pending", !.due = due]
    <3>2. q.state = "pending" /\ ~q.started
      BY DEF AbsentRow
    <3>3. Quiet(job[j], q)
      BY <2>1, <3>2
      DEF Enqueue, Quiet, InFlight, LimitRunning, FINAL_DELIVERY_STATES
    <3> QED
      BY <1>3, <3>1, <3>3
  <2>2. CASE Reconcile(j)
    BY <1>1, <1>3, <2>2, QuietRecovery DEF Reconcile
  <2>3. CASE OperatorResolves(j)
    <3>1. job[j].state \notin FINAL_DELIVERY_STATES
      BY <2>3 DEF OperatorResolves, FINAL_DELIVERY_STATES
    <3> QED
      BY <1>1, <1>3, <2>3, <3>1, QuietRecovery DEF OperatorResolves
  <2>4. CASE ReconcileReady(j)
    <3>1. job[j].state \notin FINAL_DELIVERY_STATES
      BY <2>4 DEF ReconcileReady, FINAL_DELIVERY_STATES, CLAIMABLE_DELIVERY_STATES
    <3> QED
      BY <1>1, <1>3, <2>4, <3>1, QuietRecovery DEF ReconcileReady
  <2>5. CASE LeaseExpires(j) \/ RetryDue(j) \/ CooldownEnds(j) \/ RateLimitWindowEnds(j)
    BY <1>1, <1>3, <2>5, QuietTime
    DEF LeaseExpires, RetryDue, CooldownEnds, RateLimitWindowEnds
  <2> QED
    BY <1>5, <2>1, <2>2, <2>3, <2>4, <2>5 DEF JobStep
<1>6. ASSUME NEW j \in Jobs, NEW t \in Tokens, Replay(j, t)
      PROVE  \A k \in Jobs : Quiet(job[k], job'[k])
  BY <1>6, QuietAnswer DEF Replay
<1>7. CASE RecoverExpiredLeases
  <2>1. \A k \in Jobs : k \in ExpiredLeases => Quiet(job[k], Recovered(job[k], k))
    BY <1>1, QuietRecovery DEF ExpiredLeases
  <2> QED
    BY <1>1, <1>7, <2>1, QuietRefl DEF RecoverExpiredLeases
<1> QED
  BY <1>2, <1>4, <1>5, <1>6, <1>7
  DEF Next, RequestLands, RecoveryCheck, Shutdown, Restart, Crash

\* Job k has an unsettled call that the marker in slot x must have seen.
Excludes(x, k) ==
    /\ InFlight(job[k])
    /\ \/ DestOf[k] = DestOf[slot[x].job]
       \/ BotOf[k] = BotOf[slot[x].job] /\ job[k].probe /\ slot[x].probe

\* A marker that has read the gate is still right about its destination, and
\* if it is a probe about its bot's probe: its snapshot is old, but that part
\* of what it read has not become false.
MarkingSound ==
    \A x \in Slots : slot[x].pc = "marking" =>
        \A k \in Jobs \ {slot[x].job} :
            /\ ~Excludes(x, k)
            /\ DestOf[k] = DestOf[slot[x].job] => ~LimitRunning(job[k])

GateInv == TypeInv /\ MarkingSound /\ DestinationExclusion /\ OneProbe

\* Only ReadDispatchGate brings a slot to "marking".
LEMMA MarkingSlots ==
    ASSUME TypeInv, Next, \A s \in Slots : ~MarkDispatchStarted(s),
           NEW x \in Slots, slot'[x].pc = "marking"
    PROVE  /\ slot'[x].job = slot[x].job /\ slot'[x].probe = slot[x].probe
           /\ slot[x].pc = "marking" \/ ReadDispatchGate(x)
<1> USE DEF durable, volatile, provider, GoTo, EndCycle, IdleSlot
<1>1. slot \in [Slots -> SlotStates]
  BY DEF TypeInv, TypeOK
<1>2. CASE UNCHANGED slot
  BY <1>2
<1>3. ASSUME NEW s \in Slots, SlotStep(s)
      PROVE  /\ slot'[x].job = slot[x].job /\ slot'[x].probe = slot[x].probe
             /\ slot[x].pc = "marking" \/ ReadDispatchGate(x)
  <2>1. CASE x # s /\ slot'[x] = slot[x]
    BY <2>1
  <2>2. CASE x = s
    <3>1. slot[s] \in SlotStates
      BY <1>1
    <3>2. CASE ReadDispatchGate(s)
      BY <1>1, <2>2, <3>1, <3>2 DEF ReadDispatchGate, SlotStates
    <3>3. CASE EndCycle(s)
      BY <1>1, <2>2, <3>3
    <3>4. ASSUME NEW pc, GoTo(s, pc), pc # "marking" PROVE FALSE
      BY <1>1, <2>2, <3>1, <3>4 DEF SlotStates
    <3>5. CASE ClaimNext(s)
      <4>1. IdleSlot \in SlotStates
        BY JobConstants DEF SlotStates
      <4>2. PICK k \in Jobs :
               \/ slot' = [slot EXCEPT ![s] = [IdleSlot EXCEPT !.pc = "claimed",
                                 !.job = k, !.token = job[k].token + 1]]
               \/ EndCycle(s)
        BY <3>5 DEF ClaimNext
      <4> HIDE DEF IdleSlot, EndCycle
      <4> DEFINE c == [IdleSlot EXCEPT !.pc = "claimed", !.job = k,
                                       !.token = job[k].token + 1]
      <4>3. c.pc = "claimed"
        BY <4>1 DEF SlotStates
      <4> HIDE DEF c
      <4>4. CASE slot' = [slot EXCEPT ![s] = c]
        BY <1>1, <2>2, <4>3, <4>4
      <4> QED
        BY <3>3, <4>2, <4>4 DEF c
    <3>9. CASE LimiterAdmits(s)
      BY <1>1, <2>2, <3>1, <3>9 DEF LimiterAdmits, SlotStates
    <3>6. CASE ProviderAnswers(s)
      BY <1>1, <2>2, <3>1, <3>6 DEF ProviderAnswers, SlotStates
    <3>7. CASE CheckFreshness(s)
      <4> HIDE DEF GoTo, EndCycle
      <4> QED
        BY <3>3, <3>4, <3>7 DEF CheckFreshness
    <3>8. CASE RecordProviderOutcome(s)
      <4> HIDE DEF GoTo, EndCycle
      <4> QED
        BY <2>2, <1>2, <3>3, <3>4, <3>8 DEF RecordProviderOutcome
    <3> HIDE DEF GoTo, EndCycle
    <3> QED
      BY <1>3, <2>2, <3>2, <3>3, <3>4, <3>5, <3>6, <3>7, <3>8, <3>9
      DEF SlotStep, BeginCycle, NothingToClaim, ProceedAfterClaim,
          EnterDispatch, DeferForRetainedFact, DeferDispatch, PredispatchError,
          MarkStale, RejectFact, ApplyInSlot, CancelSlot
  <2>3. x # s => slot'[x] = slot[x]
    BY <1>1, <1>3
    DEF SlotStep, BeginCycle, ClaimNext, NothingToClaim, ProceedAfterClaim,
        EnterDispatch, DeferForRetainedFact, CheckFreshness, LimiterAdmits,
        DeferDispatch, PredispatchError, ReadDispatchGate, MarkStale,
        ProviderAnswers, RecordProviderOutcome, RejectFact, ApplyInSlot,
        CancelSlot
  <2> QED
    BY <2>1, <2>2, <2>3
<1>4. CASE FreshProcess
  BY <1>4 DEF FreshProcess
<1> QED
  BY <1>2, <1>3, <1>4
  DEF Next, JobStep, Enqueue, Reconcile, OperatorResolves, ReconcileReady,
      LeaseExpires, RetryDue, CooldownEnds, RateLimitWindowEnds, Replay,
      RequestLands, RecoveryCheck, RecoverExpiredLeases, Shutdown, Restart, Crash

\* What a marker does to the rows and to the other markers.
LEMMA MarkEffect ==
    ASSUME TypeInv, NEW s \in Slots, MarkDispatchStarted(s)
    PROVE  /\ slot[s].pc = "marking" /\ slot[s].job \in Jobs
           /\ ~job[slot[s].job].started /\ job[slot[s].job].state = "leased"
           /\ \A k \in Jobs : k # slot[s].job => job'[k] = job[k]
           /\ job'[slot[s].job] = [job[slot[s].job] EXCEPT !.started = TRUE,
                                                          !.probe = slot[s].probe]
           /\ \A x \in Slots : slot'[x].pc = "marking" =>
                 /\ x # s /\ slot'[x] = slot[x]
                 /\ ~MutualConflict(s, x)
<1> DEFINE j == slot[s].job
<1>1. slot[s].pc = "marking" /\ j \in Jobs /\ MayMark(s)
  BY DEF MarkDispatchStarted, TypeInv, SlotsHoldJobs
<1>2. ~job[j].started /\ job[j].state = "leased"
  BY <1>1 DEF MayMark, HoldsLease
<1>3. job' = [job EXCEPT ![j].started = TRUE, ![j].probe = slot[s].probe]
  BY DEF MarkDispatchStarted
<1>4. ASSUME NEW x \in Slots, slot'[x].pc = "marking"
      PROVE  x # s /\ slot'[x] = slot[x] /\ ~MutualConflict(s, x)
  <2>1. slot[x] \in SlotStates /\ slot[s] \in SlotStates
    BY DEF TypeInv, TypeOK
  <2>2. x # s
    BY <1>4, <2>1 DEF MarkDispatchStarted, IdleSlot, SlotStates
  <2>3. slot'[x] = IF x \in AbortedMarkers(s)
                   THEN [slot[x] EXCEPT !.pc = "entered"] ELSE slot[x]
    BY <1>3, <2>2 DEF MarkDispatchStarted
  <2>4. x \notin AbortedMarkers(s)
    BY <1>4, <2>1, <2>3 DEF SlotStates
  <2> QED
    BY <1>4, <2>2, <2>3, <2>4 DEF AbortedMarkers
<1> QED
  BY <1>1, <1>2, <1>3, <1>4 DEF TypeInv, TypeOK, JobRows

\* Every step keeps the gate invariant.
LEMMA GateStep == GateInv /\ [Next]_vars => GateInv'
<1> SUFFICES ASSUME GateInv, [Next]_vars PROVE GateInv'
  OBVIOUS
<1>1. TypeInv /\ TypeInv'
  BY StepType DEF GateInv
<1>2. CASE UNCHANGED vars
  BY <1>1, <1>2
  DEF GateInv, MarkingSound, DestinationExclusion, OneProbe, Excludes, vars
<1>3. ASSUME NEW s \in Slots, MarkDispatchStarted(s)
      PROVE  MarkingSound' /\ DestinationExclusion' /\ OneProbe'
  <2> DEFINE j == slot[s].job
  <2>1. /\ slot[s].pc = "marking" /\ j \in Jobs /\ job[j].state = "leased"
        /\ \A k \in Jobs : k # j => job'[k] = job[k]
        /\ job'[j] = [job[j] EXCEPT !.started = TRUE, !.probe = slot[s].probe]
        /\ \A x \in Slots : slot'[x].pc = "marking" =>
              x # s /\ slot'[x] = slot[x] /\ ~MutualConflict(s, x)
    BY <1>1, <1>3, MarkEffect
  <2>2. ~LimitRunning(job'[j]) /\ job'[j].probe = slot[s].probe
    <3>1. job[j] \in JobRows /\ slot[s] \in SlotStates
      BY <1>1, <2>1 DEF TypeInv, TypeOK
    <3> QED
      BY <2>1, <3>1 DEF LimitRunning, JobRows, SlotStates
  <2>3. \A m \in Jobs \ {j} : ~Excludes(s, m)
    BY <2>1 DEF GateInv, MarkingSound
  <2>4. DestinationExclusion' /\ OneProbe'
    <3> SUFFICES ASSUME NEW i \in Jobs, NEW k \in Jobs, i # k,
                        InFlight(job'[i]), InFlight(job'[k]),
                        \/ DestOf[i] = DestOf[k]
                        \/ BotOf[i] = BotOf[k] /\ job'[i].probe /\ job'[k].probe
                 PROVE  FALSE
      BY DEF DestinationExclusion, OneProbe
    <3>1. CASE i = j
      BY <2>1, <2>2, <2>3, <3>1 DEF Excludes
    <3>2. CASE k = j
      BY <2>1, <2>2, <2>3, <3>2 DEF Excludes
    <3>3. CASE i # j /\ k # j
      BY <2>1, <3>3 DEF GateInv, DestinationExclusion, OneProbe
    <3> QED
      BY <3>1, <3>2, <3>3
  <2>5. MarkingSound'
    <3> SUFFICES ASSUME NEW x \in Slots, slot'[x].pc = "marking",
                        NEW k \in Jobs, k # slot'[x].job
                 PROVE  /\ ~Excludes(x, k)'
                        /\ DestOf[k] = DestOf[slot'[x].job] => ~LimitRunning(job'[k])
      BY DEF MarkingSound
    <3>1. CASE k = j
      BY <2>1, <2>2, <3>1 DEF Excludes, MutualConflict
    <3>2. CASE k # j
      BY <2>1, <3>2 DEF GateInv, MarkingSound, Excludes
    <3> QED
      BY <3>1, <3>2
  <2> QED
    BY <2>4, <2>5
<1>4. ASSUME Next, \A s \in Slots : ~MarkDispatchStarted(s)
      PROVE  MarkingSound' /\ DestinationExclusion' /\ OneProbe'
  <2>1. \A k \in Jobs : Quiet(job[k], job'[k])
    BY <1>1, <1>4, QuietStep
  <2>2. DestinationExclusion' /\ OneProbe'
    BY <2>1 DEF GateInv, DestinationExclusion, OneProbe, Quiet
  <2>3. ASSUME NEW x \in Slots, slot'[x].pc = "marking",
               NEW k \in Jobs, k # slot'[x].job
        PROVE  /\ ~Excludes(x, k)'
               /\ DestOf[k] = DestOf[slot'[x].job] => ~LimitRunning(job'[k])
    <3>1. /\ slot'[x].job = slot[x].job /\ slot'[x].probe = slot[x].probe
          /\ slot[x].pc = "marking" \/ ReadDispatchGate(x)
      BY <1>1, <1>4, <2>3, MarkingSlots
    <3>2. /\ ~Excludes(x, k)
          /\ DestOf[k] = DestOf[slot[x].job] => ~LimitRunning(job[k])
      <4>1. CASE slot[x].pc = "marking"
        BY <2>3, <3>1, <4>1 DEF GateInv, MarkingSound
      <4>2. CASE ReadDispatchGate(x)
        BY <2>3, <3>1, <4>2
        DEF ReadDispatchGate, DispatchBlocked, InFlightBlocks, ResultBlocks,
            Excludes
      <4> QED
        BY <3>1, <4>1, <4>2
    <3> QED
      BY <2>1, <3>1, <3>2 DEF Excludes, Quiet
  <2> QED
    BY <2>2, <2>3 DEF MarkingSound
<1> QED
  BY <1>1, <1>2, <1>3, <1>4 DEF GateInv

\* The gate invariant holds in every reachable state.
LEMMA GateInvariant == Spec => []GateInv
<1>1. Init => GateInv
  BY InitType DEF Init, GateInv, MarkingSound, DestinationExclusion, OneProbe,
                  IdleSlot, AbsentRow, InFlight
<1> QED
  BY <1>1, GateStep, PTL DEF Spec

\* Two jobs of one destination never have an unsettled provider call at the
\* same time, for any number of slots, bots and jobs: the dispatch gate with
\* serializable markers is enough, leases and barriers are not needed for it.
THEOREM DestinationsExclude == Spec => []DestinationExclusion
<1>1. GateInv => DestinationExclusion
  BY DEF GateInv
<1> QED
  BY <1>1, GateInvariant, PTL

\* No provider outcome, recovery, reconciliation or operator moves a row out
\* of a final state.
THEOREM FinalStays == Spec => FinalIsForever
<1>1. GateInv /\ [Next]_vars =>
        [\A j \in Jobs : job[j].state \in FINAL_DELIVERY_STATES
                              => job'[j].state = job[j].state]_vars
  <2> SUFFICES ASSUME GateInv, Next, NEW j \in Jobs,
                      job[j].state \in FINAL_DELIVERY_STATES
               PROVE  job'[j].state = job[j].state
    OBVIOUS
  <2>1. ASSUME NEW s \in Slots, MarkDispatchStarted(s)
        PROVE  job'[j].state = job[j].state
    BY <2>1, MarkEffect DEF GateInv, FINAL_DELIVERY_STATES
  <2> QED
    BY <2>1, QuietStep DEF GateInv, Quiet
<1> QED
  BY <1>1, GateInvariant, PTL DEF Spec, FinalIsForever

\* No dispatch starts at a destination whose 429 still runs, for any number of
\* slots and jobs and however old the snapshot of its marker is.
THEOREM CooldownIsRespected == Spec => DestinationCooldownRespected
<1>1. ASSUME GateInv, [Next]_vars, NEW j \in Jobs, NEW k \in Jobs, j # k,
             DestOf[j] = DestOf[k], ~job[j].started, job'[j].started
      PROVE  ~LimitRunning(job[k])
  <2>1. PICK s \in Slots : MarkDispatchStarted(s)
    BY <1>1, QuietStep DEF GateInv, Quiet, vars
  <2>2. /\ slot[s].pc = "marking"
        /\ \A i \in Jobs : i # slot[s].job => job'[i] = job[i]
    BY <1>1, <2>1, MarkEffect DEF GateInv
  <2>3. slot[s].job = j
    BY <1>1, <2>2
  <2> QED
    BY <1>1, <2>2, <2>3 DEF GateInv, MarkingSound
<1>2. GateInv /\ [Next]_vars =>
        [\A j, k \in Jobs :
            /\ j # k /\ DestOf[j] = DestOf[k]
            /\ ~job[j].started /\ job'[j].started
            => ~LimitRunning(job[k])]_vars
  BY <1>1
<1> QED
  BY <1>2, GateInvariant, PTL DEF Spec, DestinationCooldownRespected

\* A bot never has two unsettled probes, for any number of slots, jobs and
\* destinations: two probes that pass the gate together read each other's rows,
\* so one of their serializable markers fails.
THEOREM ProbesExclude == Spec => []OneProbe
<1>1. GateInv => OneProbe
  BY DEF GateInv
<1> QED
  BY <1>1, GateInvariant, PTL

-----------------------------------------------------------------------------
(***************************************************************************)
(* What reaches Telegram: a send is carried out at most once, its row says *)
(* so, and the queue keeps DeliveryPromise.  The argument is about fences: *)
(* a lease token is used for one provider call, and every fact about that  *)
(* call carries the token.                                                 *)
(***************************************************************************)
(* The inductive invariant *)

\* No provider call was made with fence t of job j, up to now.
Unused(j, t) == \/ t > job[j].token
                \/ t = job[j].token /\ job[j].state = "leased" /\ ~job[j].started

\* A slot never runs ahead of its row; before the marker a lease it still holds
\* is unstarted; once it calls, its fence is used; its answer is a fact.
SlotFences ==
    \A s \in Slots : slot[s].pc \notin {"idle", "cycle"} =>
        /\ slot[s].token <= job[slot[s].job].token
        /\ slot[s].pc \in BeforeDispatch
             /\ HoldsLease(job[slot[s].job], s, slot[s].token)
             => ~job[slot[s].job].started
        /\ slot[s].pc \in {"calling", "answered"}
             => ~Unused(slot[s].job, slot[s].token)
        /\ slot[s].pc = "answered" => slot[s].fact \in Facts

\* A pending outcome has a fact, an unused fence has none.
OutcomeFences ==
    \A j \in Jobs, t \in Tokens :
        /\ outcome[j][t].apply = "pending" => outcome[j][t].fact \in Facts
        /\ Unused(j, t) => outcome[j][t].fact = "none"

\* A row in doubt is about a call that was started.
DoubtIsStarted ==
    \A j \in Jobs : job[j].state \in {"ambiguous", "ambiguous_unresolved"}
                        => job[j].started

AbsentUnused == \A j \in Jobs : job[j].state = "absent" => job[j].token = 0

FenceInv == SlotFences /\ OutcomeFences /\ DoubtIsStarted /\ AbsentUnused

\* The rows whose send may have been written to the wire.
MayHaveSent(r) == \/ r.state = "leased" /\ r.started
                  \/ r.state \in {"ambiguous", "ambiguous_unresolved", "sent"}

\* Telegram has not carried out j and no request for it is on the wire.
Untouched(j) == accepted[j] = 0 /\ \A c \in net : c[1] # j

\* What the row of send j, the wire and Telegram say of each other.
SendRow(j) ==
    /\ accepted[j] <= 1
    /\ ~MayHaveSent(job[j]) => Untouched(j)
    /\ job[j].state = "sent" => accepted[j] = 1
    /\ \A t \in Tokens : <<j, t>> \in net => t = job[j].token /\ accepted[j] = 0

\* What is recorded, or held by a slot, about a call of send j is true.
SendFacts(j) ==
    /\ \A t \in Tokens :
          /\ outcome[j][t].fact \in AcceptedFacts => accepted[j] = 1
          /\ outcome[j][t].fact \in RefusedFacts /\ t = job[j].token => Untouched(j)
    /\ \A s \in Slots : slot[s].pc = "answered" /\ slot[s].job = j =>
          /\ slot[s].fact \in AcceptedFacts => accepted[j] = 1
          /\ slot[s].fact \in RefusedFacts /\ slot[s].token = job[j].token
               => Untouched(j)

SendInv == \A j \in SendJobs : SendRow(j) /\ SendFacts(j)

-----------------------------------------------------------------------------
(* What a step does to a row *)

InDoubt(r) == r.state \in {"ambiguous", "ambiguous_unresolved"}

\* The row keeps its fence, is not newly leased or dispatched, and comes into
\* doubt only about a call that was started.
Calm(r, q) ==
    /\ q.token = r.token
    /\ q.state = "leased" => /\ r.state = "leased" /\ q.worker = r.worker
                             /\ q.started = r.started
    /\ InDoubt(q) => q.started
    /\ q.state = "absent" => r.state = "absent"

\* ... and nothing is claimed about Telegram that was not claimed before.
Modest(r, q) == /\ MayHaveSent(r) => MayHaveSent(q)
                /\ q.state = "sent" => r.state = "sent"

\* The passing of a deadline is calm and modest, ...
LEMMA CalmTime ==
    ASSUME NEW r \in JobRows, InDoubt(r) => r.started,
           NEW q, q \in {r, [r EXCEPT !.lease = "expired"], [r EXCEPT !.due = TRUE],
                         [r EXCEPT !.cooldown = FALSE], [r EXCEPT !.recent = FALSE]}
    PROVE  Calm(r, q) /\ Modest(r, q)
BY DEF Calm, Modest, InDoubt, MayHaveSent, JobRows

\* ... so is a freshness verdict on an unstarted lease, ...
LEMMA CalmVerdict ==
    ASSUME NEW r \in JobRows, NEW v \in Verdicts \ {"send"},
           r.state = "leased", ~r.started
    PROVE  Calm(r, Refreshed(r, v)) /\ Modest(r, Refreshed(r, v))
<1>1. FreshnessState(v)
        \notin {"absent", "leased", "ambiguous", "ambiguous_unresolved", "sent"}
  BY JobConstants DEF FreshnessState, AllVerdicts
<1> QED
  BY <1>1 DEF Refreshed, Unleased, Calm, Modest, InDoubt, MayHaveSent, JobRows

\* ... and reconciliation of a row that has not sent.
LEMMA CalmReconcile ==
    ASSUME NEW r \in JobRows, NEW v \in Verdicts, NEW j \in Jobs,
           InDoubt(r) => r.started
    PROVE  /\ r.state = "pending_reconcile"
                => Calm(r, Reconciled(r, j, v)) /\ Modest(r, Reconciled(r, j, v))
           /\ r.state \in CLAIMABLE_DELIVERY_STATES /\ v # "send"
                => /\ Calm(r, ReconciledByFreshness(r, v))
                   /\ Modest(r, ReconciledByFreshness(r, v))
<1> USE DEF Calm, Modest, InDoubt, MayHaveSent, JobRows, Unleased
<1>1. Calm(r, SafeRetry(r))
  BY DEF SafeRetry
<1>2. v # "send" => FreshnessState(v)
                      \notin {"absent", "leased", "ambiguous", "ambiguous_unresolved", "sent"}
  BY JobConstants DEF FreshnessState, AllVerdicts
<1>4. v # "send" /\ ~MayHaveSent(r) => /\ Calm(r, ReconciledByFreshness(r, v))
                                       /\ Modest(r, ReconciledByFreshness(r, v))
  BY <1>2 DEF ReconciledByFreshness, Refreshed
<1>5. ~MayHaveSent(r) => /\ Modest(r, SafeRetry(r))
                         /\ Calm(r, UnsafeReconcile(r)) /\ Modest(r, UnsafeReconcile(r))
  BY DEF SafeRetry, UnsafeReconcile
<1>6. r.state \in CLAIMABLE_DELIVERY_STATES \cup {"pending_reconcile"} => ~MayHaveSent(r)
  BY DEF CLAIMABLE_DELIVERY_STATES
<1> HIDE DEF Calm, Modest, MayHaveSent, InDoubt, JobRows, Unleased
<1>7. r.state = "pending_reconcile"
        => Calm(r, Reconciled(r, j, v)) /\ Modest(r, Reconciled(r, j, v))
  BY <1>1, <1>4, <1>5, <1>6 DEF Reconciled
<1> QED
  BY <1>1, <1>4, <1>6, <1>7

\* What row q would say of send j is true.
Honest(j, q) == /\ ~MayHaveSent(q) => Untouched(j)
                /\ q.state = "sent" => accepted[j] = 1

\* Job j may become q: a step that neither claims it nor starts its call.
Sound(j, q) == Calm(job[j], q) /\ (j \in SendJobs => Honest(j, q))

\* A modest change of a true row is a true row.
LEMMA ModestIsHonest ==
    ASSUME SendInv, NEW j \in SendJobs, NEW q, Modest(job[j], q)
    PROVE  Honest(j, q)
BY DEF SendInv, SendRow, Modest, Honest

\* Applying a pending outcome turns its row into a true one.
LEMMA SoundAnswer ==
    ASSUME TypeInv, FenceInv, SendInv, NEW j \in Jobs, NEW t \in Tokens,
           outcome[j][t].apply = "pending", MayApply(j, t)
    PROVE  Sound(j, Resolved(job, j, outcome[j][t].fact))
<1> DEFINE f == outcome[j][t].fact
           q == Resolved(job, j, f)
<1>1. job[j] \in JobRows /\ job[j].token = t /\ job[j].started
  BY DEF TypeInv, TypeOK, MayApply
<1>2. f \in Facts /\ Facts \subseteq AllFacts
  BY JobConstants DEF FenceInv, OutcomeFences
<1>3. /\ q.state = ResultState(j, f) /\ q.started = job[j].started
      /\ q.token = job[j].token
  BY <1>1 DEF Resolved, Unleased, JobRows
<1>4. /\ ResultState(j, f) \notin {"leased", "absent"}
      /\ ResultState(j, f) = "sent" => f = "ok"
      /\ j \in SendJobs /\ f \notin RefusedFacts
           => ResultState(j, f) \in {"sent", "ambiguous"}
  BY <1>2 DEF ResultState, RefusedFacts, AllFacts, AcceptedFacts, UncertainFacts
<1> HIDE DEF q
<1>5. Calm(job[j], q)
  <2>1. q.started
    BY <1>1, <1>3
  <2>2. q.state \notin {"leased", "absent"} /\ q.token = job[j].token
    BY <1>3, <1>4
  <2> QED
    BY <2>1, <2>2 DEF Calm
<1>6. ASSUME j \in SendJobs PROVE Honest(j, q)
  <2>1. /\ f = "ok" => accepted[j] = 1
        /\ f \in RefusedFacts => Untouched(j)
    BY <1>1, <1>6 DEF SendInv, SendFacts, AcceptedFacts
  <2> QED
    BY <1>3, <1>4, <1>6, <2>1 DEF Honest, MayHaveSent
<1> QED
  BY <1>5, <1>6 DEF Sound, q

\* Every step but a claim and a marker changes every row soundly.
LEMMA SoundStep ==
    ASSUME TypeInv, FenceInv, SendInv, Next,
           \A s \in Slots : ~MarkDispatchStarted(s) /\ ~ClaimNext(s)
    PROVE  \A k \in Jobs : Sound(k, job'[k])
<1> USE DEF durable, volatile, provider
<1>1. /\ job \in [Jobs -> JobRows]
      /\ \A k \in Jobs : job[k] \in JobRows /\ (InDoubt(job[k]) => job[k].started)
  BY DEF TypeInv, TypeOK, FenceInv, DoubtIsStarted, InDoubt
<1>2. \A k \in Jobs : \A q : Calm(job[k], q) /\ Modest(job[k], q) => Sound(k, q)
  BY ModestIsHonest DEF Sound
<1>3. \A k \in Jobs : Sound(k, job[k])
  BY <1>1, <1>2, CalmTime
<1>4. CASE UNCHANGED job
  BY <1>3, <1>4
<1>5. ASSUME NEW j \in Jobs, NEW q, Sound(j, q), SetJob(j, q)
      PROVE  \A k \in Jobs : Sound(k, job'[k])
  BY <1>1, <1>3, <1>5 DEF SetJob
<1>6. ASSUME NEW j \in Jobs, NEW t \in Tokens, outcome[j][t].apply = "pending",
             ApplyProviderOutcome(j, t)
      PROVE  \A k \in Jobs : Sound(k, job'[k])
  BY <1>4, <1>5, <1>6, SoundAnswer DEF ApplyProviderOutcome
<1>7. ASSUME NEW s \in Slots, SlotStep(s)
      PROVE  \A k \in Jobs : Sound(k, job'[k])
  <2> DEFINE j == slot[s].job
  <2>1. slot[s].pc \notin {"idle", "cycle"} => j \in Jobs /\ slot[s].token \in Tokens
    BY DEF TypeInv, SlotsHoldJobs
  <2>2. ASSUME slot[s].pc \notin {"idle", "cycle"}, DeferUnstarted(s)
        PROVE  \A k \in Jobs : Sound(k, job'[k])
    <3>1. HoldsLease(job[j], s, slot[s].token) /\ ~job[j].started
            => Calm(job[j], Deferred(job[j])) /\ Modest(job[j], Deferred(job[j]))
      <4> SUFFICES ASSUME HoldsLease(job[j], s, slot[s].token), ~job[j].started
                   PROVE  Calm(job[j], Deferred(job[j])) /\ Modest(job[j], Deferred(job[j]))
        OBVIOUS
      <4> QED
        BY <1>1, <2>1, <2>2
        DEF HoldsLease, Deferred, Unleased, Calm, Modest, InDoubt, MayHaveSent, JobRows
    <3> QED
      BY <1>2, <1>3, <1>5, <2>1, <2>2, <3>1 DEF DeferUnstarted
  <2>3. CASE DeferForRetainedFact(s)
    BY <2>2, <2>3 DEF DeferForRetainedFact
  <2>4. CASE CheckFreshness(s)
    <3>1. slot[s].pc \in BeforeDispatch /\ slot[s].pc \notin {"idle", "cycle"}
      BY <2>4 DEF CheckFreshness, BeforeDispatch
    <3>2. PICK v \in Verdicts :
             \/ UNCHANGED job
             \/ /\ v # "send"
                /\ SetJob(j, IF HoldsLease(job[j], s, slot[s].token)
                             THEN Refreshed(job[j], v) ELSE job[j])
      BY <2>4 DEF CheckFreshness
    <3>3. HoldsLease(job[j], s, slot[s].token)
            => job[j].state = "leased" /\ ~job[j].started
      BY <3>1 DEF FenceInv, SlotFences, HoldsLease
    <3>4. HoldsLease(job[j], s, slot[s].token) /\ v # "send"
            => Sound(j, Refreshed(job[j], v))
      BY <1>1, <1>2, <2>1, <3>1, <3>3, CalmVerdict
    <3> QED
      BY <1>3, <1>4, <1>5, <2>1, <3>1, <3>2, <3>4
  <2>5. CASE DeferDispatch(s)
    BY <2>2, <2>5 DEF DeferDispatch
  <2>6. CASE PredispatchError(s)
    BY <1>4, <2>2, <2>6 DEF PredispatchError, BeforeDispatch
  <2>7. CASE ApplyInSlot(s)
    BY <1>4, <1>6, <2>1, <2>7 DEF ApplyInSlot
  <2> QED
    BY <1>4, <1>7, <2>3, <2>4, <2>5, <2>6, <2>7
    DEF SlotStep, BeginCycle, NothingToClaim, ProceedAfterClaim, EnterDispatch,
        LimiterAdmits, ReadDispatchGate, MarkStale, ProviderAnswers,
        RecordProviderOutcome, RejectFact, CancelSlot
<1>8. ASSUME NEW j \in Jobs, JobStep(j)
      PROVE  \A k \in Jobs : Sound(k, job'[k])
  <2>1. CASE Enqueue(j)
    <3>1. PICK due \in BOOLEAN :
             SetJob(j, [AbsentRow EXCEPT !.state = "pending", !.due = due])
      BY <2>1 DEF Enqueue
    <3> DEFINE q == [AbsentRow EXCEPT !.state = "pending", !.due = due]
    <3>2. q.state = "pending" /\ q.token = 0
      BY DEF AbsentRow
    <3>3. job[j].state = "absent" /\ job[j].token = 0
      BY <2>1 DEF Enqueue, FenceInv, AbsentUnused
    <3> HIDE DEF q
    <3>4. Sound(j, q)
      BY <1>2, <3>2, <3>3 DEF Calm, Modest, MayHaveSent, InDoubt
    <3> QED
      BY <1>5, <3>1, <3>4 DEF q
  <2>2. CASE Reconcile(j)
    <3>1. CASE job[j].state = "ambiguous" /\ SetJob(j, Escalated(job[j]))
      <4>1. Calm(job[j], Escalated(job[j])) /\ Modest(job[j], Escalated(job[j]))
        BY <1>1, <3>1
        DEF Escalated, Unleased, Calm, Modest, InDoubt, MayHaveSent, JobRows
      <4> QED
        BY <1>2, <1>5, <3>1, <4>1
    <3> QED
      BY <1>1, <1>2, <1>5, <2>2, <3>1, CalmReconcile DEF Reconcile
  <2>3. CASE OperatorResolves(j)
    <3>1. CASE accepted[j] > 0 /\ SetJob(j, ConfirmedSent(job[j]))
      <4>1. Calm(job[j], ConfirmedSent(job[j]))
        BY <1>1 DEF Calm, ConfirmedSent, Unleased, InDoubt, JobRows
      <4>2. ConfirmedSent(job[j]).state = "sent"
        BY <1>1 DEF ConfirmedSent, Unleased, JobRows
      <4>3. j \in SendJobs => accepted[j] = 1
        BY <3>1 DEF SendInv, SendRow, TypeInv, TypeOK
      <4> QED
        BY <1>5, <3>1, <4>1, <4>2, <4>3 DEF Sound, Honest, MayHaveSent
    <3>2. CASE Untouched(j) /\ SetJob(j, SafeRetry(job[j]))
      <4>1. Calm(job[j], SafeRetry(job[j])) /\ SafeRetry(job[j]).state # "sent"
        BY <1>1 DEF Calm, SafeRetry, Unleased, InDoubt, JobRows
      <4> QED
        BY <1>5, <3>2, <4>1 DEF Sound, Honest
    <3> QED
      BY <2>3, <3>1, <3>2 DEF OperatorResolves, Untouched
  <2>4. CASE ReconcileReady(j)
    BY <1>1, <1>2, <1>5, <2>4, CalmReconcile DEF ReconcileReady
  <2>5. CASE LeaseExpires(j) \/ RetryDue(j) \/ CooldownEnds(j) \/ RateLimitWindowEnds(j)
    BY <1>1, <1>2, <1>5, <2>5, CalmTime
    DEF LeaseExpires, RetryDue, CooldownEnds, RateLimitWindowEnds
  <2> QED
    BY <1>8, <2>1, <2>2, <2>3, <2>4, <2>5 DEF JobStep
<1>9. ASSUME NEW j \in Jobs, NEW t \in Tokens, Replay(j, t)
      PROVE  \A k \in Jobs : Sound(k, job'[k])
  BY <1>6, <1>9 DEF Replay
<1>10. CASE RecoverExpiredLeases
  <2>1. ASSUME NEW k \in ExpiredLeases PROVE Sound(k, Recovered(job[k], k))
    <3>1. k \in Jobs /\ job[k].state = "leased"
      BY DEF ExpiredLeases
    <3>2. Calm(job[k], Recovered(job[k], k))
          /\ (k \in SendJobs => Modest(job[k], Recovered(job[k], k)))
      BY <1>1, <3>1
      DEF Recovered, RecoveredState, Unleased, Calm, Modest, InDoubt, MayHaveSent, JobRows
    <3> QED
      BY <3>1, <3>2, ModestIsHonest DEF Sound
  <2> QED
    BY <1>1, <1>3, <1>10, <2>1 DEF RecoverExpiredLeases, ExpiredLeases
<1> QED
  BY <1>4, <1>7, <1>8, <1>9, <1>10
  DEF Next, RequestLands, RecoveryCheck, Shutdown, Restart, Crash

-----------------------------------------------------------------------------
(* What a step does to the slots and to the recorded outcomes *)

\* Slot x goes on with the job and fence it has.  It gets past the marker,
\* and gets an answer, only by the two actions named.
GoesOn(x) ==
    /\ slot[x].pc \notin {"idle", "cycle"}
    /\ slot'[x].job = slot[x].job /\ slot'[x].token = slot[x].token
    /\ slot'[x].pc \in BeforeDispatch => slot[x].pc \in BeforeDispatch
    /\ slot'[x].pc = "calling" => slot[x].pc = "calling" \/ MarkDispatchStarted(x)
    /\ slot'[x].pc = "answered" => \/ /\ slot[x].pc = "answered"
                                      /\ slot'[x].fact = slot[x].fact
                                   \/ ProviderAnswers(x)

\* A slot that does nothing goes on.
LEMMA GoesOnStays ==
    ASSUME NEW x \in Slots, slot'[x] = slot[x]
    PROVE  slot'[x].pc \in {"idle", "cycle"} \/ GoesOn(x)
BY DEF GoesOn

\* A claim takes a claimable row with the next fence.
LEMMA ClaimEffect ==
    ASSUME TypeInv, NEW s \in Slots, ClaimNext(s)
    PROVE  \E k \in Jobs :
              /\ job[k].state \in CLAIMABLE_DELIVERY_STATES
              /\ job'[k].state = "leased" /\ ~job'[k].started
              /\ job'[k].token = job[k].token + 1 /\ job'[k].worker = s
              /\ \A i \in Jobs : i # k => job'[i] = job[i]
              /\ \A x \in Slots : x # s => slot'[x] = slot[x]
              /\ \/ slot'[s].pc = "idle"
                 \/ /\ slot'[s].pc = "claimed" /\ slot'[s].job = k
                    /\ slot'[s].token = job[k].token + 1
<1>1. PICK k \in Jobs :
        /\ Claimable(k, Lane[s])
        /\ SetJob(k, Leased(job[k], s))
        /\ \/ slot' = [slot EXCEPT ![s] = [IdleSlot EXCEPT !.pc = "claimed",
                            !.job = k, !.token = job[k].token + 1]]
           \/ EndCycle(s)
  BY DEF ClaimNext
<1>2. job \in [Jobs -> JobRows] /\ job[k] \in JobRows /\ slot \in [Slots -> SlotStates]
  BY DEF TypeInv, TypeOK
<1>3. /\ Leased(job[k], s).state = "leased" /\ ~Leased(job[k], s).started
      /\ Leased(job[k], s).token = job[k].token + 1 /\ Leased(job[k], s).worker = s
  BY <1>2 DEF Leased, JobRows
<1>4. job'[k] = Leased(job[k], s) /\ \A i \in Jobs : i # k => job'[i] = job[i]
  BY <1>1, <1>2 DEF SetJob
<1>5. \A x \in Slots : x # s => slot'[x] = slot[x]
  BY <1>1, <1>2 DEF EndCycle
<1>6. \/ slot'[s].pc = "idle"
      \/ /\ slot'[s].pc = "claimed" /\ slot'[s].job = k
         /\ slot'[s].token = job[k].token + 1
  <2>1. IdleSlot \in SlotStates /\ IdleSlot.pc = "idle"
    BY JobConstants DEF IdleSlot, SlotStates
  <2> DEFINE c == [IdleSlot EXCEPT !.pc = "claimed", !.job = k,
                                   !.token = job[k].token + 1]
  <2>2. c.pc = "claimed" /\ c.job = k /\ c.token = job[k].token + 1
    BY <2>1 DEF SlotStates
  <2> HIDE DEF c
  <2>3. CASE slot' = [slot EXCEPT ![s] = c]
    BY <1>2, <2>2, <2>3
  <2>4. CASE EndCycle(s)
    BY <1>2, <2>1, <2>4 DEF EndCycle
  <2> QED
    BY <1>1, <2>3, <2>4 DEF c
<1> QED
  BY <1>1, <1>3, <1>4, <1>5, <1>6 DEF Claimable

\* A slot ends up between cycles, holds a new claim, or goes on.
LEMMA SlotMove ==
    ASSUME TypeInv, Next, NEW x \in Slots
    PROVE  \/ slot'[x].pc \in {"idle", "cycle"}
           \/ ClaimNext(x)
           \/ GoesOn(x)
<1> USE DEF durable, volatile, provider
<1>1. slot \in [Slots -> SlotStates] /\ slot[x] \in SlotStates
  BY DEF TypeInv, TypeOK
<1>2. CASE UNCHANGED slot
  BY <1>2, GoesOnStays
<1>3. IdleSlot.pc = "idle"
  BY DEF IdleSlot
<1>4. ASSUME NEW s \in Slots, SlotStep(s)
      PROVE  \/ slot'[x].pc \in {"idle", "cycle"} \/ ClaimNext(x) \/ GoesOn(x)
  <2>1. CASE MarkDispatchStarted(s)
    <3>1. slot[s].pc = "marking"
      BY <2>1 DEF MarkDispatchStarted
    <3>2. CASE x = s
      <4>1. slot'[s] = IdleSlot \/ slot'[s] = [slot[s] EXCEPT !.pc = "calling"]
        BY <2>1 DEF MarkDispatchStarted
      <4> QED
        BY <1>1, <1>3, <2>1, <3>1, <3>2, <4>1 DEF GoesOn, SlotStates, BeforeDispatch
    <3>3. CASE x # s
      <4>1. \/ slot'[x] = slot[x]
            \/ slot[x].pc = "marking" /\ slot'[x] = [slot[x] EXCEPT !.pc = "entered"]
        BY <2>1, <3>3 DEF MarkDispatchStarted, AbortedMarkers
      <4> QED
        BY <1>1, <4>1, GoesOnStays DEF GoesOn, SlotStates, BeforeDispatch
    <3> QED
      BY <3>2, <3>3
  <2>2. CASE x # s /\ ~MarkDispatchStarted(s)
    <3>1. slot'[x] = slot[x]
      BY <1>1, <1>4, <2>2
      DEF SlotStep, BeginCycle, ClaimNext, NothingToClaim, ProceedAfterClaim,
          EnterDispatch, DeferForRetainedFact, CheckFreshness, LimiterAdmits,
          DeferDispatch, PredispatchError, ReadDispatchGate, MarkStale,
          ProviderAnswers, RecordProviderOutcome, RejectFact, ApplyInSlot,
          CancelSlot, GoTo, EndCycle
    <3> QED
      BY <3>1, GoesOnStays
  <2>3. CASE x = s /\ ~MarkDispatchStarted(s)
    <3>1. EndCycle(s) => slot'[x].pc = "idle"
      BY <1>1, <1>3, <2>3 DEF EndCycle
    <3>2. ASSUME NEW pc \in BeforeDispatch \cup {"applying"}, GoTo(s, pc),
                 slot[s].pc \notin {"idle", "cycle"},
                 pc \in BeforeDispatch => slot[s].pc \in BeforeDispatch
          PROVE  GoesOn(x)
      BY <1>1, <2>3, <3>2 DEF GoTo, GoesOn, SlotStates, BeforeDispatch
    <3>3. CASE BeginCycle(s)
      BY <1>1, <2>3, <3>3 DEF BeginCycle, GoTo, SlotStates
    <3>4. CASE LimiterAdmits(s)
      <4>1. PICK p \in BOOLEAN :
              slot' = [slot EXCEPT ![s].pc = "admitted", ![s].probe = p]
        BY <3>4 DEF LimiterAdmits
      <4>2. slot'[x].job = slot[x].job /\ slot'[x].token = slot[x].token
            /\ slot'[x].pc = "admitted"
        BY <1>1, <2>3, <4>1 DEF SlotStates
      <4>3. slot[x].pc = "fresh"
        BY <2>3, <3>4 DEF LimiterAdmits
      <4> QED
        BY <4>2, <4>3 DEF GoesOn, BeforeDispatch
    <3>5. CASE ProviderAnswers(s)
      <4>1. slot[x].pc = "calling"
        BY <2>3, <3>5 DEF ProviderAnswers
      <4>2. PICK f : slot' = [slot EXCEPT ![s].pc = "answered", ![s].fact = f]
        BY <3>5 DEF ProviderAnswers
      <4>3. /\ slot'[x].job = slot[x].job /\ slot'[x].token = slot[x].token
            /\ slot'[x].pc = "answered"
        BY <1>1, <2>3, <4>2 DEF SlotStates
      <4> QED
        BY <2>3, <3>5, <4>1, <4>3 DEF GoesOn, BeforeDispatch
    <3>6. CASE CheckFreshness(s)
      <4>1. slot[s].pc \in {"checked", "admitted"}
        BY <3>6 DEF CheckFreshness
      <4>2. GoTo(s, "fresh") \/ GoTo(s, "final") \/ EndCycle(s)
        BY <3>6 DEF CheckFreshness
      <4> QED
        BY <3>1, <3>2, <4>1, <4>2 DEF BeforeDispatch
    <3>7. CASE RecordProviderOutcome(s)
      <4>1. slot[s].pc = "answered"
            /\ (GoTo(s, "applying") \/ EndCycle(s) \/ UNCHANGED slot)
        BY <3>7 DEF RecordProviderOutcome
      <4> QED
        BY <1>2, <3>1, <3>2, <4>1 DEF BeforeDispatch
    <3>8. CASE ProceedAfterClaim(s) \/ EnterDispatch(s) \/ ReadDispatchGate(s)
      BY <3>2, <3>8 DEF ProceedAfterClaim, EnterDispatch, ReadDispatchGate, BeforeDispatch
    <3> QED
      BY <1>4, <2>3, <3>1, <3>3, <3>4, <3>5, <3>6, <3>7, <3>8
      DEF SlotStep, NothingToClaim, DeferForRetainedFact, DeferDispatch,
          PredispatchError, MarkStale, RejectFact, ApplyInSlot, CancelSlot
  <2> QED
    BY <2>1, <2>2, <2>3
<1>5. CASE FreshProcess
  BY <1>3, <1>5 DEF FreshProcess
<1> QED
  BY <1>2, <1>4, <1>5
  DEF Next, JobStep, Enqueue, Reconcile, OperatorResolves, ReconcileReady,
      LeaseExpires, RetryDue, CooldownEnds, RateLimitWindowEnds, Replay,
      RequestLands, RecoveryCheck, RecoverExpiredLeases, Shutdown, Restart, Crash

\* The fact of an outcome row is written once, by a slot that passed the
\* record fence, and only a new row is pending.
LEMMA OutcomeMove ==
    ASSUME TypeInv, Next, NEW j \in Jobs, NEW t \in Tokens
    PROVE  \/ /\ outcome'[j][t].fact = outcome[j][t].fact
              /\ outcome'[j][t].apply = "pending" => outcome[j][t].apply = "pending"
           \/ \E s \in Slots : /\ RecordProviderOutcome(s)
                               /\ slot[s].job = j /\ slot[s].token = t
                               /\ outcome'[j][t].fact = slot[s].fact
<1> USE DEF durable, volatile, provider
<1>1. outcome \in [Jobs -> [Tokens -> OutcomeRows]] /\ outcome[j][t] \in OutcomeRows
  BY DEF TypeInv, TypeOK
<1>2. CASE UNCHANGED outcome
  BY <1>2
<1>3. ASSUME NEW i \in Jobs, NEW u \in Tokens, ApplyProviderOutcome(i, u)
      PROVE  /\ outcome'[j][t].fact = outcome[j][t].fact
             /\ outcome'[j][t].apply = "pending" => outcome[j][t].apply = "pending"
  <2>1. PICK a \in {"applied", "quarantined"} : outcome' = [outcome EXCEPT ![i][u].apply = a]
    BY <1>3 DEF ApplyProviderOutcome
  <2>2. outcome'[j][t] = IF i = j /\ u = t THEN [outcome[j][t] EXCEPT !.apply = a]
                         ELSE outcome[j][t]
    BY <1>1, <2>1
  <2> QED
    BY <1>1, <2>2 DEF OutcomeRows
<1>4. ASSUME NEW s \in Slots, RecordProviderOutcome(s),
             ~(slot[s].job = j /\ slot[s].token = t)
      PROVE  outcome'[j][t] = outcome[j][t]
  BY <1>1, <1>4 DEF RecordProviderOutcome
<1>5. ASSUME NEW s \in Slots, RecordProviderOutcome(s),
             slot[s].job = j /\ slot[s].token = t
      PROVE  outcome'[j][t] = outcome[j][t] \/ outcome'[j][t].fact = slot[s].fact
  BY <1>1, <1>5 DEF RecordProviderOutcome
<1>6. ASSUME NEW s \in Slots, ApplyInSlot(s)
      PROVE  \/ UNCHANGED outcome
             \/ \E i \in Jobs, u \in Tokens : ApplyProviderOutcome(i, u)
  BY <1>6 DEF ApplyInSlot, TypeInv, SlotsHoldJobs
<1>7. ASSUME NEW s \in Slots, SlotStep(s)
      PROVE  UNCHANGED outcome \/ ApplyInSlot(s) \/ RecordProviderOutcome(s)
  BY <1>7
  DEF SlotStep, BeginCycle, ClaimNext, NothingToClaim, ProceedAfterClaim,
      EnterDispatch, DeferForRetainedFact, CheckFreshness, LimiterAdmits,
      DeferDispatch, PredispatchError, ReadDispatchGate, MarkStale,
      MarkDispatchStarted, ProviderAnswers, RejectFact, CancelSlot
<1>8. ASSUME NEW i \in Jobs, JobStep(i)
      PROVE  UNCHANGED outcome
  BY <1>8
  DEF JobStep, Enqueue, Reconcile, OperatorResolves, ReconcileReady,
      LeaseExpires, RetryDue, CooldownEnds, RateLimitWindowEnds
<1>9. \/ UNCHANGED outcome
      \/ \E i \in Jobs, u \in Tokens : ApplyProviderOutcome(i, u)
      \/ \E s \in Slots : RecordProviderOutcome(s)
  BY <1>6, <1>7, <1>8
  DEF Next, Replay, RequestLands, RecoveryCheck, RecoverExpiredLeases, Shutdown,
      Restart, Crash
<1> QED
  BY <1>2, <1>3, <1>4, <1>5, <1>9

-----------------------------------------------------------------------------
(* The fences are an invariant *)

\* A row keeps its fence, and then is leased only to the worker that had it,
\* or is leased with the next one.
FenceMove(r, q) ==
    \/ /\ q.token = r.token
       /\ q.state = "leased" => /\ r.state = "leased" /\ q.worker = r.worker
                                /\ ~q.started => ~r.started
       /\ InDoubt(q) => q.started
       /\ q.state = "absent" => r.state = "absent"
    \/ q.token = r.token + 1 /\ q.state = "leased" /\ ~q.started

\* Every step moves the fence of every row so, and only a marker starts a call.
LEMMA RowFence ==
    ASSUME TypeInv, FenceInv, SendInv, Next, NEW k \in Jobs
    PROVE  /\ FenceMove(job[k], job'[k])
           /\ job'[k].started /\ ~job[k].started
                => \E s \in Slots : MarkDispatchStarted(s) /\ slot[s].job = k
<1>1. job[k] \in JobRows /\ (InDoubt(job[k]) => job[k].started)
  BY DEF TypeInv, TypeOK, FenceInv, DoubtIsStarted, InDoubt
<1>2. FenceMove(job[k], job[k])
  BY <1>1 DEF FenceMove
<1>3. ASSUME NEW s \in Slots, ClaimNext(s)
      PROVE  FenceMove(job[k], job'[k]) /\ (job'[k].started => job[k].started)
  BY <1>2, <1>3, ClaimEffect DEF FenceMove
<1>4. ASSUME NEW s \in Slots, MarkDispatchStarted(s)
      PROVE  /\ FenceMove(job[k], job'[k])
             /\ job'[k].started /\ ~job[k].started => slot[s].job = k
  <2>1. CASE k = slot[s].job
    <3>1. job'[k] = [job[k] EXCEPT !.started = TRUE, !.probe = slot[s].probe]
          /\ job[k].state = "leased"
      BY <1>4, <2>1, MarkEffect
    <3> QED
      BY <1>1, <2>1, <3>1 DEF FenceMove, InDoubt, JobRows
  <2>2. CASE k # slot[s].job
    <3>1. job'[k] = job[k]
      BY <1>4, <2>2, MarkEffect
    <3> QED
      BY <1>2, <3>1
  <2> QED
    BY <2>1, <2>2
<1>5. ASSUME \A s \in Slots : ~MarkDispatchStarted(s) /\ ~ClaimNext(s)
      PROVE  FenceMove(job[k], job'[k]) /\ (job'[k].started => job[k].started)
  <2>1. Calm(job[k], job'[k])
    BY <1>5, SoundStep DEF Sound
  <2>2. Quiet(job[k], job'[k])
    BY <1>5, QuietStep
  <2> QED
    BY <2>1, <2>2 DEF Calm, FenceMove, Quiet
<1> QED
  BY <1>3, <1>4, <1>5

\* A fence that is unused has been unused before.
LEMMA UnusedBefore ==
    ASSUME TypeInv, FenceInv, SendInv, Next, NEW k \in Jobs, NEW t \in Tokens,
           t > job'[k].token \/ (/\ t = job'[k].token /\ job'[k].state = "leased"
                                 /\ ~job'[k].started)
    PROVE  Unused(k, t)
<1>1. job[k].token \in Nat /\ job'[k].token \in Nat /\ t \in Nat
  <2>1. TypeInv'
    BY StepType
  <2> QED
    BY <2>1, JobConstants DEF TypeInv, TypeOK, JobRows, Tokens
<1> QED
  BY <1>1, RowFence DEF FenceMove, Unused

\* Every step keeps the fences.
LEMMA FenceStep ==
    ASSUME TypeInv, FenceInv, SendInv, Next
    PROVE  FenceInv'
<1>1. TypeInv'
  BY StepType
<1>2. \A k \in Jobs : job[k].token \in Nat /\ job'[k].token \in Nat
  BY <1>1, JobConstants DEF TypeInv, TypeOK, JobRows
<1>3. \A x \in Slots : slot[x].token \in Nat /\ slot'[x].token \in Nat
  BY <1>1, JobConstants DEF TypeInv, TypeOK, SlotStates
<1>4. ASSUME NEW x \in Slots, slot'[x].pc \notin {"idle", "cycle"}
      PROVE  /\ slot'[x].token <= job'[slot'[x].job].token
             /\ slot'[x].pc \in BeforeDispatch
                  /\ HoldsLease(job'[slot'[x].job], x, slot'[x].token)
                  => ~job'[slot'[x].job].started
             /\ slot'[x].pc \in {"calling", "answered"} => ~Unused(slot[x].job, slot[x].token)'
             /\ slot'[x].pc = "answered" => slot'[x].fact \in Facts
  <2>1. CASE ClaimNext(x)
    BY <1>2, <1>4, <2>1, ClaimEffect
  <2>2. CASE GoesOn(x)
    <3> DEFINE j == slot[x].job
               t == slot[x].token
    <3>1. /\ j \in Jobs /\ t \in Tokens /\ slot'[x].job = j /\ slot'[x].token = t
          /\ slot[x].pc \notin {"idle", "cycle"}
      BY <2>2 DEF GoesOn, TypeInv, SlotsHoldJobs
    <3>2. FenceMove(job[j], job'[j])
      BY <3>1, RowFence
    <3>3. t <= job[j].token
      BY <3>1 DEF FenceInv, SlotFences
    <3>4. t <= job'[j].token
      BY <1>2, <1>3, <3>1, <3>2, <3>3 DEF FenceMove
    <3>5. ASSUME slot'[x].pc \in BeforeDispatch, HoldsLease(job'[j], x, t),
                 job'[j].started
          PROVE  FALSE
      <4>1. job'[j].token = job[j].token
        BY <1>2, <1>3, <3>1, <3>2, <3>3, <3>5 DEF FenceMove, HoldsLease
      <4>2. HoldsLease(job[j], x, t)
        BY <1>2, <3>1, <3>2, <3>5, <4>1 DEF FenceMove, HoldsLease
      <4>3. slot[x].pc \in BeforeDispatch
        BY <2>2, <3>5 DEF GoesOn
      <4>4. ~job[j].started
        BY <3>1, <4>2, <4>3 DEF FenceInv, SlotFences
      <4>5. PICK s \in Slots : MarkDispatchStarted(s) /\ slot[s].job = j
        BY <3>1, <3>5, <4>4, RowFence
      <4>6. job[j].worker = s /\ slot[s].pc = "marking"
        BY <4>5 DEF MarkDispatchStarted, MayMark, HoldsLease
      <4>7. x = s
        BY <4>2, <4>6 DEF HoldsLease
      <4>8. slot'[s] = IdleSlot \/ slot'[s] = [slot[s] EXCEPT !.pc = "calling"]
        BY <4>5 DEF MarkDispatchStarted
      <4>9. slot[s] \in SlotStates
        BY DEF TypeInv, TypeOK
      <4> QED
        BY <3>5, <4>7, <4>8, <4>9 DEF IdleSlot, BeforeDispatch, SlotStates
    <3>6. ASSUME slot'[x].pc \in {"calling", "answered"}
          PROVE  ~(\/ t > job'[j].token
                   \/ t = job'[j].token /\ job'[j].state = "leased" /\ ~job'[j].started)
      <4>1. CASE MarkDispatchStarted(x)
        <5>1. job'[j].started
          <6>1. /\ job[j] \in JobRows
                /\ job'[j] = [job[j] EXCEPT !.started = TRUE, !.probe = slot[x].probe]
            BY <3>1, <4>1, MarkEffect DEF TypeInv, TypeOK
          <6> QED
            BY <6>1 DEF JobRows
        <5> QED
          BY <1>2, <1>3, <3>1, <3>4, <5>1
      <4>2. CASE slot[x].pc \in {"calling", "answered"}
        <5>1. ~Unused(j, t)
          BY <3>1, <4>2 DEF FenceInv, SlotFences
        <5> QED
          BY <3>1, <5>1, UnusedBefore
      <4> QED
        BY <2>2, <3>6, <4>1, <4>2 DEF GoesOn, ProviderAnswers
    <3>7. ASSUME slot'[x].pc = "answered" PROVE slot'[x].fact \in Facts
      <4>1. CASE slot[x].pc = "answered" /\ slot'[x].fact = slot[x].fact
        BY <3>1, <4>1 DEF FenceInv, SlotFences
      <4>2. CASE ProviderAnswers(x)
        <5>1. PICK f \in PossibleFacts(j) :
                slot' = [slot EXCEPT ![x].pc = "answered", ![x].fact = f]
          BY <4>2 DEF ProviderAnswers
        <5>2. slot'[x].fact = f
          BY <5>1 DEF TypeInv, TypeOK, SlotStates
        <5> QED
          BY <5>2 DEF PossibleFacts
      <4> QED
        BY <2>2, <3>7, <4>1, <4>2 DEF GoesOn
    <3> QED
      BY <3>1, <3>4, <3>5, <3>6, <3>7 DEF Unused
  <2> QED
    BY <1>4, <2>1, <2>2, SlotMove
<1>5. SlotFences'
  BY <1>4 DEF SlotFences, Unused, HoldsLease
<1>6. ASSUME NEW j \in Jobs, NEW t \in Tokens
      PROVE  /\ outcome'[j][t].apply = "pending" => outcome'[j][t].fact \in Facts
             /\ Unused(j, t)' => outcome'[j][t].fact = "none"
  <2>1. CASE /\ outcome'[j][t].fact = outcome[j][t].fact
             /\ outcome'[j][t].apply = "pending" => outcome[j][t].apply = "pending"
    BY <2>1, UnusedBefore DEF FenceInv, OutcomeFences, Unused
  <2>2. ASSUME NEW s \in Slots, RecordProviderOutcome(s), slot[s].job = j,
               slot[s].token = t, outcome'[j][t].fact = slot[s].fact
        PROVE  outcome'[j][t].fact \in Facts /\ ~Unused(j, t)'
    <3>1. slot[s].pc = "answered" /\ MayRecord(s) /\ UNCHANGED job
      BY <2>2 DEF RecordProviderOutcome
    <3>2. job[j].token = t /\ job[j].started
      BY <2>2, <3>1 DEF MayRecord
    <3>3. slot[s].fact \in Facts
      BY <3>1 DEF FenceInv, SlotFences
    <3> QED
      BY <1>2, <2>2, <3>1, <3>2, <3>3 DEF Unused
  <2> QED
    BY <2>1, <2>2, OutcomeMove
<1>7. DoubtIsStarted' /\ AbsentUnused'
  <2> SUFFICES ASSUME NEW k \in Jobs
               PROVE  /\ InDoubt(job'[k]) => job'[k].started
                      /\ job'[k].state = "absent" => job'[k].token = 0
    BY DEF DoubtIsStarted, AbsentUnused, InDoubt
  <2>1. FenceMove(job[k], job'[k])
    BY RowFence
  <2> QED
    BY <2>1 DEF FenceMove, InDoubt, FenceInv, AbsentUnused
<1> QED
  BY <1>5, <1>6, <1>7 DEF FenceInv, OutcomeFences

-----------------------------------------------------------------------------
(* At most one call of a send is carried out *)

\* While the request of a send is on the wire nothing is known about it.
LEMMA OnTheWire ==
    ASSUME TypeInv, SendInv, NEW j \in SendJobs, NEW t \in Tokens, <<j, t>> \in net
    PROVE  /\ accepted[j] = 0 /\ t = job[j].token /\ ~Untouched(j)
           /\ MayHaveSent(job[j]) /\ job[j].state # "sent"
           /\ \A c \in net : c[1] = j => c = <<j, t>>
<1>1. SendRow(j) /\ t = job[j].token /\ accepted[j] = 0 /\ ~Untouched(j)
  BY DEF SendInv, SendRow, Untouched
<1>2. ASSUME NEW c \in net, c[1] = j PROVE c = <<j, t>>
  <2>1. PICK u \in Tokens : c = <<j, u>>
    BY <1>2 DEF TypeInv, TypeOK
  <2> QED
    BY <1>1, <2>1 DEF SendRow
<1> QED
  BY <1>1, <1>2 DEF SendRow

\* The request lands: Telegram carries it out, once, or does not.
LEMMA Landing ==
    ASSUME TypeInv, SendInv, NEW j \in SendJobs, NEW t \in Tokens, <<j, t>> \in net,
           net' = net \ {<<j, t>>}, accepted'[j] \in {0, 1}, job' = job
    PROVE  /\ SendRow(j)'
           /\ accepted'[j] = 0 => Untouched(j)'
           /\ \A u \in Tokens : outcome[j][u].fact \notin AcceptedFacts
           /\ \A u \in Tokens : u = job[j].token => outcome[j][u].fact \notin RefusedFacts
           /\ \A s \in Slots : slot[s].pc = "answered" /\ slot[s].job = j =>
                 /\ slot[s].fact \notin AcceptedFacts
                 /\ slot[s].token = job[j].token => slot[s].fact \notin RefusedFacts
<1>1. /\ accepted[j] = 0 /\ t = job[j].token /\ ~Untouched(j)
      /\ MayHaveSent(job[j]) /\ job[j].state # "sent"
      /\ \A c \in net : c[1] = j => c = <<j, t>>
  BY OnTheWire
<1>2. \A c \in net' : c[1] # j
  BY <1>1
<1>3. SendRow(j)'
  <2>1. accepted'[j] <= 1
    OBVIOUS
  <2>2. \A u \in Tokens : <<j, u>> \notin net'
    BY <1>2
  <2> QED
    BY <1>1, <2>1, <2>2 DEF SendRow
<1>4. SendFacts(j)
  BY DEF SendInv
<1> QED
  BY <1>1, <1>2, <1>3, <1>4 DEF SendFacts, Untouched

\* Every step keeps rows, wire, recorded facts and Telegram in agreement.
LEMMA SendStep ==
    ASSUME TypeInv, FenceInv, SendInv, Next
    PROVE  SendInv'
<1> USE DEF durable, volatile, provider
<1> SUFFICES ASSUME NEW j \in SendJobs PROVE SendRow(j)' /\ SendFacts(j)'
  BY DEF SendInv
<1>1. j \in Jobs /\ SendRow(j) /\ SendFacts(j) /\ job[j] \in JobRows
  BY JobConstants DEF SendInv, TypeInv, TypeOK
<1>2. slot \in [Slots -> SlotStates] /\ accepted \in [Jobs -> Nat]
  BY DEF TypeInv, TypeOK
<1>3. ASSUME NEW s \in Slots, ProviderAnswers(s)
      PROVE  SendRow(j)' /\ SendFacts(j)'
  <2> DEFINE k == slot[s].job
             t == slot[s].token
  <2>1. k \in Jobs /\ t \in Tokens /\ slot[s].pc = "calling"
    BY <1>3 DEF ProviderAnswers, TypeInv, SlotsHoldJobs
  <2>2. PICK f \in PossibleFacts(k) :
          /\ f \notin UncertainFacts => <<k, t>> \in net
          /\ net' = IF f \in UncertainFacts THEN net ELSE net \ {<<k, t>>}
          /\ accepted' = IF f \in AcceptedFacts
                         THEN [accepted EXCEPT ![k] = @ + 1] ELSE accepted
          /\ slot' = [slot EXCEPT ![s].pc = "answered", ![s].fact = f]
    BY <1>3 DEF ProviderAnswers
  <2>3. job' = job /\ outcome' = outcome
    BY <1>3 DEF ProviderAnswers
  <2>4. \A x \in Slots : x # s => slot'[x] = slot[x]
    BY <1>2, <2>2
  <2>5. slot'[s].job = k /\ slot'[s].token = t /\ slot'[s].fact = f
    BY <1>2, <2>2 DEF SlotStates
  <2>6. CASE j # k \/ f \in UncertainFacts
    <3>1. accepted'[j] = accepted[j]
      BY <1>1, <1>2, <2>1, <2>2, <2>6 DEF AcceptedFacts, UncertainFacts
    <3>2. /\ \A u \in Tokens : <<j, u>> \in net' <=> <<j, u>> \in net
          /\ Untouched(j) => Untouched(j)'
      BY <2>2, <2>6, <3>1 DEF Untouched
    <3>3. SendRow(j)'
      BY <1>1, <2>3, <3>1, <3>2 DEF SendRow
    <3>4. j = k => f \notin AcceptedFacts /\ f \notin RefusedFacts
      BY <2>6 DEF AcceptedFacts, UncertainFacts, RefusedFacts
    <3> QED
      BY <1>1, <2>3, <2>4, <2>5, <3>1, <3>2, <3>3, <3>4 DEF SendFacts
  <2>7. CASE j = k /\ f \notin UncertainFacts
    <3>1. accepted[j] = 0
      BY <2>1, <2>2, <2>7, OnTheWire
    <3>2. /\ accepted'[j] \in {0, 1}
          /\ f \in AcceptedFacts <=> accepted'[j] = 1
      BY <1>1, <1>2, <2>2, <2>7, <3>1
    <3>3. net' = net \ {<<j, t>>} /\ <<j, t>> \in net
      BY <2>2, <2>7
    <3>4. /\ SendRow(j)'
          /\ accepted'[j] = 0 => Untouched(j)'
          /\ \A u \in Tokens : outcome[j][u].fact \notin AcceptedFacts
          /\ \A u \in Tokens : u = job[j].token => outcome[j][u].fact \notin RefusedFacts
          /\ \A x \in Slots : slot[x].pc = "answered" /\ slot[x].job = j =>
                 /\ slot[x].fact \notin AcceptedFacts
                 /\ slot[x].token = job[j].token => slot[x].fact \notin RefusedFacts
      BY <2>1, <2>3, <3>2, <3>3, Landing
    <3>5. f \in RefusedFacts => f \notin AcceptedFacts
      BY DEF RefusedFacts
    <3> QED
      BY <2>3, <2>4, <2>5, <3>2, <3>4, <3>5 DEF SendFacts
  <2> QED
    BY <2>6, <2>7
<1>4. ASSUME NEW k \in Jobs, NEW t \in Tokens, RequestLands(<<k, t>>)
      PROVE  SendRow(j)' /\ SendFacts(j)'
  <2>1. /\ <<k, t>> \in net /\ net' = net \ {<<k, t>>}
        /\ accepted' = [accepted EXCEPT ![k] = @ + 1] \/ accepted' = accepted
        /\ job' = job /\ outcome' = outcome /\ slot' = slot
    BY <1>4 DEF RequestLands
  <2>2. CASE j # k
    <3>1. accepted'[j] = accepted[j]
      BY <1>1, <1>2, <2>1, <2>2
    <3>2. /\ \A u \in Tokens : <<j, u>> \in net' <=> <<j, u>> \in net
          /\ Untouched(j) => Untouched(j)'
      BY <2>1, <2>2, <3>1 DEF Untouched
    <3> QED
      BY <1>1, <2>1, <3>1, <3>2 DEF SendRow, SendFacts
  <2>3. CASE j = k
    <3>1. accepted[j] = 0
      BY <2>1, <2>3, OnTheWire
    <3>2. accepted'[j] \in {0, 1}
      BY <1>1, <1>2, <2>1, <2>3, <3>1
    <3>3. /\ SendRow(j)'
          /\ \A u \in Tokens : outcome[j][u].fact \notin AcceptedFacts
          /\ \A u \in Tokens : u = job[j].token => outcome[j][u].fact \notin RefusedFacts
          /\ \A x \in Slots : slot[x].pc = "answered" /\ slot[x].job = j =>
                 /\ slot[x].fact \notin AcceptedFacts
                 /\ slot[x].token = job[j].token => slot[x].fact \notin RefusedFacts
      BY <2>1, <2>3, <3>2, Landing
    <3> QED
      BY <2>1, <3>3 DEF SendFacts
  <2> QED
    BY <2>2, <2>3
<1>5. ASSUME NEW s \in Slots, MarkDispatchStarted(s)
      PROVE  SendRow(j)' /\ SendFacts(j)'
  <2> DEFINE k == slot[s].job
             t == slot[s].token
  <2>1. /\ k \in Jobs /\ t \in Tokens /\ job[k].state = "leased" /\ ~job[k].started
        /\ job'[k] = [job[k] EXCEPT !.started = TRUE, !.probe = slot[s].probe]
        /\ \A i \in Jobs : i # k => job'[i] = job[i]
        /\ slot[s].pc = "marking"
    BY <1>5, MarkEffect DEF TypeInv, SlotsHoldJobs
  <2>2. /\ job[k].token = t
        /\ net' = net \cup {<<k, t>>} \/ net' = net
        /\ accepted' = accepted /\ outcome' = outcome
    BY <1>5 DEF MarkDispatchStarted, MayMark, HoldsLease
  <2>3. \A x \in Slots : slot'[x].pc = "answered" => slot[x] = slot'[x]
    <3> SUFFICES ASSUME NEW x \in Slots, slot'[x].pc = "answered" PROVE slot[x] = slot'[x]
      OBVIOUS
    <3>1. slot[x] \in SlotStates
      BY <1>2
    <3>2. \/ slot'[x] = slot[x]
          \/ slot'[x] = IdleSlot
          \/ \E pc \in {"calling", "entered"} : slot'[x] = [slot[x] EXCEPT !.pc = pc]
      BY <1>5 DEF MarkDispatchStarted
    <3> QED
      BY <3>1, <3>2 DEF IdleSlot, SlotStates
  <2>4. CASE j # k
    <3>1. /\ \A u \in Tokens : <<j, u>> \in net' <=> <<j, u>> \in net
          /\ Untouched(j) => Untouched(j)'
          /\ job'[j] = job[j]
      BY <1>1, <2>1, <2>2, <2>4 DEF Untouched
    <3> QED
      BY <1>1, <2>2, <2>3, <3>1 DEF SendRow, SendFacts
  <2>5. CASE j = k
    <3>1. Untouched(j) /\ Unused(j, t)
      BY <1>1, <2>1, <2>2, <2>5 DEF SendRow, MayHaveSent, Unused
    <3>2. job'[j].state = "leased" /\ job'[j].started /\ job'[j].token = t
      BY <1>1, <2>1, <2>2, <2>5 DEF JobRows
    <3>3. \A u \in Tokens : <<j, u>> \in net' => u = t
      BY <2>2, <2>5, <3>1 DEF Untouched
    <3>4. SendRow(j)'
      <4>1. accepted'[j] = 0
        BY <2>2, <3>1 DEF Untouched
      <4>2. 0 <= 1
        OBVIOUS
      <4> QED
        BY <3>2, <3>3, <4>1, <4>2 DEF SendRow, MayHaveSent
    <3>5. outcome[j][t].fact = "none" /\ "none" \notin RefusedFacts
      BY <1>1, <2>1, <3>1 DEF FenceInv, OutcomeFences, RefusedFacts, AllFacts
    <3>6. \A x \in Slots : slot[x].pc = "answered" /\ slot[x].job = j => slot[x].token # t
      BY <3>1 DEF FenceInv, SlotFences
    <3> QED
      BY <1>1, <2>2, <2>3, <3>2, <3>4, <3>5, <3>6 DEF SendFacts
  <2> QED
    BY <2>4, <2>5
<1>6. ASSUME NEW s \in Slots, ClaimNext(s)
      PROVE  SendRow(j)' /\ SendFacts(j)'
  <2>1. PICK k \in Jobs :
          /\ job[k].state \in CLAIMABLE_DELIVERY_STATES
          /\ job'[k].state = "leased" /\ ~job'[k].started
          /\ \A i \in Jobs : i # k => job'[i] = job[i]
          /\ \A x \in Slots : x # s => slot'[x] = slot[x]
          /\ slot'[s].pc \in {"idle", "claimed"}
    BY <1>6, ClaimEffect
  <2>2. outcome' = outcome /\ net' = net /\ accepted' = accepted
    BY <1>6 DEF ClaimNext
  <2>3. \A x \in Slots : slot'[x].pc = "answered" => slot[x] = slot'[x]
    BY <2>1
  <2>4. Untouched(j)' <=> Untouched(j)
    BY <2>2 DEF Untouched
  <2>5. CASE j # k
    BY <1>1, <2>1, <2>2, <2>3, <2>4, <2>5 DEF SendRow, SendFacts
  <2>6. CASE j = k
    <3>1. Untouched(j)
      BY <1>1, <2>1, <2>6 DEF SendRow, MayHaveSent, CLAIMABLE_DELIVERY_STATES
    <3>2. SendRow(j)'
      BY <1>1, <2>1, <2>2, <2>4, <2>6, <3>1 DEF SendRow, Untouched
    <3> QED
      BY <1>1, <2>2, <2>3, <2>4, <3>1, <3>2 DEF SendFacts
  <2> QED
    BY <2>5, <2>6
<1>7. ASSUME \A s \in Slots : /\ ~MarkDispatchStarted(s) /\ ~ClaimNext(s)
                              /\ ~ProviderAnswers(s),
             net' = net, accepted' = accepted
      PROVE  SendRow(j)' /\ SendFacts(j)'
  <2>1. Calm(job[j], job'[j]) /\ Honest(j, job'[j])
    BY <1>1, <1>7, SoundStep DEF Sound
  <2>2. (Untouched(j)' <=> Untouched(j)) /\ job'[j].token = job[j].token
    BY <1>7, <2>1 DEF Untouched, Calm
  <2>3. SendRow(j)'
    BY <1>1, <1>7, <2>1, <2>2 DEF SendRow, Honest
  <2>4. ASSUME NEW u \in Tokens
        PROVE  /\ outcome'[j][u].fact \in AcceptedFacts => accepted[j] = 1
               /\ outcome'[j][u].fact \in RefusedFacts /\ u = job[j].token
                    => Untouched(j)
    <3>1. CASE outcome'[j][u].fact = outcome[j][u].fact
      BY <1>1, <3>1 DEF SendFacts
    <3>2. ASSUME NEW s \in Slots, RecordProviderOutcome(s), slot[s].job = j,
                 slot[s].token = u, outcome'[j][u].fact = slot[s].fact
          PROVE  /\ outcome'[j][u].fact \in AcceptedFacts => accepted[j] = 1
                 /\ outcome'[j][u].fact \in RefusedFacts /\ u = job[j].token
                      => Untouched(j)
      BY <1>1, <3>2 DEF SendFacts, RecordProviderOutcome
    <3> QED
      BY <1>1, <3>1, <3>2, OutcomeMove
  <2>5. ASSUME NEW x \in Slots, slot'[x].pc = "answered"
        PROVE  /\ slot[x].pc = "answered" /\ slot'[x].fact = slot[x].fact
               /\ slot'[x].job = slot[x].job /\ slot'[x].token = slot[x].token
    BY <1>7, <2>5, SlotMove DEF GoesOn
  <2> QED
    BY <1>1, <1>7, <2>2, <2>3, <2>4, <2>5 DEF SendFacts
<1>8. \/ net' = net /\ accepted' = accepted
      \/ \E s \in Slots : MarkDispatchStarted(s) \/ ProviderAnswers(s)
      \/ \E k \in Jobs, t \in Tokens : RequestLands(<<k, t>>)
  <2>1. ASSUME NEW s \in Slots, SlotStep(s)
        PROVE  \/ net' = net /\ accepted' = accepted
               \/ MarkDispatchStarted(s) \/ ProviderAnswers(s)
    BY <2>1
    DEF SlotStep, BeginCycle, ClaimNext, NothingToClaim, ProceedAfterClaim,
        EnterDispatch, DeferForRetainedFact, CheckFreshness, LimiterAdmits,
        DeferDispatch, PredispatchError, ReadDispatchGate, MarkStale,
        RecordProviderOutcome, RejectFact, ApplyInSlot, CancelSlot
  <2>2. ASSUME NEW i \in Jobs, JobStep(i)
        PROVE  net' = net /\ accepted' = accepted
    BY <2>2
    DEF JobStep, Enqueue, Reconcile, OperatorResolves, ReconcileReady,
        LeaseExpires, RetryDue, CooldownEnds, RateLimitWindowEnds
  <2> QED
    BY <2>1, <2>2
    DEF Next, Replay, RecoveryCheck, RecoverExpiredLeases, Shutdown, Restart, Crash
<1> QED
  BY <1>3, <1>4, <1>5, <1>6, <1>7, <1>8

SafetyInv == TypeInv /\ FenceInv /\ SendInv

\* Types, fences and agreement hold in every reachable state.
LEMMA SafetyInvariant == Spec => []SafetyInv
<1>1. Init => SafetyInv
  <2> SUFFICES ASSUME Init PROVE SafetyInv
    OBVIOUS
  <2>1. TypeInv
    BY InitType
  <2>2. /\ \A s \in Slots : slot[s].pc = "idle"
        /\ \A j \in Jobs : job[j].state = "absent" /\ job[j].token = 0
        /\ \A j \in Jobs, t \in Tokens : outcome[j][t].fact = "none"
                                         /\ outcome[j][t].apply = "none"
        /\ net = {} /\ \A j \in Jobs : accepted[j] = 0
    BY DEF Init, IdleSlot, AbsentRow, NoOutcome
  <2>3. FenceInv
    BY <2>2 DEF FenceInv, SlotFences, OutcomeFences, DoubtIsStarted, AbsentUnused
  <2>4. ASSUME NEW j \in SendJobs PROVE SendRow(j) /\ SendFacts(j)
    <3>1. Untouched(j) /\ accepted[j] <= 1 /\ job[j].state # "sent"
      BY <2>2, JobConstants DEF Untouched
    <3>2. "none" \notin AcceptedFacts \cup RefusedFacts
      BY DEF AcceptedFacts, RefusedFacts, AllFacts
    <3> QED
      BY <2>2, <3>1, <3>2, JobConstants DEF SendRow, SendFacts
  <2> QED
    BY <2>1, <2>3, <2>4 DEF SafetyInv, SendInv
<1>2. SafetyInv /\ [Next]_vars => SafetyInv'
  <2> SUFFICES ASSUME SafetyInv, [Next]_vars PROVE SafetyInv'
    OBVIOUS
  <2>1. CASE Next
    BY <2>1, StepType, FenceStep, SendStep DEF SafetyInv
  <2>2. CASE UNCHANGED vars
    <3>1. TypeInv'
      BY StepType DEF SafetyInv
    <3>2. FenceInv'
      BY <2>2 DEF vars, SafetyInv, FenceInv, SlotFences, OutcomeFences,
                  DoubtIsStarted, AbsentUnused, Unused
    <3>3. SendInv'
      BY <2>2 DEF vars, SafetyInv, SendInv, SendRow, SendFacts, Untouched
    <3> QED
      BY <3>1, <3>2, <3>3 DEF SafetyInv
  <2> QED
    BY <2>1, <2>2
<1> QED
  BY <1>1, <1>2, PTL DEF Spec

\* Telegram carries out a non-idempotent send at most once, for any number of
\* slots, jobs, crashes and restarts and for every answer and loss: the lease
\* token fences the call, its answer, its recorded outcome and its recovery.
THEOREM SendsHappenOnce == Spec => []NoDuplicateSend
<1>1. SafetyInv => NoDuplicateSend
  BY DEF SafetyInv, SendInv, SendRow, NoDuplicateSend
<1> QED
  BY <1>1, SafetyInvariant, PTL

\* A send's row never says "sent" of a message Telegram does not have, and
\* never offers for another try, parks or gives up one that it has or may
\* still get.
THEOREM RowsTellTheTruth == Spec => []RowAgreesWithTelegram
<1>1. SafetyInv => RowAgreesWithTelegram
  BY DEF SafetyInv, SendInv, SendRow, RowAgreesWithTelegram, MayHaveSent, Untouched,
         CLAIMABLE_DELIVERY_STATES, BlockedStates, FINAL_DELIVERY_STATES
<1> QED
  BY <1>1, SafetyInvariant, PTL

-----------------------------------------------------------------------------
(* The queue implements its promise *)

\* A row's phase, read off its state.
LEMMA PhaseOf ==
    ASSUME NEW r
    PROVE  /\ Phase(r) \in Promise!Phases
           /\ Phase(r) = "turn" <=> InFlight(r)
           /\ Phase(r) = "delivered" <=> r.state = "sent"
           /\ Phase(r) = "parked" <=> r.state \in BlockedStates
           /\ Phase(r) = "dropped" <=> r.state \in FINAL_DELIVERY_STATES \ {"sent"}
<1>1. InFlight(r) => r.state \notin BlockedStates \cup FINAL_DELIVERY_STATES
  BY DEF InFlight, UnresolvedDestinationStates, BlockedStates, FINAL_DELIVERY_STATES
<1>2. CASE InFlight(r)
  <2>1. Phase(r) = "turn"
    BY <1>1, <1>2 DEF Phase, FINAL_DELIVERY_STATES
  <2>2. r.state # "sent"
    BY <1>1, <1>2 DEF FINAL_DELIVERY_STATES
  <2> QED
    BY <1>1, <1>2, <2>1, <2>2 DEF Promise!Phases
<1>3. CASE ~InFlight(r)
  <2>1. Phase(r) = IF r.state = "sent" THEN "delivered"
                   ELSE IF r.state \in BlockedStates THEN "parked"
                   ELSE IF r.state \in FINAL_DELIVERY_STATES THEN "dropped"
                   ELSE "waiting"
    BY <1>3 DEF Phase, BlockedStates, FINAL_DELIVERY_STATES
  <2>2. \A x \in BlockedStates : x \notin FINAL_DELIVERY_STATES
    BY DEF BlockedStates, FINAL_DELIVERY_STATES
  <2>3. "sent" \notin BlockedStates
    BY DEF BlockedStates
  <2> QED
    BY <1>3, <2>1, <2>2, <2>3 DEF Promise!Phases
<1> QED
  BY <1>2, <1>3

\* A row's phase moves as the promise lets it, its turn being over or dropped
\* while it waits.
Orderly(r, q) == \/ Phase(q) = Phase(r)
                 \/ Phase(r) = "turn"
                 \/ Phase(r) = "waiting" /\ Phase(q) = "dropped"

\* A row whose call is not in flight, with a state that is waiting or given up.
LEMMA OrderlyWait ==
    ASSUME NEW r, NEW q, ~InFlight(q),
           r.state \in {"absent", "leased", "pending_reconcile"}
                         \cup CLAIMABLE_DELIVERY_STATES,
           q.state \in {"leased", "pending_reconcile"} \cup CLAIMABLE_DELIVERY_STATES
                         \cup (FINAL_DELIVERY_STATES \ {"sent"})
    PROVE  Orderly(r, q)
<1>1. Phase(r) \in {"turn", "waiting"}
  BY DEF Phase, CLAIMABLE_DELIVERY_STATES, BlockedStates, FINAL_DELIVERY_STATES
<1>2. Phase(q) \in {"waiting", "dropped"}
  BY DEF Phase, CLAIMABLE_DELIVERY_STATES, BlockedStates, FINAL_DELIVERY_STATES
<1> QED
  BY <1>1, <1>2 DEF Orderly

\* The passing of a deadline changes no phase.
LEMMA OrderlyTime ==
    ASSUME NEW r \in JobRows,
           NEW q, q \in {r, [r EXCEPT !.lease = "expired"], [r EXCEPT !.due = TRUE],
                         [r EXCEPT !.cooldown = FALSE], [r EXCEPT !.recent = FALSE]}
    PROVE  Orderly(r, q)
<1>1. q.state = r.state /\ q.started = r.started
  BY DEF JobRows
<1> QED
  BY <1>1 DEF Orderly, Phase, InFlight

\* A freshness verdict leaves a waiting row waiting or drops it.
LEMMA OrderlyVerdict ==
    ASSUME NEW r \in JobRows, NEW v \in Verdicts \ {"send"}
    PROVE  /\ r.state = "leased" /\ ~r.started => Orderly(r, Refreshed(r, v))
           /\ r.state \in CLAIMABLE_DELIVERY_STATES \cup {"pending_reconcile"}
                => Orderly(r, ReconciledByFreshness(r, v))
<1>1. FreshnessState(v) \in {"pending_retry", "pending_reconcile"}
                              \cup (FINAL_DELIVERY_STATES \ {"sent"})
  BY JobConstants DEF FreshnessState, AllVerdicts, FINAL_DELIVERY_STATES
<1>2. /\ Refreshed(r, v).state = FreshnessState(v)
      /\ Refreshed(r, v).started = r.started
      /\ ReconciledByFreshness(r, v).state = FreshnessState(v)
      /\ ~ReconciledByFreshness(r, v).started
  BY DEF ReconciledByFreshness, Refreshed, Unleased, JobRows
<1>3. ~InFlight(ReconciledByFreshness(r, v))
  BY <1>2 DEF InFlight
<1>4. ~r.started => ~InFlight(Refreshed(r, v))
  BY <1>2 DEF InFlight
<1> QED
  BY <1>1, <1>2, <1>3, <1>4, OrderlyWait DEF CLAIMABLE_DELIVERY_STATES

\* So does reconciliation, unless it ends a turn.
LEMMA OrderlyReconcile ==
    ASSUME NEW r \in JobRows, NEW v \in Verdicts, NEW j \in Jobs,
           r.state = "pending_reconcile"
    PROVE  Orderly(r, Reconciled(r, j, v))
<1>1. Orderly(r, SafeRetry(r))
  <2>1. SafeRetry(r).state = "pending_retry"
    BY DEF SafeRetry, Unleased, JobRows
  <2>2. ~InFlight(SafeRetry(r))
    BY <2>1 DEF InFlight, UnresolvedDestinationStates
  <2> QED
    BY <2>1, <2>2, OrderlyWait DEF CLAIMABLE_DELIVERY_STATES
<1>2. Orderly(r, UnsafeReconcile(r))
  <2>1. UnsafeReconcile(r).state = "quarantined"
    BY DEF UnsafeReconcile, Unleased, JobRows
  <2>2. ~InFlight(UnsafeReconcile(r))
    BY <2>1 DEF InFlight, UnresolvedDestinationStates
  <2> QED
    BY <2>1, <2>2, OrderlyWait DEF FINAL_DELIVERY_STATES
<1>3. v # "send" => Orderly(r, ReconciledByFreshness(r, v))
  BY OrderlyVerdict
<1> QED
  BY <1>1, <1>2, <1>3 DEF Reconciled

\* Every step but a marker moves the phase of one row, and orderly.
LEMMA OrderlyStep ==
    ASSUME TypeInv, FenceInv, Next, \A s \in Slots : ~MarkDispatchStarted(s)
    PROVE  \/ \A k \in Jobs : Phase(job'[k]) = Phase(job[k])
           \/ \E j \in Jobs : /\ Orderly(job[j], job'[j])
                              /\ \A k \in Jobs : k # j => job'[k] = job[k]
<1> DEFINE Goal == \/ \A k \in Jobs : Phase(job'[k]) = Phase(job[k])
                   \/ \E j \in Jobs : /\ Orderly(job[j], job'[j])
                                      /\ \A k \in Jobs : k # j => job'[k] = job[k]
<1> USE DEF durable, volatile, provider
<1>1. /\ job \in [Jobs -> JobRows]
      /\ \A k \in Jobs : job[k] \in JobRows /\ (InDoubt(job[k]) => job[k].started)
  BY DEF TypeInv, TypeOK, FenceInv, DoubtIsStarted, InDoubt
<1>2. CASE UNCHANGED job
  BY <1>2
<1>3. ASSUME NEW j \in Jobs, NEW q, Orderly(job[j], q), SetJob(j, q)
      PROVE  Goal
  <2>1. job'[j] = q /\ \A k \in Jobs : k # j => job'[k] = job[k]
    BY <1>1, <1>3 DEF SetJob
  <2> QED
    BY <1>3, <2>1
<1>4. ASSUME NEW r, InFlight(r), NEW q PROVE Orderly(r, q)
  BY <1>4, PhaseOf DEF Orderly
<1>5. \A k \in Jobs : Orderly(job[k], job[k])
  BY DEF Orderly
<1>6. ASSUME NEW j \in Jobs, NEW t \in Tokens, ApplyProviderOutcome(j, t)
      PROVE  Goal
  <2>1. CASE MayApply(j, t)
    <3>1. InFlight(job[j])
      BY <2>1 DEF MayApply, InFlight
    <3>2. SetJob(j, Resolved(job, j, outcome[j][t].fact))
      BY <1>6, <2>1 DEF ApplyProviderOutcome
    <3> QED
      BY <1>3, <1>4, <3>1, <3>2
  <2>2. CASE ~MayApply(j, t)
    BY <1>2, <1>6, <2>2 DEF ApplyProviderOutcome
  <2> QED
    BY <2>1, <2>2
<1>7. ASSUME NEW s \in Slots, SlotStep(s)
      PROVE  Goal
  <2> DEFINE j == slot[s].job
  <2>1. slot[s].pc \notin {"idle", "cycle"} => j \in Jobs /\ slot[s].token \in Tokens
    BY DEF TypeInv, SlotsHoldJobs
  <2>2. ASSUME slot[s].pc \notin {"idle", "cycle"}, DeferUnstarted(s)
        PROVE  Goal
    <3>1. HoldsLease(job[j], s, slot[s].token) => Orderly(job[j], Deferred(job[j]))
      <4>1. Deferred(job[j]).state = "pending_retry"
        BY <1>1, <2>1, <2>2 DEF Deferred, Unleased, JobRows
      <4>2. ~InFlight(Deferred(job[j]))
        BY <4>1 DEF InFlight, UnresolvedDestinationStates
      <4> QED
        BY <4>1, <4>2, OrderlyWait DEF HoldsLease, CLAIMABLE_DELIVERY_STATES
    <3> QED
      BY <1>3, <1>5, <2>1, <2>2, <3>1 DEF DeferUnstarted
  <2>3. CASE ClaimNext(s)
    <3>1. PICK i \in Jobs : Claimable(i, Lane[s]) /\ SetJob(i, Leased(job[i], s))
      BY <2>3 DEF ClaimNext
    <3>2. Leased(job[i], s).state = "leased" /\ ~Leased(job[i], s).started
      BY <1>1 DEF Leased, JobRows
    <3>3. Orderly(job[i], Leased(job[i], s))
      BY <3>1, <3>2, OrderlyWait DEF InFlight, Claimable
    <3> QED
      BY <1>3, <3>1, <3>3
  <2>4. CASE CheckFreshness(s)
    <3>1. slot[s].pc \in BeforeDispatch /\ slot[s].pc \notin {"idle", "cycle"}
      BY <2>4 DEF CheckFreshness, BeforeDispatch
    <3>2. PICK v \in Verdicts :
             \/ UNCHANGED job
             \/ /\ v # "send"
                /\ SetJob(j, IF HoldsLease(job[j], s, slot[s].token)
                             THEN Refreshed(job[j], v) ELSE job[j])
      BY <2>4 DEF CheckFreshness
    <3>3. HoldsLease(job[j], s, slot[s].token)
            => job[j].state = "leased" /\ ~job[j].started
      BY <3>1 DEF FenceInv, SlotFences, HoldsLease
    <3>4. HoldsLease(job[j], s, slot[s].token) /\ v # "send"
            => Orderly(job[j], Refreshed(job[j], v))
      BY <1>1, <2>1, <3>1, <3>3, OrderlyVerdict
    <3> QED
      BY <1>2, <1>3, <1>5, <2>1, <3>1, <3>2, <3>4
  <2>5. CASE DeferForRetainedFact(s) \/ DeferDispatch(s)
    BY <2>2, <2>5 DEF DeferForRetainedFact, DeferDispatch
  <2>6. CASE PredispatchError(s)
    BY <1>2, <2>2, <2>6 DEF PredispatchError, BeforeDispatch
  <2>7. CASE ApplyInSlot(s)
    BY <1>2, <1>6, <2>1, <2>7 DEF ApplyInSlot
  <2> QED
    BY <1>2, <1>7, <2>3, <2>4, <2>5, <2>6, <2>7
    DEF SlotStep, BeginCycle, NothingToClaim, ProceedAfterClaim, EnterDispatch,
        LimiterAdmits, ReadDispatchGate, MarkStale, ProviderAnswers,
        RecordProviderOutcome, RejectFact, CancelSlot
<1>8. ASSUME NEW j \in Jobs, JobStep(j)
      PROVE  Goal
  <2>1. CASE Enqueue(j)
    <3>1. PICK due \in BOOLEAN :
             SetJob(j, [AbsentRow EXCEPT !.state = "pending", !.due = due])
      BY <2>1 DEF Enqueue
    <3> DEFINE q == [AbsentRow EXCEPT !.state = "pending", !.due = due]
    <3>2. q.state = "pending"
      BY DEF AbsentRow
    <3> HIDE DEF q
    <3>3. ~InFlight(q)
      BY <3>2 DEF InFlight, UnresolvedDestinationStates
    <3>4. Orderly(job[j], q)
      BY <2>1, <3>2, <3>3, OrderlyWait DEF Enqueue, CLAIMABLE_DELIVERY_STATES
    <3> QED
      BY <1>3, <3>1, <3>4 DEF q
  <2>2. InDoubt(job[j]) => InFlight(job[j])
    BY <1>1 DEF InDoubt, InFlight, UnresolvedDestinationStates
  <2>3. CASE Reconcile(j)
    <3>1. CASE job[j].state = "ambiguous" /\ SetJob(j, Escalated(job[j]))
      BY <1>3, <1>4, <2>2, <3>1 DEF InDoubt
    <3> QED
      BY <1>1, <1>3, <2>3, <3>1, OrderlyReconcile DEF Reconcile
  <2>4. CASE OperatorResolves(j)
    BY <1>3, <1>4, <2>2, <2>4 DEF OperatorResolves, InDoubt
  <2>5. CASE ReconcileReady(j)
    BY <1>1, <1>3, <2>5, OrderlyVerdict DEF ReconcileReady
  <2>6. CASE LeaseExpires(j) \/ RetryDue(j) \/ CooldownEnds(j) \/ RateLimitWindowEnds(j)
    BY <1>1, <1>3, <2>6, OrderlyTime
    DEF LeaseExpires, RetryDue, CooldownEnds, RateLimitWindowEnds
  <2> QED
    BY <1>8, <2>1, <2>3, <2>4, <2>5, <2>6 DEF JobStep
<1>9. ASSUME NEW j \in Jobs, NEW t \in Tokens, Replay(j, t)
      PROVE  Goal
  BY <1>6, <1>9 DEF Replay
<1>10. CASE RecoverExpiredLeases
  <2>1. ASSUME NEW k \in ExpiredLeases PROVE Phase(Recovered(job[k], k)) = Phase(job[k])
    <3>1. k \in Jobs /\ job[k].state = "leased"
      BY DEF ExpiredLeases
    <3>2. /\ Recovered(job[k], k).state = RecoveredState(job[k], k)
          /\ Recovered(job[k], k).started = job[k].started
      BY <1>1, <3>1 DEF Recovered, Unleased, JobRows
    <3>3. CASE job[k].started
      <4>1. RecoveredState(job[k], k) \in UnresolvedDestinationStates
        BY <3>3 DEF RecoveredState, UnresolvedDestinationStates
      <4> QED
        BY <3>1, <3>2, <3>3, <4>1, PhaseOf DEF InFlight
    <3>4. CASE ~job[k].started
      <4>1. RecoveredState(job[k], k) = "pending_retry"
        BY <3>4 DEF RecoveredState
      <4> QED
        BY <3>1, <3>2, <3>4, <4>1
        DEF Phase, InFlight, BlockedStates, FINAL_DELIVERY_STATES
    <3> QED
      BY <3>3, <3>4
  <2> QED
    BY <1>1, <1>10, <2>1 DEF RecoverExpiredLeases, ExpiredLeases
<1> QED
  BY <1>2, <1>7, <1>8, <1>9, <1>10
  DEF Next, RequestLands, RecoveryCheck, Shutdown, Restart, Crash

\* What a row says of a send outside its turn is exactly what happened.
LEMMA TurnsEndTruly ==
    ASSUME SafetyInv, NEW j \in SendJobs, Phase(job[j]) # "turn"
    PROVE  Phase(job[j]) = "delivered" <=> accepted[j] > 0
<1>1. SendRow(j) /\ (InDoubt(job[j]) => job[j].started)
  BY JobConstants DEF SafetyInv, SendInv, FenceInv, DoubtIsStarted, InDoubt
<1>2. ~InFlight(job[j])
  BY PhaseOf
<1>3. CASE job[j].state = "sent"
  BY <1>1, <1>3, PhaseOf DEF SendRow
<1>4. CASE job[j].state # "sent"
  <2>1. ~MayHaveSent(job[j])
    BY <1>1, <1>2, <1>4 DEF MayHaveSent, InDoubt, InFlight, UnresolvedDestinationStates
  <2>2. accepted[j] = 0
    BY <1>1, <2>1 DEF SendRow, Untouched
  <2> QED
    BY <1>4, <2>2, PhaseOf
<1> QED
  BY <1>3, <1>4

\* The queue implements the promise made to the feeders: turns at a
\* destination exclude each other, a send lands only in its turn and once, and
\* the turn ends as delivered exactly when it landed.
THEOREM QueueKeepsPromise == Spec => PromiseKept
<1> DEFINE phase == [j \in Jobs |-> Phase(job[j])]
           landed == {j \in SendJobs : accepted[j] > 0}
<1>1. Init => Promise!Init
  BY JobConstants
  DEF Init, Promise!Init, Phase, InFlight, AbsentRow, BlockedStates,
      FINAL_DELIVERY_STATES
<1>2. SafetyInv /\ SafetyInv' /\ GateInv /\ [Next]_vars
        => [Promise!Next]_<<phase, landed>>
  <2> SUFFICES ASSUME SafetyInv, SafetyInv', GateInv, [Next]_vars
               PROVE  Promise!Next \/ (phase' = phase /\ landed' = landed)
    OBVIOUS
  <2>1. TypeInv /\ FenceInv /\ SendInv /\ SendJobs \subseteq Jobs
    BY JobConstants DEF SafetyInv
  <2>2. accepted \in [Jobs -> Nat]
    BY <2>1 DEF TypeInv, TypeOK
  <2>3. CASE UNCHANGED vars
    BY <2>3 DEF vars
  <2>4. ASSUME NEW k \in Jobs, NEW t \in Tokens, <<k, t>> \in net, job' = job,
               accepted' = [accepted EXCEPT ![k] = @ + 1]
        PROVE  Promise!Next \/ (phase' = phase /\ landed' = landed)
    <3>1. phase' = phase
      BY <2>4
    <3>2. CASE k \in SendJobs
      <4>1. accepted[k] = 0 /\ MayHaveSent(job[k]) /\ job[k].state # "sent"
        BY <2>1, <2>4, <3>2, OnTheWire
      <4>2. InFlight(job[k])
        BY <2>1, <4>1
        DEF MayHaveSent, InFlight, UnresolvedDestinationStates, FenceInv, DoubtIsStarted
      <4>3. landed' = landed \cup {k} /\ k \notin landed
        BY <2>1, <2>2, <2>4, <3>2, <4>1
      <4>4. Promise!Land(k)
        BY <2>4, <3>1, <3>2, <4>2, <4>3, PhaseOf DEF Promise!Land
      <4> QED
        BY <4>4 DEF Promise!Next
    <3>3. CASE k \notin SendJobs
      BY <2>1, <2>2, <2>4, <3>1, <3>3
    <3> QED
      BY <3>2, <3>3
  <2>5. ASSUME NEW s \in Slots, MarkDispatchStarted(s)
        PROVE  Promise!Next
    <3> DEFINE k == slot[s].job
    <3>1. /\ k \in Jobs /\ job[k].state = "leased" /\ ~job[k].started
          /\ job'[k] = [job[k] EXCEPT !.started = TRUE, !.probe = slot[s].probe]
          /\ \A i \in Jobs : i # k => job'[i] = job[i]
          /\ slot[s].pc = "marking"
      BY <2>1, <2>5, MarkEffect
    <3>2. landed' = landed
      BY <2>5 DEF MarkDispatchStarted
    <3>3. Phase(job[k]) = "waiting"
      BY <3>1 DEF Phase, InFlight, BlockedStates, FINAL_DELIVERY_STATES
    <3>4. job'[k].state = "leased" /\ job'[k].started
      <4>1. job[k] \in JobRows
        BY <2>1, <3>1 DEF TypeInv, TypeOK
      <4> QED
        BY <3>1, <4>1 DEF JobRows
    <3>5. Phase(job'[k]) = "turn"
      BY <3>4, PhaseOf DEF InFlight
    <3>6. phase' = [phase EXCEPT ![k] = "turn"]
      BY <3>1, <3>5
    <3>7. \A i \in Jobs \ {k} : DestOf[i] = DestOf[k] => phase[i] # "turn"
      BY <3>1, PhaseOf DEF GateInv, MarkingSound, Excludes
    <3>8. Promise!TakeTurn(k)
      BY <3>1, <3>2, <3>3, <3>6, <3>7 DEF Promise!TakeTurn
    <3> QED
      BY <3>1, <3>8 DEF Promise!Next
  <2>6. ASSUME Next, \A s \in Slots : ~MarkDispatchStarted(s), accepted' = accepted
        PROVE  Promise!Next \/ (phase' = phase /\ landed' = landed)
    <3>1. landed' = landed
      BY <2>6
    <3>2. CASE \A k \in Jobs : Phase(job'[k]) = Phase(job[k])
      BY <3>1, <3>2
    <3>3. ASSUME NEW j \in Jobs, Orderly(job[j], job'[j]),
                 \A k \in Jobs : k # j => job'[k] = job[k],
                 Phase(job'[j]) # Phase(job[j])
          PROVE  Promise!Next
      <4>1. phase' = [phase EXCEPT ![j] = Phase(job'[j])]
        BY <3>3
      <4>2. CASE Phase(job[j]) = "turn"
        <5>1. Phase(job'[j]) \in Promise!Phases \ {"turn"}
          BY <3>3, <4>2, PhaseOf
        <5>2. j \in SendJobs => (Phase(job'[j]) = "delivered" <=> j \in landed)
          <6> SUFFICES ASSUME j \in SendJobs
                       PROVE  Phase(job'[j]) = "delivered" <=> accepted[j] > 0
            OBVIOUS
          <6>1. (Phase(job[j]) # "turn")' => (Phase(job[j]) = "delivered" <=> accepted[j] > 0)'
            BY TurnsEndTruly, PTL
          <6> QED
            BY <2>6, <5>1, <6>1
        <5>3. Promise!EndTurn(j)
          BY <3>1, <3>3, <4>1, <4>2, <5>1, <5>2 DEF Promise!EndTurn
        <5> QED
          BY <5>3 DEF Promise!Next
      <4>3. CASE Phase(job[j]) = "waiting" /\ Phase(job'[j]) = "dropped"
        <5>1. Promise!Drop(j)
          BY <3>1, <3>3, <4>1, <4>3 DEF Promise!Drop
        <5> QED
          BY <5>1 DEF Promise!Next
      <4> QED
        BY <3>3, <4>2, <4>3 DEF Orderly
    <3>4. \/ \A k \in Jobs : Phase(job'[k]) = Phase(job[k])
          \/ \E j \in Jobs : /\ Orderly(job[j], job'[j])
                             /\ \A k \in Jobs : k # j => job'[k] = job[k]
      BY <2>1, <2>6, OrderlyStep
    <3> QED
      BY <3>2, <3>3, <3>4
  <2>7. ASSUME Next
        PROVE  \/ accepted' = accepted
               \/ \E k \in Jobs, t \in Tokens :
                    /\ <<k, t>> \in net /\ job' = job
                    /\ accepted' = [accepted EXCEPT ![k] = @ + 1]
    <3> USE DEF durable, volatile, provider
    <3>1. ASSUME NEW s \in Slots, ProviderAnswers(s)
          PROVE  \/ accepted' = accepted
                 \/ \E k \in Jobs, t \in Tokens :
                      /\ <<k, t>> \in net /\ job' = job
                      /\ accepted' = [accepted EXCEPT ![k] = @ + 1]
      <4>1. slot[s].job \in Jobs /\ slot[s].token \in Tokens
        BY <2>1, <3>1 DEF ProviderAnswers, TypeInv, SlotsHoldJobs
      <4> QED
        BY <3>1, <4>1 DEF ProviderAnswers, AcceptedFacts, UncertainFacts
    <3>2. ASSUME NEW s \in Slots, SlotStep(s)
          PROVE  accepted' = accepted \/ ProviderAnswers(s)
      BY <3>2
      DEF SlotStep, BeginCycle, ClaimNext, NothingToClaim, ProceedAfterClaim,
          EnterDispatch, DeferForRetainedFact, CheckFreshness, LimiterAdmits,
          DeferDispatch, PredispatchError, ReadDispatchGate, MarkStale,
          MarkDispatchStarted, RecordProviderOutcome, RejectFact, ApplyInSlot,
          CancelSlot
    <3>3. ASSUME NEW i \in Jobs, JobStep(i) PROVE accepted' = accepted
      BY <3>3
      DEF JobStep, Enqueue, Reconcile, OperatorResolves, ReconcileReady,
          LeaseExpires, RetryDue, CooldownEnds, RateLimitWindowEnds
    <3>4. ASSUME NEW k \in Jobs, NEW t \in Tokens, RequestLands(<<k, t>>)
          PROVE  \/ accepted' = accepted
                 \/ /\ <<k, t>> \in net /\ job' = job
                    /\ accepted' = [accepted EXCEPT ![k] = @ + 1]
      BY <3>4 DEF RequestLands
    <3> QED
      BY <2>7, <3>1, <3>2, <3>3, <3>4
      DEF Next, Replay, RecoveryCheck, RecoverExpiredLeases, Shutdown, Restart, Crash
  <2> QED
    BY <2>3, <2>4, <2>5, <2>6, <2>7
<1> QED
  BY <1>1, <1>2, SafetyInvariant, GateInvariant, PTL
  DEF Spec, PromiseKept, Promise!Spec

-----------------------------------------------------------------------------
(***************************************************************************)
(* A recorded success is never thrown away.  Lease recovery, the two       *)
(* reconciliations, the operator and the replay loop all work on a row     *)
(* whose provider answer is recorded and not yet applied; the argument is  *)
(* that none of them moves such a row out of reach of its answer.          *)
(***************************************************************************)
(* The inductive invariant *)

\* The states in which a row can still take, or has taken, a success
OpenStates == {"leased", "sent"} \cup UnresolvedDestinationStates

\* The jobs whose success counts: the others are not repeated when in doubt, and
\* are given up although Telegram may have done them
CountedJobs == SendJobs \cup RepeatJobs

\* A row whose call was started leaves OpenStates only by a recorded outcome, and a
\* started send is never left to the reconciliation of repeatable methods.
RowEvidence(j) ==
    /\ job[j].started /\ job[j].state \notin OpenStates
         => \A t \in Tokens : t = job[j].token => outcome[j][t] # NoOutcome
    /\ j \in SendJobs /\ job[j].state = "pending_reconcile" => ~job[j].started

\* A recorded success can be applied, or was in vain because the row says "sent".
SuccessKept(j, t) ==
    outcome[j][t].fact = "ok" =>
        /\ outcome[j][t].apply = "pending" => job[j].state = "sent" \/ MayApply(j, t)
        /\ outcome[j][t].apply = "quarantined" => job[j].state = "sent"

\* Telegram has done what an accepting answer says, held by a slot or recorded.
FactsLanded ==
    /\ \A j \in Jobs, t \in Tokens :
          outcome[j][t].fact \in AcceptedFacts => accepted[j] > 0
    /\ \A s \in Slots : slot[s].pc = "answered" /\ slot[s].fact \in AcceptedFacts
                           => accepted[slot[s].job] > 0

SuccessInv ==
    /\ FactsLanded
    /\ \A j \in CountedJobs : RowEvidence(j) /\ \A t \in Tokens : SuccessKept(j, t)

-----------------------------------------------------------------------------
(* What a step does to a row *)

PendingSuccess(j) ==
    \E t \in Tokens : outcome[j][t].apply = "pending" /\ outcome[j][t].fact = "ok"

\* The row can take the answer it could take before
StillTakes(r, q) ==
    \/ q.state = "sent"
    \/ /\ r.state # "sent" /\ q.token = r.token /\ q.started /\ q.worker \in {None, r.worker}
       /\ q.state \in {"leased"} \cup UnresolvedDestinationStates

\* Job j may become q in a step that applies no outcome to it
Mild(j, q) ==
    /\ q.started /\ q.state \notin OpenStates
         => q.token = job[j].token /\ job[j].started /\ job[j].state \notin OpenStates
    /\ j \in SendJobs /\ q.state = "pending_reconcile" => ~q.started
    /\ PendingSuccess(j) => StillTakes(job[j], q)

\* The pending outcome t of job j is applied to its row
Applied(j, t) ==
    /\ outcome[j][t].apply = "pending" /\ MayApply(j, t)
    /\ job' = [job EXCEPT ![j] = Resolved(job, j, outcome[j][t].fact)]
    /\ outcome' = [outcome EXCEPT ![j][t].apply = "applied"]

\* A row with a pending success is sent, or started and not yet settled.
LEMMA PendingRow ==
    ASSUME SuccessInv, NEW j \in CountedJobs, PendingSuccess(j)
    PROVE  /\ accepted[j] > 0
           /\ \/ job[j].state = "sent"
              \/ /\ job[j].started
                 /\ job[j].state \in {"leased"} \cup UnresolvedDestinationStates
<1>1. j \in Jobs
  BY JobConstants DEF CountedJobs
<1> QED
  BY <1>1 DEF PendingSuccess, SuccessInv, FactsLanded, SuccessKept, MayApply, AcceptedFacts

\* A row that is not started and not sent has no pending success, so it may become
\* anything that is not started; the same holds of a row without pending outcome.
LEMMA MildUnstarted ==
    ASSUME SuccessInv, NEW j \in CountedJobs, NEW q, ~q.started,
           \/ ~job[j].started /\ job[j].state # "sent"
           \/ ~PendingOutcome(j)
    PROVE  Mild(j, q)
<1>1. ~PendingSuccess(j)
  BY PendingRow DEF PendingSuccess, PendingOutcome
<1> QED
  BY <1>1 DEF Mild

\* A row that keeps its state and fence is mild.
LEMMA MildSame ==
    ASSUME SuccessInv, NEW j \in CountedJobs, NEW q,
           q.state = job[j].state, q.token = job[j].token, q.started = job[j].started,
           q.worker = job[j].worker
    PROVE  Mild(j, q)
BY PendingRow DEF Mild, StillTakes, SuccessInv, RowEvidence

\* The passing of a deadline is mild.
LEMMA MildTime ==
    ASSUME SuccessInv, NEW j \in CountedJobs, job[j] \in JobRows,
           NEW q, q \in {job[j], [job[j] EXCEPT !.lease = "expired"],
                         [job[j] EXCEPT !.due = TRUE], [job[j] EXCEPT !.cooldown = FALSE],
                         [job[j] EXCEPT !.recent = FALSE]}
    PROVE  Mild(j, q)
<1>1. /\ q.state = job[j].state /\ q.token = job[j].token /\ q.started = job[j].started
      /\ q.worker = job[j].worker
  BY DEF JobRows
<1> QED
  BY <1>1, MildSame

\* Reconciliation touches no row with a pending outcome, and gives up no started one.
LEMMA MildReconcile ==
    ASSUME SuccessInv, NEW j \in CountedJobs, job[j] \in JobRows, ~PendingOutcome(j)
    PROVE  /\ \A v \in Verdicts :
                 /\ job[j].state = "pending_reconcile" => Mild(j, Reconciled(job[j], j, v))
                 /\ Mild(j, ReconciledByFreshness(job[j], v))
           /\ Mild(j, Escalated(job[j]))
           /\ job[j].state = "leased" => Mild(j, Recovered(job[j], j))
<1> DEFINE r == job[j]
<1> USE DEF Unleased, JobRows
<1>1. ~SafeRetry(r).started /\ \A v \in Verdicts : ~ReconciledByFreshness(r, v).started
  BY DEF SafeRetry, ReconciledByFreshness, Refreshed
<1>2. UnsafeReconcile(r).started = r.started
  BY DEF UnsafeReconcile
<1>3. Escalated(r).state = "ambiguous_unresolved"
  BY DEF Escalated
<1>4. /\ Recovered(r, j).started = r.started
      /\ r.started => Recovered(r, j).state = IF j \in SendJobs THEN "ambiguous"
                                              ELSE "pending_reconcile"
  BY DEF Recovered, RecoveredState
<1> HIDE DEF Unleased, JobRows
<1>5. ~PendingSuccess(j)
  BY DEF PendingSuccess, PendingOutcome
<1>6. \A v \in Verdicts : Mild(j, ReconciledByFreshness(r, v))
  BY <1>1, MildUnstarted
<1>7. Mild(j, Escalated(r))
  BY <1>3, <1>5 DEF Mild, OpenStates, UnresolvedDestinationStates
<1>8. Mild(j, Recovered(r, j))
  <2>1. CASE ~r.started
    BY <1>4, <2>1, MildUnstarted
  <2>2. CASE r.started
    BY <1>4, <1>5, <2>2 DEF Mild, OpenStates, UnresolvedDestinationStates
  <2> QED
    BY <2>1, <2>2 DEF JobRows
<1>9. ASSUME NEW v \in Verdicts, r.state = "pending_reconcile"
      PROVE  Mild(j, Reconciled(r, j, v))
  <2>1. CASE v = "send" /\ j \in RepeatJobs
    BY <1>1, <2>1, MildUnstarted DEF Reconciled
  <2>2. CASE v = "send" /\ j \notin RepeatJobs
    <3>1. ~UnsafeReconcile(r).started
      BY <1>2, <1>9, <2>2 DEF SuccessInv, RowEvidence, CountedJobs
    <3>2. Reconciled(r, j, v) = UnsafeReconcile(r)
      BY <2>2 DEF Reconciled
    <3> QED
      BY <3>1, <3>2, MildUnstarted
  <2>3. CASE v # "send"
    BY <1>6, <2>3 DEF Reconciled
  <2> QED
    BY <2>1, <2>2, <2>3
<1> QED
  BY <1>6, <1>7, <1>8, <1>9

\* Every step changes every counted row mildly, or applies an outcome to it.
LEMMA MildStep ==
    ASSUME SafetyInv, SuccessInv, Next, NEW k \in CountedJobs
    PROVE  Mild(k, job'[k]) \/ \E t \in Tokens : Applied(k, t)
<1> DEFINE Goal == Mild(k, job'[k]) \/ \E t \in Tokens : Applied(k, t)
<1> USE DEF durable, volatile, provider
<1>1. /\ TypeInv /\ FenceInv /\ k \in Jobs
      /\ job \in [Jobs -> JobRows] /\ \A i \in Jobs : job[i] \in JobRows
  BY JobConstants DEF SafetyInv, TypeInv, TypeOK, CountedJobs
<1>2. Mild(k, job[k])
  BY <1>1, MildTime
<1>3. ASSUME job'[k] = job[k] PROVE Goal
  BY <1>2, <1>3
<1>4. ASSUME NEW j \in Jobs, NEW q, SetJob(j, q), j = k => Mild(k, q)
      PROVE  Goal
  BY <1>1, <1>2, <1>4 DEF SetJob
<1>5. ASSUME NEW j \in Jobs, NEW t \in Tokens, outcome[j][t].apply = "pending",
             ApplyProviderOutcome(j, t)
      PROVE  Goal
  <2>1. CASE j = k /\ MayApply(j, t)
    BY <1>5, <2>1 DEF ApplyProviderOutcome, Applied, SetJob
  <2>2. CASE ~(j = k /\ MayApply(j, t))
    <3>1. job'[k] = job[k]
      BY <1>1, <1>5, <2>2 DEF ApplyProviderOutcome, SetJob
    <3> QED
      BY <1>3, <3>1
  <2> QED
    BY <2>1, <2>2
<1>6. ASSUME NEW s \in Slots, SlotStep(s) PROVE Goal
  <2> DEFINE j == slot[s].job
  <2>1. slot[s].pc \notin {"idle", "cycle"} => j \in Jobs /\ slot[s].token \in Tokens
    BY <1>1 DEF TypeInv, SlotsHoldJobs
  <2>2. ASSUME slot[s].pc \notin {"idle", "cycle"}, DeferUnstarted(s) PROVE Goal
    <3> DEFINE held == HoldsLease(job[j], s, slot[s].token) /\ ~job[j].started
    <3>1. SetJob(j, IF held THEN Deferred(job[j]) ELSE job[j])
      BY <2>2 DEF DeferUnstarted
    <3>2. ASSUME held, j = k PROVE Mild(k, Deferred(job[j]))
      <4>1. ~Deferred(job[k]).started
        BY <1>1, <3>2 DEF Deferred, Unleased, JobRows
      <4>2. ~job[k].started /\ job[k].state # "sent"
        BY <3>2 DEF HoldsLease
      <4> QED
        BY <3>2, <4>1, <4>2, MildUnstarted
    <3>3. j = k => Mild(k, IF held THEN Deferred(job[j]) ELSE job[j])
      BY <1>2, <3>2
    <3> QED
      BY <1>4, <2>1, <2>2, <3>1, <3>3
  <2>3. CASE ClaimNext(s)
    <3>1. PICK i \in Jobs : /\ job[i].state \in CLAIMABLE_DELIVERY_STATES
                            /\ job'[i].state = "leased" /\ ~job'[i].started
                            /\ \A x \in Jobs : x # i => job'[x] = job[x]
      BY <1>1, <2>3, ClaimEffect
    <3>2. CASE i = k
      <4>1. ~PendingSuccess(k)
        BY <3>1, <3>2, PendingRow
        DEF CLAIMABLE_DELIVERY_STATES, UnresolvedDestinationStates
      <4> QED
        BY <3>1, <3>2, <4>1 DEF Mild
    <3> QED
      BY <1>1, <1>3, <3>1, <3>2
  <2>4. CASE MarkDispatchStarted(s)
    <3>1. /\ ~job[j].started /\ job[j].state = "leased" /\ j \in Jobs
          /\ \A x \in Jobs : x # j => job'[x] = job[x]
          /\ job'[j] = [job[j] EXCEPT !.started = TRUE, !.probe = slot[s].probe]
      BY <1>1, <2>4, MarkEffect
    <3>2. CASE j = k
      <4>1. job'[k].state = "leased"
        BY <1>1, <3>1, <3>2 DEF JobRows
      <4>2. ~PendingSuccess(k)
        BY <3>1, <3>2, PendingRow
      <4> QED
        BY <4>1, <4>2 DEF Mild, OpenStates
    <3> QED
      BY <1>1, <1>3, <3>1, <3>2
  <2>5. CASE CheckFreshness(s)
    <3>1. slot[s].pc \in BeforeDispatch /\ slot[s].pc \notin {"idle", "cycle"}
      BY <2>5 DEF CheckFreshness, BeforeDispatch
    <3>2. PICK v \in Verdicts :
             \/ UNCHANGED job
             \/ SetJob(j, IF HoldsLease(job[j], s, slot[s].token)
                          THEN Refreshed(job[j], v) ELSE job[j])
      BY <2>5 DEF CheckFreshness
    <3>3. ASSUME HoldsLease(job[j], s, slot[s].token), j = k
          PROVE  Mild(k, Refreshed(job[j], v))
      <4>1. job[j].state = "leased" /\ ~job[j].started
        BY <1>1, <3>1, <3>3 DEF FenceInv, SlotFences, HoldsLease
      <4>2. ~Refreshed(job[k], v).started
        BY <1>1, <3>3, <4>1 DEF Refreshed, Unleased, JobRows
      <4> QED
        BY <3>3, <4>1, <4>2, MildUnstarted
    <3>4. j = k => Mild(k, IF HoldsLease(job[j], s, slot[s].token)
                           THEN Refreshed(job[j], v) ELSE job[j])
      BY <1>2, <3>3
    <3> QED
      BY <1>3, <1>4, <2>1, <3>1, <3>2, <3>4
  <2>6. CASE DeferForRetainedFact(s) \/ DeferDispatch(s)
    BY <2>2, <2>6 DEF DeferForRetainedFact, DeferDispatch
  <2>7. CASE PredispatchError(s)
    BY <1>3, <2>2, <2>7 DEF PredispatchError, BeforeDispatch
  <2>8. CASE ApplyInSlot(s)
    <3>1. j \in Jobs /\ slot[s].token \in Tokens
      BY <2>1, <2>8 DEF ApplyInSlot
    <3>2. \/ job' = job
          \/ outcome[j][slot[s].token].apply = "pending" /\ ApplyProviderOutcome(j, slot[s].token)
      BY <2>8 DEF ApplyInSlot
    <3> QED
      BY <1>3, <1>5, <3>1, <3>2
  <2>9. \/ job' = job
        \/ ClaimNext(s) \/ MarkDispatchStarted(s) \/ CheckFreshness(s)
        \/ DeferForRetainedFact(s) \/ DeferDispatch(s) \/ PredispatchError(s)
        \/ ApplyInSlot(s)
    BY <1>6
    DEF SlotStep, BeginCycle, NothingToClaim, ProceedAfterClaim, EnterDispatch,
        LimiterAdmits, ReadDispatchGate, MarkStale, ProviderAnswers,
        RecordProviderOutcome, RejectFact, CancelSlot
  <2> QED
    BY <1>3, <2>3, <2>4, <2>5, <2>6, <2>7, <2>8, <2>9
<1>7. ASSUME NEW j \in Jobs, JobStep(j) PROVE Goal
  <2>1. CASE Enqueue(j)
    <3>1. PICK due \in BOOLEAN :
             SetJob(j, [AbsentRow EXCEPT !.state = "pending", !.due = due])
      BY <2>1 DEF Enqueue
    <3> DEFINE q == [AbsentRow EXCEPT !.state = "pending", !.due = due]
    <3>2. ~q.started /\ job[j].state = "absent"
      BY <2>1 DEF AbsentRow, Enqueue
    <3> HIDE DEF q
    <3>3. ASSUME j = k PROVE Mild(k, q)
      <4>1. ~PendingSuccess(k)
        BY <3>2, <3>3, PendingRow DEF UnresolvedDestinationStates
      <4> QED
        BY <3>2, <4>1 DEF Mild
    <3> QED
      BY <1>4, <3>1, <3>3 DEF q
  <2>2. CASE Reconcile(j)
    <3>1. ~PendingOutcome(j)
      BY <2>2 DEF Reconcile
    <3>2. CASE job[j].state = "ambiguous" /\ SetJob(j, Escalated(job[j]))
      BY <1>1, <1>4, <3>1, <3>2, MildReconcile
    <3>3. ASSUME NEW v \in Verdicts, job[j].state = "pending_reconcile",
                 SetJob(j, Reconciled(job[j], j, v))
          PROVE  Goal
      BY <1>1, <1>4, <3>1, <3>3, MildReconcile
    <3> QED
      BY <2>2, <3>2, <3>3 DEF Reconcile
  <2>3. CASE OperatorResolves(j)
    <3>1. CASE SetJob(j, ConfirmedSent(job[j]))
      <4>1. ConfirmedSent(job[j]).state = "sent"
        BY <1>1 DEF ConfirmedSent, Unleased, JobRows
      <4>2. \A q : q.state = "sent" => Mild(k, q)
        BY DEF Mild, StillTakes, OpenStates
      <4> QED
        BY <1>4, <3>1, <4>1, <4>2
    <3>2. CASE accepted[j] = 0 /\ SetJob(j, SafeRetry(job[j]))
      <4>1. ~SafeRetry(job[j]).started
        BY <1>1 DEF SafeRetry, Unleased, JobRows
      <4>2. ASSUME j = k PROVE Mild(k, SafeRetry(job[j]))
        <5>1. ~PendingSuccess(k)
          BY <3>2, <4>2, PendingRow
        <5> QED
          BY <4>1, <5>1 DEF Mild
      <4> QED
        BY <1>4, <3>2, <4>2
    <3> QED
      BY <2>3, <3>1, <3>2 DEF OperatorResolves
  <2>4. CASE ReconcileReady(j)
    <3>1. PICK v \in Verdicts : SetJob(j, ReconciledByFreshness(job[j], v))
      BY <2>4 DEF ReconcileReady
    <3>2. ~PendingOutcome(j)
      BY <2>4 DEF ReconcileReady
    <3> QED
      BY <1>1, <1>4, <3>1, <3>2, MildReconcile
  <2>5. CASE LeaseExpires(j) \/ RetryDue(j) \/ CooldownEnds(j) \/ RateLimitWindowEnds(j)
    <3>1. PICK q \in {[job[j] EXCEPT !.lease = "expired"], [job[j] EXCEPT !.due = TRUE],
                      [job[j] EXCEPT !.cooldown = FALSE], [job[j] EXCEPT !.recent = FALSE]} :
             SetJob(j, q)
      BY <2>5 DEF LeaseExpires, RetryDue, CooldownEnds, RateLimitWindowEnds
    <3>2. j = k => Mild(k, q)
      BY <1>1, <3>1, MildTime
    <3> QED
      BY <1>4, <3>1, <3>2
  <2> QED
    BY <1>7, <2>1, <2>2, <2>3, <2>4, <2>5 DEF JobStep
<1>8. ASSUME NEW j \in Jobs, NEW t \in Tokens, Replay(j, t) PROVE Goal
  BY <1>5, <1>8 DEF Replay
<1>9. ASSUME RecoverExpiredLeases PROVE Goal
  <2>1. CASE k \in ExpiredLeases
    <3>1. job'[k] = Recovered(job[k], k) /\ job[k].state = "leased" /\ ~PendingOutcome(k)
      BY <1>1, <1>9, <2>1 DEF RecoverExpiredLeases, ExpiredLeases
    <3> QED
      BY <1>1, <3>1, MildReconcile
  <2>2. CASE k \notin ExpiredLeases
    BY <1>1, <1>3, <1>9, <2>2 DEF RecoverExpiredLeases
  <2> QED
    BY <2>1, <2>2
<1>10. ASSUME job' = job PROVE Goal
  BY <1>3, <1>10
<1> HIDE DEF Goal
<1>11. \/ job' = job \/ RecoverExpiredLeases
       \/ \E s \in Slots : SlotStep(s)
       \/ \E j \in Jobs : JobStep(j)
       \/ \E j \in Jobs, t \in Tokens : Replay(j, t)
  BY DEF Next, RequestLands, RecoveryCheck, Shutdown, Restart, Crash
<1>12. Goal
  BY <1>6, <1>7, <1>8, <1>9, <1>10, <1>11
<1> QED
  BY <1>12 DEF Goal

-----------------------------------------------------------------------------
(* What a step does to the outcomes and to what Telegram has done *)

\* An outcome row stays, is written by a slot that passed the record fence, is
\* applied under the apply fence or put aside because that fence refuses it.
LEMMA OutcomeStep ==
    ASSUME TypeInv, Next, NEW j \in Jobs, NEW t \in Tokens
    PROVE  \/ outcome'[j][t] = outcome[j][t]
           \/ \E s \in Slots :
                 /\ slot[s].pc = "answered" /\ slot[s].job = j /\ slot[s].token = t
                 /\ MayRecord(s) /\ job' = job /\ outcome[j][t] = NoOutcome
                 /\ outcome'[j][t] = [fact |-> slot[s].fact, worker |-> s,
                                      apply |-> "pending"]
           \/ Applied(j, t) /\ outcome'[j][t] = [outcome[j][t] EXCEPT !.apply = "applied"]
           \/ /\ outcome[j][t].apply = "pending" /\ ~MayApply(j, t) /\ job' = job
              /\ outcome'[j][t] = [outcome[j][t] EXCEPT !.apply = "quarantined"]
<1> DEFINE Goal ==
           \/ outcome'[j][t] = outcome[j][t]
           \/ \E s \in Slots :
                 /\ slot[s].pc = "answered" /\ slot[s].job = j /\ slot[s].token = t
                 /\ MayRecord(s) /\ job' = job /\ outcome[j][t] = NoOutcome
                 /\ outcome'[j][t] = [fact |-> slot[s].fact, worker |-> s,
                                      apply |-> "pending"]
           \/ Applied(j, t) /\ outcome'[j][t] = [outcome[j][t] EXCEPT !.apply = "applied"]
           \/ /\ outcome[j][t].apply = "pending" /\ ~MayApply(j, t) /\ job' = job
              /\ outcome'[j][t] = [outcome[j][t] EXCEPT !.apply = "quarantined"]
<1> USE DEF durable, volatile, provider
<1>1. outcome \in [Jobs -> [Tokens -> OutcomeRows]]
  BY DEF TypeInv, TypeOK
<1>2. ASSUME outcome' = outcome PROVE Goal
  BY <1>2
<1>3. ASSUME NEW i \in Jobs, NEW u \in Tokens, NEW a,
             outcome' = [outcome EXCEPT ![i][u].apply = a]
      PROVE  outcome'[j][t] = IF i = j /\ u = t THEN [outcome[j][t] EXCEPT !.apply = a]
                              ELSE outcome[j][t]
  BY <1>1, <1>3
<1>4. ASSUME NEW i \in Jobs, NEW u \in Tokens, outcome[i][u].apply = "pending",
             ApplyProviderOutcome(i, u)
      PROVE  Goal
  <2>1. CASE MayApply(i, u)
    <3>1. outcome' = [outcome EXCEPT ![i][u].apply = "applied"]
      BY <1>4, <2>1 DEF ApplyProviderOutcome
    <3>2. Applied(i, u)
      BY <1>4, <2>1, <3>1 DEF ApplyProviderOutcome, Applied, SetJob
    <3> QED
      BY <1>3, <3>1, <3>2
  <2>2. CASE ~MayApply(i, u)
    <3>1. outcome' = [outcome EXCEPT ![i][u].apply = "quarantined"] /\ job' = job
      BY <1>4, <2>2 DEF ApplyProviderOutcome
    <3> QED
      BY <1>3, <1>4, <2>2, <3>1
  <2> QED
    BY <2>1, <2>2
<1>5. ASSUME NEW s \in Slots, RecordProviderOutcome(s) PROVE Goal
  <2>1. slot[s].pc = "answered" /\ MayRecord(s) /\ job' = job
    BY <1>5 DEF RecordProviderOutcome
  <2>2. slot[s].job \in Jobs /\ slot[s].token \in Tokens
    BY <2>1 DEF TypeInv, SlotsHoldJobs
  <2>3. CASE outcome' = outcome
    BY <1>2, <2>3
  <2>4. CASE /\ outcome[slot[s].job][slot[s].token] = NoOutcome
             /\ outcome' = [outcome EXCEPT ![slot[s].job][slot[s].token] =
                              [fact |-> slot[s].fact, worker |-> s, apply |-> "pending"]]
    <3>1. outcome'[j][t] = IF slot[s].job = j /\ slot[s].token = t
                           THEN [fact |-> slot[s].fact, worker |-> s, apply |-> "pending"]
                           ELSE outcome[j][t]
      BY <1>1, <2>2, <2>4
    <3> QED
      BY <2>1, <2>4, <3>1
  <2> QED
    BY <1>5, <2>3, <2>4 DEF RecordProviderOutcome
<1>6. ASSUME NEW s \in Slots, ApplyInSlot(s) PROVE Goal
  <2>1. slot[s].job \in Jobs /\ slot[s].token \in Tokens
    BY <1>6 DEF ApplyInSlot, TypeInv, SlotsHoldJobs
  <2>2. \/ outcome' = outcome
        \/ /\ outcome[slot[s].job][slot[s].token].apply = "pending"
           /\ ApplyProviderOutcome(slot[s].job, slot[s].token)
    BY <1>6 DEF ApplyInSlot
  <2> QED
    BY <1>2, <1>4, <2>1, <2>2
<1>7. ASSUME NEW s \in Slots, SlotStep(s)
      PROVE  outcome' = outcome \/ ApplyInSlot(s) \/ RecordProviderOutcome(s)
  BY <1>7
  DEF SlotStep, BeginCycle, ClaimNext, NothingToClaim, ProceedAfterClaim,
      EnterDispatch, DeferForRetainedFact, CheckFreshness, LimiterAdmits,
      DeferDispatch, PredispatchError, ReadDispatchGate, MarkStale,
      MarkDispatchStarted, ProviderAnswers, RejectFact, CancelSlot
<1>8. ASSUME NEW i \in Jobs, JobStep(i) PROVE outcome' = outcome
  BY <1>8
  DEF JobStep, Enqueue, Reconcile, OperatorResolves, ReconcileReady,
      LeaseExpires, RetryDue, CooldownEnds, RateLimitWindowEnds
<1>9. ASSUME NEW i \in Jobs, NEW u \in Tokens, Replay(i, u) PROVE Goal
  BY <1>4, <1>9 DEF Replay
<1> HIDE DEF Goal
<1>10. Goal
  BY <1>2, <1>5, <1>6, <1>7, <1>8, <1>9
  DEF Next, RequestLands, RecoveryCheck, RecoverExpiredLeases, Shutdown, Restart, Crash
<1> QED
  BY <1>10 DEF Goal

\* What Telegram has done stays done, and an accepting answer reaches a slot only
\* when it is done.
LEMMA LandedStep ==
    ASSUME SafetyInv, FactsLanded, Next
    PROVE  FactsLanded'
<1> USE DEF durable, volatile, provider
<1>1. TypeInv /\ TypeInv' /\ accepted \in [Jobs -> Nat] /\ accepted' \in [Jobs -> Nat]
  <2>1. TypeInv /\ TypeInv'
    BY StepType DEF SafetyInv
  <2> QED
    BY <2>1 DEF TypeInv, TypeOK
<1>2. ASSUME NEW s \in Slots, ProviderAnswers(s)
      PROVE  /\ slot[s].job \in Jobs /\ slot'[s].job = slot[s].job
             /\ \/ accepted' = accepted /\ slot'[s].fact \notin AcceptedFacts
                \/ accepted' = [accepted EXCEPT ![slot[s].job] = @ + 1]
             /\ \A x \in Slots : x # s => slot'[x] = slot[x]
  <2>1. slot[s].job \in Jobs /\ slot \in [Slots -> SlotStates]
    BY <1>1, <1>2 DEF ProviderAnswers, TypeInv, TypeOK, SlotsHoldJobs
  <2>2. PICK f \in Facts :
           /\ accepted' = IF f \in AcceptedFacts
                          THEN [accepted EXCEPT ![slot[s].job] = @ + 1] ELSE accepted
           /\ slot' = [slot EXCEPT ![s].pc = "answered", ![s].fact = f]
    BY <1>2 DEF ProviderAnswers, PossibleFacts
  <2>3. slot'[s].fact = f /\ slot'[s].job = slot[s].job
        /\ \A x \in Slots : x # s => slot'[x] = slot[x]
    BY <2>1, <2>2 DEF SlotStates
  <2> QED
    BY <2>1, <2>2, <2>3
<1>3. ASSUME NEW j \in Jobs PROVE accepted'[j] >= accepted[j]
  <2>1. ASSUME NEW k \in Jobs, accepted' = [accepted EXCEPT ![k] = @ + 1]
        PROVE  accepted'[j] >= accepted[j]
    BY <1>1, <2>1
  <2>2. CASE accepted' = accepted
    BY <1>1, <2>2
  <2>3. ASSUME NEW s \in Slots, SlotStep(s), ~ProviderAnswers(s) PROVE accepted' = accepted
    BY <2>3
    DEF SlotStep, BeginCycle, ClaimNext, NothingToClaim, ProceedAfterClaim,
        EnterDispatch, DeferForRetainedFact, CheckFreshness, LimiterAdmits,
        DeferDispatch, PredispatchError, ReadDispatchGate, MarkStale,
        MarkDispatchStarted, RecordProviderOutcome, RejectFact, ApplyInSlot,
        CancelSlot
  <2>4. ASSUME NEW i \in Jobs, JobStep(i) PROVE accepted' = accepted
    BY <2>4
    DEF JobStep, Enqueue, Reconcile, OperatorResolves, ReconcileReady,
        LeaseExpires, RetryDue, CooldownEnds, RateLimitWindowEnds
  <2>5. ASSUME NEW k \in Jobs, NEW t \in Tokens, RequestLands(<<k, t>>)
        PROVE  accepted' = accepted \/ accepted' = [accepted EXCEPT ![k] = @ + 1]
    BY <2>5 DEF RequestLands
  <2>6. \/ accepted' = accepted
        \/ \E s \in Slots : ProviderAnswers(s)
        \/ \E k \in Jobs, t \in Tokens : RequestLands(<<k, t>>)
    BY <2>3, <2>4
    DEF Next, Replay, RecoveryCheck, RecoverExpiredLeases, Shutdown, Restart, Crash
  <2> QED
    BY <1>2, <2>1, <2>2, <2>5, <2>6
<1>4. \A j \in Jobs : accepted[j] > 0 => accepted'[j] > 0
  BY <1>1, <1>3
<1>5. ASSUME NEW j \in Jobs, NEW t \in Tokens, outcome'[j][t].fact \in AcceptedFacts
      PROVE  accepted'[j] > 0
  <2>1. CASE outcome'[j][t].fact = outcome[j][t].fact
    BY <1>4, <1>5, <2>1 DEF FactsLanded
  <2>2. ASSUME NEW s \in Slots, RecordProviderOutcome(s), slot[s].job = j,
               outcome'[j][t].fact = slot[s].fact
        PROVE  accepted'[j] > 0
    BY <1>4, <1>5, <2>2 DEF FactsLanded, RecordProviderOutcome
  <2> QED
    BY <1>1, <2>1, <2>2, OutcomeMove
<1>6. ASSUME NEW x \in Slots, slot'[x].pc = "answered", slot'[x].fact \in AcceptedFacts
      PROVE  accepted'[slot'[x].job] > 0
  <2>1. CASE ClaimNext(x)
    BY <1>1, <1>6, <2>1, ClaimEffect
  <2>2. CASE ProviderAnswers(x)
    <3>1. slot[x].job \in Jobs /\ slot'[x].job = slot[x].job
          /\ accepted' = [accepted EXCEPT ![slot[x].job] = @ + 1]
      BY <1>2, <1>6, <2>2
    <3>2. accepted'[slot[x].job] = accepted[slot[x].job] + 1
      BY <1>1, <3>1
    <3> QED
      BY <1>1, <3>1, <3>2
  <2>3. CASE GoesOn(x) /\ ~ProviderAnswers(x)
    <3>1. /\ slot[x].pc = "answered" /\ slot'[x].fact = slot[x].fact
          /\ slot'[x].job = slot[x].job
      BY <1>6, <2>3 DEF GoesOn
    <3>2. slot[x].job \in Jobs
      BY <1>1, <3>1 DEF TypeInv, SlotsHoldJobs
    <3> QED
      BY <1>4, <1>6, <3>1, <3>2 DEF FactsLanded
  <2> QED
    BY <1>1, <1>6, <2>1, <2>2, <2>3, SlotMove
<1> QED
  BY <1>5, <1>6 DEF FactsLanded

\* A row that says "sent" keeps saying so.
LEMMA SentStays ==
    ASSUME TypeInv, Next, NEW j \in Jobs, job[j].state = "sent"
    PROVE  job'[j].state = "sent"
<1>1. ASSUME NEW s \in Slots, MarkDispatchStarted(s) PROVE job'[j].state = "sent"
  BY <1>1, MarkEffect
<1> QED
  BY <1>1, QuietStep DEF Quiet, FINAL_DELIVERY_STATES

-----------------------------------------------------------------------------
(* The theorem *)

\* Every step keeps the evidence for a counted row.
LEMMA EvidenceStep ==
    ASSUME SafetyInv, SuccessInv, Next, NEW j \in CountedJobs
    PROVE  RowEvidence(j)'
<1>1. TypeInv /\ j \in Jobs /\ job[j] \in JobRows /\ job \in [Jobs -> JobRows]
      /\ outcome \in [Jobs -> [Tokens -> OutcomeRows]]
  BY JobConstants DEF SafetyInv, TypeInv, TypeOK, CountedJobs
<1>2. CASE Mild(j, job'[j])
  <2>1. ASSUME job'[j].started, job'[j].state \notin OpenStates,
               NEW t \in Tokens, t = job'[j].token
        PROVE  outcome'[j][t] # NoOutcome
    <3>1. outcome[j][t] # NoOutcome
      BY <1>2, <2>1 DEF Mild, SuccessInv, RowEvidence
    <3>2. outcome[j][t] \in OutcomeRows
      BY <1>1
    <3>3. \A a \in {"applied", "quarantined"} :
             [outcome[j][t] EXCEPT !.apply = a].apply = a
      BY <3>2 DEF OutcomeRows
    <3>4. NoOutcome.apply = "none"
      BY DEF NoOutcome
    <3> QED
      BY <1>1, <3>1, <3>3, <3>4, OutcomeStep
  <2> QED
    BY <1>2, <2>1 DEF Mild, RowEvidence
<1>3. ASSUME NEW t \in Tokens, Applied(j, t) PROVE RowEvidence(j)'
  <2> DEFINE f == outcome[j][t].fact
  <2>1. job'[j] = Resolved(job, j, f) /\ job[j].token = t
    BY <1>1, <1>3 DEF Applied, MayApply
  <2>2. job'[j].token = t /\ job'[j].state = ResultState(j, f)
    BY <1>1, <2>1 DEF Resolved, Unleased, JobRows
  <2>3. outcome'[j][t].apply = "applied"
    BY <1>1, <1>3 DEF Applied, OutcomeRows
  <2>4. outcome'[j][t] # NoOutcome
    BY <2>3 DEF NoOutcome
  <2>5. ResultState(j, f) # "pending_reconcile"
    BY DEF ResultState
  <2> QED
    BY <2>2, <2>4, <2>5 DEF RowEvidence
<1> QED
  BY <1>2, <1>3, MildStep

\* Every step keeps a recorded success.
LEMMA KeptStep ==
    ASSUME SafetyInv, SuccessInv, Next, NEW j \in CountedJobs, NEW t \in Tokens
    PROVE  SuccessKept(j, t)'
<1> DEFINE o == outcome[j][t]
           p == outcome'[j][t]
<1>1. TypeInv /\ j \in Jobs /\ job[j] \in JobRows /\ job \in [Jobs -> JobRows]
      /\ outcome \in [Jobs -> [Tokens -> OutcomeRows]] /\ o \in OutcomeRows
  BY JobConstants DEF SafetyInv, TypeInv, TypeOK, CountedJobs
<1>2. RowEvidence(j) /\ SuccessKept(j, t)
  BY DEF SuccessInv
<1>3. CASE p = o
  <2>1. ASSUME p.fact = "ok", p.apply = "quarantined" PROVE job'[j].state = "sent"
    BY <1>1, <1>2, <1>3, <2>1, SentStays DEF SuccessKept
  <2>2. ASSUME p.fact = "ok", p.apply = "pending"
        PROVE  job'[j].state = "sent" \/ MayApply(j, t)'
    <3>1. PendingSuccess(j) /\ (job[j].state = "sent" \/ MayApply(j, t))
      BY <1>2, <1>3, <2>2 DEF PendingSuccess, SuccessKept
    <3>2. CASE job[j].state = "sent"
      BY <1>1, <3>2, SentStays
    <3>3. CASE MayApply(j, t) /\ Mild(j, job'[j])
      <4>1. StillTakes(job[j], job'[j])
        BY <3>1, <3>3 DEF Mild
      <4> QED
        BY <1>3, <3>3, <4>1 DEF StillTakes, MayApply
    <3>4. ASSUME MayApply(j, t), NEW u \in Tokens, Applied(j, u) PROVE FALSE
      <4>1. u = t
        BY <3>4 DEF Applied, MayApply
      <4>2. p.apply = "applied"
        BY <1>1, <3>4, <4>1 DEF Applied, OutcomeRows
      <4> QED
        BY <2>2, <4>2
    <3> QED
      BY <3>1, <3>2, <3>3, <3>4, MildStep
  <2> QED
    BY <2>1, <2>2 DEF SuccessKept
<1>4. ASSUME NEW s \in Slots, slot[s].job = j, slot[s].token = t, MayRecord(s),
             job' = job, o = NoOutcome,
             p = [fact |-> slot[s].fact, worker |-> s, apply |-> "pending"]
      PROVE  SuccessKept(j, t)'
  <2>1. job[j].token = t /\ job[j].started /\ job[j].worker \in {None, s}
    BY <1>4 DEF MayRecord
  <2>2. job[j].state \in OpenStates
    BY <1>2, <1>4, <2>1 DEF RowEvidence
  <2>3. p.apply = "pending" /\ p.worker = s
    BY <1>4
  <2>4. job'[j].state = "sent" \/ MayApply(j, t)'
    BY <1>4, <2>1, <2>2, <2>3 DEF OpenStates, MayApply
  <2> QED
    BY <2>3, <2>4 DEF SuccessKept
<1>5. CASE p = [o EXCEPT !.apply = "applied"]
  BY <1>1, <1>5 DEF OutcomeRows, SuccessKept
<1>6. CASE /\ o.apply = "pending" /\ ~MayApply(j, t) /\ job' = job
           /\ p = [o EXCEPT !.apply = "quarantined"]
  <2>1. p.fact = o.fact /\ p.apply = "quarantined"
    BY <1>1, <1>6 DEF OutcomeRows
  <2> QED
    BY <1>2, <1>6, <2>1 DEF SuccessKept
<1> QED
  BY <1>1, <1>3, <1>4, <1>5, <1>6, OutcomeStep

\* The invariant holds in every reachable state.
LEMMA SuccessInvariant == Spec => []SuccessInv
<1>1. Init => SuccessInv
  <2> SUFFICES ASSUME Init PROVE SuccessInv
    OBVIOUS
  <2>1. /\ \A s \in Slots : slot[s].pc = "idle"
        /\ \A j \in Jobs : job[j].state = "absent" /\ ~job[j].started
        /\ \A j \in Jobs, t \in Tokens : outcome[j][t].fact = "none"
    BY DEF Init, IdleSlot, AbsentRow, NoOutcome
  <2>2. FactsLanded
    BY <2>1 DEF FactsLanded, AcceptedFacts
  <2> QED
    BY <2>1, <2>2, JobConstants DEF SuccessInv, CountedJobs, RowEvidence, SuccessKept
<1>2. SafetyInv /\ SuccessInv /\ [Next]_vars => SuccessInv'
  <2> SUFFICES ASSUME SafetyInv, SuccessInv, [Next]_vars PROVE SuccessInv'
    OBVIOUS
  <2>1. CASE Next
    <3>1. FactsLanded'
      BY <2>1, LandedStep DEF SuccessInv
    <3> QED
      BY <2>1, <3>1, EvidenceStep, KeptStep DEF SuccessInv
  <2>2. CASE UNCHANGED vars
    BY <2>2 DEF vars, SuccessInv, FactsLanded, RowEvidence, SuccessKept, MayApply
  <2> QED
    BY <2>1, <2>2
<1> QED
  BY <1>1, <1>2, SafetyInvariant, PTL DEF Spec

\* A success of a send or of a repeatable method, once recorded, is applied to its
\* row unless the row says "sent" already: through expired leases, recovery,
\* reconciliation, the operator and restarts its row stays able to take it.
THEOREM SuccessIsKept == Spec => []SuccessNeverLost
<1>1. SuccessInv => SuccessNeverLost
  BY DEF SuccessInv, SuccessKept, SuccessNeverLost, CountedJobs
<1> QED
  BY <1>1, SuccessInvariant, PTL

=============================================================================
