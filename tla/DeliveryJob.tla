----------------------------- MODULE DeliveryJob -----------------------------
(***************************************************************************)
(* One row of telegram_delivery_jobs and the pure decisions taken on it:   *)
(* which rows block a dispatch, what a provider answer or a freshness      *)
(* verdict turns a row into, and what lease recovery and reconciliation    *)
(* do with it.  Nothing here has state; DeliveryQueue makes the actions.   *)
(*                                                                         *)
(* Timestamps are kept as what the code compares them for: a lease is      *)
(* "live" or "expired", next_retry_at is due or not, a cooldown is running *)
(* or not.  DeliveryQueue has an action for every such deadline to pass.   *)
(***************************************************************************)
EXTENDS Integers

CONSTANTS
    Jobs,        \* job rows (identified by dedupe_key)
    Slots,       \* worker slots of the queue process
    Bots,        \* bot identities, one execution lane each
    Dests,       \* destination keys (chats and channels)
    BotOf,       \* the lane a job belongs to
    DestOf,      \* the destination a job is addressed to
    SendJobs,    \* jobs whose method is in TELEGRAM_NON_IDEMPOTENT_SEND_METHODS
    RepeatJobs,  \* jobs whose method is in SAFE_RECONCILIATION_RETRY_METHODS
    PrivateJobs, \* jobs whose destination_class is PRIVATE
    Facts,       \* the provider answers this instance explores
    Verdicts,    \* the freshness outcomes this instance explores
    MaxToken,    \* bound on lease_token: claims of one job
    None         \* SQL NULL for worker_id

\* Every class of gateway result that apply_gateway_result tells apart.
AllFacts == {"ok", "ok_without_id", "already_applied", "migrated",
             "rate_limited", "bot_conflict", "forbidden", "method_missing",
             "not_found", "callback_expired", "malformed", "write_unknown",
             "pre_write", "unclassified"}

\* Every outcome of a freshness validator.  "reclassify" carries a
\* replacement action; without one it has the effect of "superseded".
AllVerdicts == {"send", "superseded", "expired_interaction", "sent_noop",
                "quarantined", "wait_dependency", "reclassify"}

ASSUME JobConstants ==
    /\ BotOf \in [Jobs -> Bots]
    /\ DestOf \in [Jobs -> Dests]
    /\ SendJobs \subseteq Jobs
    /\ RepeatJobs \subseteq Jobs \ SendJobs
    /\ PrivateJobs \subseteq Jobs
    /\ Facts \subseteq AllFacts
    /\ "write_unknown" \in Facts   \* a call can always time out
    /\ Verdicts \subseteq AllVerdicts
    /\ MaxToken \in Nat
    /\ None \notin Slots

-----------------------------------------------------------------------------
(* Rows *)

FINAL_DELIVERY_STATES ==
    {"sent", "sent_noop", "superseded", "expired_interaction",
     "permanent_undeliverable", "terminal_failed", "quarantined"}

CLAIMABLE_DELIVERY_STATES == {"pending", "pending_retry"}

UnresolvedDestinationStates ==
    {"ambiguous", "ambiguous_unresolved", "pending_reconcile"}

BlockedStates == {"blocked_destination", "blocked_bot", "blocked_gateway"}

\* "absent": no row with this dedupe_key yet.
JobStates == {"absent", "leased"} \cup CLAIMABLE_DELIVERY_STATES
             \cup UnresolvedDestinationStates \cup BlockedStates
             \cup FINAL_DELIVERY_STATES

Tokens == 1..MaxToken

JobRows ==
    [state    : JobStates,
     worker   : Slots \cup {None},            \* worker_id
     token    : 0..MaxToken,                  \* lease_token
     lease    : {"none", "live", "expired"},  \* lease_until
     started  : BOOLEAN,                      \* dispatch_started_at IS NOT NULL
     due      : BOOLEAN,                      \* next_retry_at IS NULL OR <= now
     limited  : BOOLEAN,                      \* outcome_reason = telegram_rate_limited
     recent   : BOOLEAN,                      \* last_rate_limited_at inside the window
     cooldown : BOOLEAN,                      \* bot_cooldown_until > now
     probe    : BOOLEAN]                      \* rate_limit_probe

AbsentRow == [state |-> "absent", worker |-> None, token |-> 0,
              lease |-> "none", started |-> FALSE, due |-> TRUE,
              limited |-> FALSE, recent |-> FALSE, cooldown |-> FALSE,
              probe |-> FALSE]

-----------------------------------------------------------------------------
(* The durable dispatch gate *)

\* A provider call was begun for this row and its effect is not settled.
InFlight(r) == /\ r.started
               /\ r.state \in {"leased"} \cup UnresolvedDestinationStates

\* Mutant: a blocker that forgets the bot's probe.
InFlightBlocksWithoutProbe(row, k, j) ==
    InFlight(row[k]) /\ DestOf[k] = DestOf[j]

\* The blockers only a dispatch marker can create.
InFlightBlocks(row, k, j) ==
    /\ InFlight(row[k])
    /\ \/ DestOf[k] = DestOf[j]
       \/ BotOf[k] = BotOf[j] /\ row[k].probe

\* The row waits out a 429 of its destination.
LimitRunning(r) == r.state = "pending_retry" /\ r.limited /\ ~r.due

\* Mutant: a destination's running 429 is no blocker.
ResultBlocksWithoutCooldown(row, k, j) ==
    \/ /\ DestOf[k] = DestOf[j] /\ BotOf[k] = BotOf[j]
       /\ row[k].state = "blocked_destination"
    \/ BotOf[k] = BotOf[j] /\ (row[k].state = "blocked_bot" \/ row[k].cooldown)
    \/ row[k].state = "blocked_gateway"

\* The blockers a committed provider result creates.
ResultBlocks(row, k, j) ==
    \/ /\ DestOf[k] = DestOf[j]
       /\ \/ LimitRunning(row[k])
          \/ row[k].state = "blocked_destination" /\ BotOf[k] = BotOf[j]
    \/ BotOf[k] = BotOf[j] /\ (row[k].state = "blocked_bot" \/ row[k].cooldown)
    \/ row[k].state = "blocked_gateway"

DispatchBlocked(row, j) ==
    \E k \in Jobs \ {j} : InFlightBlocks(row, k, j) \/ ResultBlocks(row, k, j)

-----------------------------------------------------------------------------
(* Leases *)

\* claim_next: the next fence, not yet dispatched.
Leased(r, s) == [r EXCEPT !.state = "leased", !.worker = s,
                          !.token = r.token + 1, !.lease = "live",
                          !.started = FALSE]

HoldsLease(r, s, t) == r.state = "leased" /\ r.worker = s /\ r.token = t

\* worker_id and lease_until are cleared whenever a row leaves "leased".
Unleased(r) == [r EXCEPT !.worker = None, !.lease = "none"]

\* release_unstarted / defer_unstarted: back to the queue after a delay.
Deferred(r) == [Unleased(r) EXCEPT !.state = "pending_retry", !.due = FALSE,
                                   !.limited = FALSE]

\* Mutant: every expired lease is retried, dispatched or not.
RecoveredAsUnsent(r, j) ==
    [Unleased(r) EXCEPT !.state = "pending_retry", !.due = TRUE, !.limited = FALSE]

\* recover_expired_leases: a dispatched send may or may not have reached
\* Telegram, any other dispatched method is idempotent.
RecoveredState(r, j) ==
    CASE ~r.started -> "pending_retry"
      [] r.started /\ j \in SendJobs -> "ambiguous"
      [] OTHER -> "pending_reconcile"

Recovered(r, j) ==
    [Unleased(r) EXCEPT !.state = RecoveredState(r, j), !.due = TRUE,
                        !.limited = FALSE]

-----------------------------------------------------------------------------
(* Provider answers *)

\* Telegram did the work / certainly did not / may have done it.
AcceptedFacts == {"ok", "ok_without_id"}
UncertainFacts == {"write_unknown"}
RefusedFacts == AllFacts \ (AcceptedFacts \cup UncertainFacts)

\* The answers a method can get: only an edit or a delete is told that its
\* effect is already there, only a callback answer that its query expired.
PossibleFacts(j) == IF j \in SendJobs
                    THEN Facts \ {"already_applied", "callback_expired"}
                    ELSE Facts \ {"ok_without_id"}

\* Mutant: a send that may have been written is retried like an edit.
ResultStateRetriesUnknown(j, fact) ==
    CASE fact = "ok"            -> "sent"
      [] fact = "ok_without_id" -> "ambiguous"
      [] OTHER                  -> "pending_retry"

\* apply_gateway_result
ResultState(j, fact) ==
    CASE fact = "ok"               -> "sent"
      [] fact = "ok_without_id"    -> "ambiguous"
      [] fact = "already_applied"  -> "sent_noop"
      [] fact = "migrated"         -> "blocked_destination"
      [] fact = "rate_limited"     -> "pending_retry"
      [] fact = "bot_conflict"     -> "blocked_bot"
      [] fact = "forbidden"        -> IF j \in PrivateJobs
                                      THEN "permanent_undeliverable"
                                      ELSE "blocked_destination"
      [] fact = "method_missing"   -> "blocked_gateway"
      [] fact = "not_found"        -> "permanent_undeliverable"
      [] fact = "callback_expired" -> "expired_interaction"
      [] fact = "malformed"        -> "terminal_failed"
      [] fact = "write_unknown"    -> IF j \in SendJobs THEN "ambiguous"
                                      ELSE "pending_retry"
      [] fact = "pre_write"        -> "pending_retry"
      [] OTHER                     -> "quarantined"

\* A second destination of the bot answered 429 inside the window, or the
\* bot's own cooldown is still running.
BotRateLimited(row, j) ==
    \/ row[j].cooldown
    \/ \E k \in Jobs \ {j} : /\ BotOf[k] = BotOf[j] /\ DestOf[k] # DestOf[j]
                             /\ row[k].recent

\* resolve_result: the row after a provider answer.  next_retry_at moves for
\* a retry and for a forbidden channel only; dispatch_started_at stays.
Resolved(row, j, fact) ==
    LET limited == fact = "rate_limited"
        state == ResultState(j, fact)
    IN  [Unleased(row[j]) EXCEPT
            !.state = state,
            !.due = IF state = "pending_retry" \/ (fact = "forbidden" /\ j \notin PrivateJobs)
                    THEN FALSE ELSE @,
            !.limited = limited,
            !.recent = @ \/ limited,
            !.cooldown = @ \/ (limited /\ BotRateLimited(row, j)),
            !.probe = FALSE]

\* The scope a result pauses for good: the bot, the gateway, or nothing.
PausedScope(j, fact) ==
    CASE fact = "bot_conflict"   -> {BotOf[j]}
      [] fact = "method_missing" -> {"gateway"}
      [] OTHER                   -> {}

-----------------------------------------------------------------------------
(* Freshness and reconciliation *)

\* Mutant: waiting for a dependency is not told apart from a final verdict.
FreshnessStateWithoutWait(verdict) ==
    IF verdict = "reclassify" THEN "pending_reconcile" ELSE verdict

\* apply_freshness_decision
FreshnessState(verdict) ==
    CASE verdict = "wait_dependency" -> "pending_retry"
      [] verdict = "reclassify"      -> "pending_reconcile"
      [] OTHER                       -> verdict

\* apply_freshness_result on a leased row: any verdict but "send".
Refreshed(r, verdict) ==
    [Unleased(r) EXCEPT !.state = FreshnessState(verdict),
                        !.due = (verdict # "wait_dependency"),
                        !.limited = FALSE]

\* The same verdicts applied by reconciliation, which also forgets the
\* dispatch marker.
ReconciledByFreshness(r, verdict) ==
    [Refreshed(r, verdict) EXCEPT !.started = FALSE, !.probe = FALSE]

\* _reset_for_safe_retry
SafeRetry(r) == [Unleased(r) EXCEPT !.state = "pending_retry", !.due = TRUE,
                                    !.started = FALSE, !.limited = FALSE,
                                    !.probe = FALSE]

\* _apply_confirmed_delivery
ConfirmedSent(r) == [Unleased(r) EXCEPT !.state = "sent", !.due = TRUE,
                                        !.limited = FALSE, !.probe = FALSE]

\* A method that is not known to be repeatable is not repeated.
UnsafeReconcile(r) == [Unleased(r) EXCEPT !.state = "quarantined", !.due = TRUE,
                                          !.limited = FALSE, !.probe = FALSE]

\* reconcile_telegram_delivery_jobs on a pending_reconcile row.
Reconciled(r, j, verdict) ==
    CASE verdict = "send" /\ j \in RepeatJobs -> SafeRetry(r)
      [] verdict = "send" /\ j \notin RepeatJobs -> UnsafeReconcile(r)
      [] OTHER -> ReconciledByFreshness(r, verdict)

\* ... and on an ambiguous row: the installed observer looks for a durable
\* message id, which no ambiguous row carries.
Escalated(r) == [Unleased(r) EXCEPT !.state = "ambiguous_unresolved",
                                    !.due = TRUE, !.limited = FALSE]

=============================================================================
