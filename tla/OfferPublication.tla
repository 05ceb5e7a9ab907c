-------------------------- MODULE OfferPublication --------------------------
(***************************************************************************)
(* How an offer reaches the Telegram channel and how its one message is    *)
(* kept current: the feeder that turns offers into delivery rows, the      *)
(* freshness check at dispatch, and the feedback that records what was     *)
(* rendered.  core/telegram_offer_queue_feeder.py,                         *)
(* core/services/telegram_offer_queue_service.py,                          *)
(* core/telegram_delivery_offer_freshness.py and                           *)
(* core/services/telegram_offer_queue_feedback.py.                         *)
(*                                                                         *)
(* The queue underneath is the one of DeliveryQueue: one call at a time to *)
(* the channel, a send whose fate is unknown is never repeated by itself.  *)
(* A call that timed out has had its effect by then or never has it.       *)
(* Expired, traded and cancelled are one status "closed", partial and      *)
(* other edits one action "edit": the offer's version tells them apart.    *)
(***************************************************************************)
EXTENDS Naturals, FiniteSets, FiniteSetsExt

CONSTANTS
    Offers,
    MaxRevision,   \* bound: content changes of an offer (trades, closing)
    Cases          \* the cases a run covers

\* A case fixes what differs between the situations one run looks at.
CaseType ==
    [overtime : BOOLEAN,              \* overtime_minutes_snapshot > 0
     racing : BOOLEAN,                \* offers change while a call is unsettled
     revisions : 1..MaxRevision,      \* bound: content changes
     faults : Nat,                    \* bound: calls that fail or time out
     refusals : Nat]                  \* bound: calls refused for good

ASSUME PublicationConstants ==
    /\ IsFiniteSet(Offers) /\ MaxRevision \in Nat \ {0}
    /\ Cases \subseteq CaseType

VARIABLES
    offer,     \* offer[o]: the row in offers, and the phase its age puts it in
    pub,       \* pub[o]: its offer_publication_states row
    job,       \* job[k]: delivery rows by dedupe key
    channel,   \* channel[o]: messages in the channel and what the last call showed
    feeder,    \* the next batch of the feeder cycle
    faults,
    refusals,
    case       \* the case this behaviour belongs to; it never changes

vars == <<offer, pub, job, channel, feeder, faults, refusals, case>>

PhaseNames == {"normal", "overtime", "tail"}
LifecycleActions == {"overtime", "tail"}
EditActions == {"edit", "closed"} \cup LifecycleActions  \* TelegramFeederKind.OFFER_EDIT
Actions == {"publish", "button"} \cup EditActions
Versions == 1..(MaxRevision + 2)
Keys == Offers \X Actions \X Versions

\* What a message shows: a revision of the offer, and its phase
Contents == (0..MaxRevision) \X (PhaseNames \cup {"closed"})
NoContent == <<0, "none">>

FinalStates == {"sent", "sent_noop", "superseded", "quarantined",
                "permanent_undeliverable"}
LiveStates == {"pending", "leased", "ambiguous", "pending_reconcile"}

AbsentRow == [state |-> "absent", content |-> NoContent, stamp |-> 0,
              started |-> FALSE]

TypeOK ==
    /\ offer \in [Offers -> [status : {"active", "closed"}, phase : PhaseNames,
                             revision : 0..MaxRevision, version : Versions]]
    /\ pub \in [Offers -> [message : BOOLEAN, version : {0} \cup Versions,
                           status : {"pending", "sent", "disabled"},
                           phase : {"none"} \cup LifecycleActions]]
    /\ DOMAIN job = Keys
    /\ \A k \in Keys :
          \/ job[k] = AbsentRow
          \/ /\ job[k].state \in LiveStates \cup FinalStates
             /\ job[k].content \in Contents
             /\ job[k].stamp \in Nat /\ job[k].started \in BOOLEAN
             /\ job[k].state = "leased" => job[k].started
    /\ channel \in [Offers -> [copies : Nat, content : Contents \cup {NoContent}]]
    /\ \A o \in Offers : pub[o].message => channel[o].copies > 0
    /\ feeder \in {"publications", "edits", "lifecycle"}
    /\ case \in Cases
    /\ faults \in 0..case.faults /\ refusals \in 0..case.refusals

Init ==
    /\ offer = [o \in Offers |-> [status |-> "active", phase |-> "normal",
                                  revision |-> 0, version |-> 1]]
    /\ pub = [o \in Offers |-> [message |-> FALSE, version |-> 0,
                                status |-> "pending", phase |-> "none"]]
    /\ job = [k \in Keys |-> AbsentRow]
    /\ channel = [o \in Offers |-> [copies |-> 0, content |-> NoContent]]
    /\ feeder = "publications"
    /\ faults = 0 /\ refusals = 0
    /\ case \in Cases

-----------------------------------------------------------------------------
(* What the offer is, now.                                                 *)

Active(o) == offer[o].status = "active"

\* build_authoritative_offer_delivery_payload
Content(o) == <<offer[o].revision, IF Active(o) THEN offer[o].phase ELSE "closed">>

\* offer_delivery_action
CurrentAction(o) ==
    CASE ~pub[o].message /\ Active(o)  -> "publish"
      [] ~pub[o].message /\ ~Active(o) -> "none"
      [] pub[o].message /\ Active(o)   -> "edit"
      [] OTHER                         -> "closed"

KeyOf(o, a) == <<o, a, offer[o].version>>

RowsOf(o) == {k \in Keys : k[1] = o /\ job[k].state # "absent"}

\* A call for the offer was begun and its effect is not recorded
Unsettled(k) == /\ job[k].started
                /\ job[k].state \in {"leased", "ambiguous", "pending_reconcile"}

MayChange(o) == case.racing \/ \A k \in RowsOf(o) : ~Unsettled(k)

\* A partial trade, through any surface
Trade(o) ==
    /\ Active(o)
    /\ offer[o].revision + 1 < case.revisions
    /\ MayChange(o)
    /\ offer' = [offer EXCEPT ![o].revision = @ + 1, ![o].version = @ + 1]
    /\ UNCHANGED <<pub, job, channel, feeder, faults, refusals>>

\* Traded out, expired or cancelled
Close(o) ==
    /\ Active(o)
    /\ MayChange(o)
    /\ offer' = [offer EXCEPT ![o].status = "closed", ![o].revision = @ + 1,
                              ![o].version = @ + 1]
    /\ UNCHANGED <<pub, job, channel, feeder, faults, refusals>>

\* The clock passes the normal or the final deadline: no row changes
PhasePasses(o) ==
    /\ Active(o)
    /\ MayChange(o)
    /\ \E next \in IF offer[o].phase = "normal" /\ case.overtime
                  THEN {"overtime"} ELSE {"tail"} \ {offer[o].phase} :
          offer' = [offer EXCEPT ![o].phase = next]
    /\ UNCHANGED <<pub, job, channel, feeder, faults, refusals>>

-----------------------------------------------------------------------------
(* Handing an offer to the queue: enqueue_current_offer_delivery.          *)

\* _offer_edit_first_enqueued_at: the oldest edit since the last rendering, or now
Stamp(o, a) ==
    LET waiting == {k \in RowsOf(o) : k[2] \in EditActions /\ k[3] > pub[o].version}
        now == 1 + Max({0} \cup {job[k].stamp : k \in RowsOf(o)})
    IN  CASE a \notin EditActions -> 0
          [] a \in EditActions /\ waiting = {} -> now
          [] OTHER -> Min({job[k].stamp : k \in waiting})

\* TelegramDeliveryDedupeConflictError: the key is there with other contents
Conflict(o, a) ==
    /\ job[KeyOf(o, a)].state # "absent"
    /\ \/ job[KeyOf(o, a)].content # Content(o)
       \/ job[KeyOf(o, a)].stamp # Stamp(o, a)

\* _supersede_obsolete_offer_jobs
Obsolete(o, k) == /\ k[1] = o /\ k[3] < offer[o].version
                  /\ job[k].state = "pending" /\ ~job[k].started

\* The publication deadline lies just before the final one
TooLate(o, a) == a = "publish" /\ offer[o].phase = "tail"

\* The rows after the handoff of action a for offer o
HandedOff(rows, o, a) ==
    [k \in Keys |->
        IF k[1] # o \/ TooLate(o, a) THEN rows[k]
        ELSE IF Obsolete(o, k) THEN [rows[k] EXCEPT !.state = "superseded"]
        ELSE IF a # "none" /\ k = KeyOf(o, a) /\ rows[k].state = "absent"
        THEN [state |-> "pending", content |-> Content(o),
              stamp |-> Stamp(o, a), started |-> FALSE]
        ELSE rows[k]]

-----------------------------------------------------------------------------
(* The feeder cycle: three batches, each one transaction.                  *)

\* load_offer_publication_queue_candidates
PublicationCandidates ==
    {o \in Offers : /\ Active(o) /\ ~pub[o].message /\ pub[o].status = "pending"
                    /\ \A k \in RowsOf(o) :
                          k[2] = "publish" => job[k].state \in FinalStates}

\* Mutant: only offers on sale are looked at
ActiveEditCandidates ==
    {o \in Offers : Active(o) /\ pub[o].message /\ pub[o].version # offer[o].version}

\* load_offer_edit_queue_candidates
EditCandidates ==
    {o \in Offers : pub[o].message /\ pub[o].version # offer[o].version}

\* enqueue_offer_lifecycle_channel_handoffs
LifecycleCandidates ==
    {o \in Offers : /\ Active(o) /\ pub[o].message
                    /\ offer[o].phase \in LifecycleActions
                    /\ pub[o].phase # offer[o].phase}

\* Every candidate is handed off, or one conflict undoes the batch and ends
\* the cycle
Batch(here, next, candidates, action) ==
    /\ feeder = here
    /\ IF \E o \in candidates : ~TooLate(o, action[o]) /\ Conflict(o, action[o])
       THEN feeder' = "publications" /\ UNCHANGED job
       ELSE /\ feeder' = next
            /\ job' = [k \in Keys |-> IF k[1] \in candidates
                                      THEN HandedOff(job, k[1], action[k[1]])[k]
                                      ELSE job[k]]

FeedPublications ==
    /\ Batch("publications", "edits", PublicationCandidates,
             [o \in Offers |-> CurrentAction(o)])
    /\ UNCHANGED <<offer, pub, channel, faults, refusals>>

FeedEdits ==
    /\ Batch("edits", "lifecycle", EditCandidates, [o \in Offers |-> CurrentAction(o)])
    /\ UNCHANGED <<offer, pub, channel, faults, refusals>>

PhaseOf(o) == offer[o].phase

FeedLifecycle ==
    /\ Batch("lifecycle", "publications", LifecycleCandidates,
             [o \in Offers |-> PhaseOf(o)])
    /\ pub' = IF job' = job /\ \E o \in LifecycleCandidates : Conflict(o, PhaseOf(o))
              THEN pub
              ELSE [o \in Offers |-> IF o \in LifecycleCandidates
                                     THEN [pub[o] EXCEPT !.phase = PhaseOf(o)]
                                     ELSE pub[o]]
    /\ UNCHANGED <<offer, channel, faults, refusals>>

\* _queue_authoritative_channel_offer_refresh: someone pressed a stale button
ButtonRefresh(o) ==
    LET a == IF Active(o) THEN "button" ELSE "closed"
    IN  /\ pub[o].message
        /\ ~Conflict(o, a)
        /\ job' = HandedOff(job, o, a)
        /\ UNCHANGED <<offer, pub, channel, feeder, faults, refusals>>

-----------------------------------------------------------------------------
(* The worker.                                                             *)

\* Mutant: the version of the row is not compared
VerdictAnyVersion(k) ==
    LET o == k[1]
        a == k[2]
    IN  CASE a = "publish" /\ pub[o].message -> "sent_noop"
          [] a = "publish" /\ ~pub[o].message /\ ~Active(o) -> "superseded"
          [] OTHER -> "send"

\* validate_offer_telegram_delivery_freshness: "send", a state, or an action
\* that replaces this one
Verdict(k) ==
    LET o == k[1]
        a == k[2]
        old == k[3] < offer[o].version
        drift == job[k].content # Content(o)
    IN  CASE a = "publish" /\ pub[o].message -> "sent_noop"
          [] a = "publish" /\ ~pub[o].message /\ (~Active(o) \/ TooLate(o, a)) -> "superseded"
          [] a \notin {"publish", "closed"} /\ ~Active(o) -> "closed"
          [] (a # "publish" /\ Active(o) /\ offer[o].phase \in LifecycleActions \ {a}) ->
                offer[o].phase
          [] OTHER -> IF old THEN a ELSE IF drift THEN "quarantined" ELSE "send"

Busy(k) == \E x \in Keys \ {k} : Unsettled(x)

\* Claim, freshness, marker: the payload is current when the marker commits
Dispatch(k) ==
    /\ job[k].state = "pending"
    /\ ~Busy(k)
    /\ Verdict(k) = "send"
    /\ job' = [job EXCEPT ![k].state = "leased", ![k].started = TRUE]
    /\ UNCHANGED <<offer, pub, channel, feeder, faults, refusals>>

\* apply_freshness: a verdict that settles the row
Settle(k) ==
    LET o == k[1]
        v == Verdict(k)
        done == job[KeyOf(o, v)]
    IN  /\ (job[k].state = "pending" /\ ~Busy(k)) \/ job[k].state = "pending_reconcile"
        /\ \/ /\ v \in FinalStates
              /\ job' = [job EXCEPT ![k].state = v]
              /\ pub' = IF v = "superseded" /\ ~pub[o].message
                        THEN [pub EXCEPT ![o].status = "disabled",
                                         ![o].version = offer[o].version]
                        ELSE pub
           \/ /\ v \in Actions
              /\ \/ /\ done.state \in {"sent", "sent_noop"}
                    /\ job' = [job EXCEPT ![k].state = "superseded"]
                 \/ /\ done.state \notin {"sent", "sent_noop"}
                    /\ ~Conflict(o, v)
                    /\ job' = [HandedOff(job, o, v) EXCEPT ![k].state = "superseded"]
              /\ UNCHANGED pub
        /\ UNCHANGED <<offer, channel, feeder, faults, refusals>>

\* reconcile_telegram_delivery_jobs: an edit whose call was lost is repeated
Repeat(k) ==
    /\ job[k].state = "pending_reconcile"
    /\ Verdict(k) = "send"
    /\ job' = [job EXCEPT ![k].state = "pending", ![k].started = FALSE]
    /\ UNCHANGED <<offer, pub, channel, feeder, faults, refusals>>

Landed(k) ==
    channel' = [channel EXCEPT ![k[1]].copies = IF k[2] = "publish" THEN @ + 1 ELSE @,
                               ![k[1]].content = job[k].content]

\* apply_delivery_result on success: the offer's version of now is recorded.
\* Storing the message id in the offer row advances its version.
Recorded(k) ==
    LET o == k[1]
        v == IF k[2] = "publish" THEN offer[o].version + 1 ELSE offer[o].version
    IN  /\ offer' = [offer EXCEPT ![o].version = v]
        /\ pub' = [pub EXCEPT ![o].message = TRUE, ![o].version = v,
                              ![o].status = IF Active(o) THEN "sent" ELSE "disabled"]
        /\ job' = [job EXCEPT ![k].state = "sent"]

Delivered(k) ==
    /\ job[k].state = "leased"
    /\ Landed(k)
    /\ Recorded(k)
    /\ UNCHANGED <<feeder, faults, refusals>>

\* Mutant: a publication that timed out is tried again
RetriedUnknown(k) == {"pending"}

\* A timeout, or a crash before the answer was recorded
UnknownStates(k) ==
    IF k[2] = "publish" THEN {"ambiguous"} ELSE {"pending", "pending_reconcile"}

Unknown(k) ==
    /\ job[k].state = "leased"
    /\ faults < case.faults /\ faults' = faults + 1
    /\ Landed(k) \/ UNCHANGED channel
    /\ \E s \in UnknownStates(k) : job' = [job EXCEPT ![k].state = s]
    /\ UNCHANGED <<offer, pub, feeder, refusals>>

\* 429 or a failure before the request was written
NotSent(k) ==
    /\ job[k].state = "leased"
    /\ faults < case.faults /\ faults' = faults + 1
    /\ job' = [job EXCEPT ![k].state = "pending"]
    /\ UNCHANGED <<offer, pub, channel, feeder, refusals>>

\* The message or the chat is gone
Refused(k) ==
    /\ job[k].state = "leased"
    /\ refusals < case.refusals /\ refusals' = refusals + 1
    /\ job' = [job EXCEPT ![k].state = "permanent_undeliverable"]
    /\ UNCHANGED <<offer, pub, channel, feeder, faults>>

\* resolve_ambiguous_telegram_delivery_job: the operator looks into the channel
Resolve(k) ==
    /\ job[k].state = "ambiguous"
    /\ \/ channel[k[1]].copies > 0 /\ Recorded(k)
       \/ /\ channel[k[1]].copies = 0
          /\ job' = [job EXCEPT ![k].state = "pending", ![k].started = FALSE]
          /\ UNCHANGED <<offer, pub>>
    /\ UNCHANGED <<channel, feeder, faults, refusals>>

Answer(k) == Delivered(k) \/ Unknown(k) \/ NotSent(k) \/ Refused(k)

Step ==
    \/ FeedPublications \/ FeedEdits \/ FeedLifecycle
    \/ \E o \in Offers : Trade(o) \/ Close(o) \/ PhasePasses(o) \/ ButtonRefresh(o)
    \/ \E k \in Keys : Dispatch(k) \/ Settle(k) \/ Repeat(k) \/ Answer(k) \/ Resolve(k)

Next == Step /\ UNCHANGED case

Spec == Init /\ [][Next]_vars

\* The loops run, calls end, time passes, the expiry loop closes an offer past
\* its final deadline, the operator attends to ambiguous rows.
FairSpec ==
    /\ Spec
    /\ WF_vars(UNCHANGED case /\ (FeedPublications \/ FeedEdits \/ FeedLifecycle))
    /\ \A o \in Offers : /\ WF_vars(UNCHANGED case /\ PhasePasses(o))
                         /\ WF_vars(UNCHANGED case /\ offer[o].phase = "tail" /\ Close(o))
    /\ WF_vars(UNCHANGED case /\ \E k \in Keys : Dispatch(k) \/ Settle(k) \/ Repeat(k) \/ Resolve(k))
    /\ WF_vars(UNCHANGED case /\ \E k \in Keys : Answer(k))

-----------------------------------------------------------------------------
(* Properties.                                                             *)

\* An offer has at most one message in the channel, whatever is retried,
\* reclassified, enqueued again for a newer version or resolved by hand
\* (telegram_offer_queue_service.py:566, telegram_delivery_offer_freshness.py).
PublishedOnce == \A o \in Offers : channel[o].copies <= 1

\* The message never goes back: not to an older revision, and not to an
\* earlier phase of the same one (telegram_delivery_offer_freshness.py).
Rank(content) == <<content[1], CASE content[2] = "normal" -> 0 [] content[2] = "overtime" -> 1
                                 [] content[2] = "tail" -> 2 [] OTHER -> 3>>
NeverShownOlder ==
    [][\A o \in Offers :
          (channel[o].copies > 0 /\ channel'[o].content # channel[o].content) =>
              LET x == Rank(channel[o].content)
                  y == Rank(channel'[o].content)
              IN  x[1] < y[1] \/ (x[1] = y[1] /\ x[2] < y[2])]_vars

\* A published offer that closes is shown closed in the end, provided no offer
\* changes during a call for it and Telegram refuses nothing for good
\* (telegram_offer_queue_service.py:627, telegram_offer_queue_feedback.py:198).
ClosedIsShown ==
    \A o \in Offers :
        (~Active(o) /\ pub[o].message /\ ~case.racing /\ case.refusals = 0)
            ~> (channel[o].content[2] = "closed")
=============================================================================
