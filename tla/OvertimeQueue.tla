--------------------------- MODULE OvertimeQueue ---------------------------
(***************************************************************************)
(* The approval queue of one offer owner on one home server               *)
(* (core/services/offer_overtime_request_service.py and its callers).      *)
(*                                                                         *)
(* A trade request that reaches an offer after its normal lifetime does    *)
(* not trade: it becomes an overtime request that waits for the owner.     *)
(* At most one request at a time is in front of the owner (the owner's     *)
(* seat); the others wait in a FIFO queue and are promoted when the seat   *)
(* is released.                                                            *)
(*                                                                         *)
(* The rows live in PostgreSQL and every operation is one READ COMMITTED   *)
(* transaction.  A transaction reads committed rows, keeps its own writes  *)
(* to itself until it commits, and holds the row locks it took with        *)
(* FOR UPDATE.  Sessions are created with autoflush=False, so a query      *)
(* sees the session's own changes only after an explicit flush.            *)
(***************************************************************************)
EXTENDS Integers, Sequences, FiniteSets, FiniteSetsExt

CONSTANTS
    Offers,          \* overtime offers of this owner
    Requesters,      \* users who may ask for a trade (the owner is not one)
    Tx,              \* database sessions that can be open at the same time
    Home,            \* "iran" (WebApp) or "foreign" (Telegram)
    Final,           \* Final[o]: final_deadline_at of offer o, in ticks
    DecisionTicks,   \* OVERTIME_DECISION_SECONDS
    CooldownTicks,   \* OVERTIME_COOLDOWN_SECONDS
    GraceTicks,      \* OVERDUE_DELIVERING_GRACE
    TransitTicks,    \* the age a receipt can have when it reaches its home
    MaxOutstanding,  \* MAX_OUTSTANDING_REQUESTS_PER_REQUESTER
    MaxRows,         \* bound: request rows ever created
    MaxTime          \* bound: the clock stops here

ASSUME OvertimeAssumption ==
    /\ IsFiniteSet(Tx)
    /\ Home \in {"iran", "foreign"}
    /\ Final \in [Offers -> Nat]
    /\ DecisionTicks \in Nat \ {0}
    /\ CooldownTicks \in Nat /\ GraceTicks \in Nat /\ TransitTicks \in Nat
    /\ MaxOutstanding \in Nat /\ MaxRows \in Nat /\ MaxTime \in Nat

VARIABLES
    rows,     \* committed offer_requests rows, in order of id
    ostatus,  \* committed status of each offer
    tx,       \* the open transactions
    sent,     \* ids of rows whose approval message Telegram has accepted
    now       \* the clock

vars == <<rows, ostatus, tx, sent, now>>

Occupying == {"delivering", "presented"}
Nonterminal == {"queued"} \cup Occupying
Terminal == {"completed", "rejected", "decision_expired", "cancelled",
             "invalidated"}
CooldownTrigger == {"rejected", "decision_expired"}

Row == [offer : Offers, requester : Requesters, seq : 1..MaxRows,
        status : Nonterminal \cup Terminal, received : 0..MaxTime,
        deadline : 0..(MaxTime + DecisionTicks),
        decided : 0..MaxTime]

\* A session with no transaction open.
Idle == [op |-> "idle", upd |-> <<>>, ins |-> <<>>, offers |-> <<>>,
         rowLocks |-> {}, offerLocks |-> {}, userLocks |-> {}, stale |-> FALSE]

(***************************************************************************)
(* Locks.  A statement that needs a lock another transaction holds waits,  *)
(* so the action that takes the lock is not enabled until then.            *)
(***************************************************************************)
Others(t) == Tx \ {t}
\* Mutant: no FOR UPDATE on request rows.
RowsUnlocked(t, R) == t \in Tx

RowsFree(t, R) == \A u \in Others(t) : tx[u].rowLocks \cap R = {}
OffersFree(t, O) == \A u \in Others(t) : tx[u].offerLocks \cap O = {}
UserFree(t, q) == \A u \in Others(t) : q \notin tx[u].userLocks

(***************************************************************************)
(* Reading the rows.  A view is what a query of the session returns.       *)
(***************************************************************************)
WithStatus(view, S) == {i \in DOMAIN view : view[i].status \in S}
OnOffer(view, O) == {i \in DOMAIN view : view[i].offer \in O}
OpenOf(view, q) == {i \in WithStatus(view, Nonterminal) : view[i].requester = q}

\* ORDER BY queue_sequence, id
Before(view, i, j) ==
    \/ view[i].seq < view[j].seq
    \/ view[i].seq = view[j].seq /\ i < j

_next_queue_sequence(view) == 1 + Max({0} \cup {view[i].seq : i \in DOMAIN view})

\* cooldown_remaining_seconds > 0 for this requester on this offer
CoolingDown(view, q, o) ==
    \E i \in WithStatus(view, CooldownTrigger) :
        /\ view[i].requester = q /\ view[i].offer = o
        /\ now < view[i].decided + CooldownTicks

(***************************************************************************)
(* Changing a row.                                                         *)
(***************************************************************************)
\* _apply_overtime_transition to a terminal status.  Times that nothing reads
\* again are cleared: decided_at is read for the cooldown only.
Decide(row, s) ==
    [row EXCEPT !.status = s, !.received = 0, !.deadline = 0,
                !.decided = IF s \in CooldownTrigger THEN now ELSE 0]

\* The decision clock starts here.
Presented(row) == [row EXCEPT !.status = "presented", !.received = 0,
                              !.deadline = now + DecisionTicks]

\* The seat goes to the row: the WebApp shows it at once, Telegram needs a
\* message first.
Seat(row) == IF Home = "iran"
             THEN Presented(row)
             ELSE [row EXCEPT !.status = "delivering"]

\* _revalidate_offer_for_promotion; os is the status the session reads.
Promotable(row, os) == os[row.offer] = "active" /\ now < Final[row.offer]

\* promote_next_for_owner.  The queue is walked in FIFO order: a row that
\* fails revalidation, or whose owner cannot be reached on Telegram, is
\* invalidated and the walk goes on; the first row that passes takes the seat.
\* Nothing happens when the query still sees a row in the seat.
promote_next_for_owner(view, os, reachable) ==
    LET queued == WithStatus(view, {"queued"})
        fit    == {i \in queued : reachable /\ Promotable(view[i], os)}
        first  == {i \in fit : \A j \in fit \ {i} : Before(view, i, j)}
        unfit  == {i \in queued \ fit : \A j \in first : Before(view, i, j)}
    IN  IF WithStatus(view, Occupying) # {}
        THEN view
        ELSE [i \in DOMAIN view |->
                CASE i \in first -> Seat(view[i])
                  [] i \in unfit -> Decide(view[i], "invalidated")
                  [] OTHER -> view[i]]

\* What enqueue_overtime_owner_approval_delivery can answer for the owner: on
\* the Telegram side the account may be unlinked or denied.
Reachable == IF Home = "foreign" THEN BOOLEAN ELSE {TRUE}

\* Rows of the view that differ from the committed ones: these are locked by
\* the update and written at commit.
Changed(view) == {i \in DOMAIN rows : view[i] # rows[i]}

\* The session holds the writes of view until it commits: the changed rows,
\* the row it inserts, the offers it changes.
Open(t, op, view, O, os, users) ==
    LET ch == Changed(view)
    IN  /\ RowsFree(t, ch)
        /\ tx' = [tx EXCEPT ![t] =
             [op |-> op,
              upd |-> [i \in ch |-> view[i]],
              ins |-> SubSeq(view, Len(rows) + 1, Len(view)),
              offers |-> [o \in O |-> os[o]],
              rowLocks |-> ch, offerLocks |-> O, userLocks |-> users,
              stale |-> FALSE]]
        /\ UNCHANGED <<rows, ostatus, sent, now>>

----------------------------------------------------------------------------
Init ==
    /\ rows = <<>>
    /\ ostatus = [o \in Offers |-> "active"]
    /\ tx = [t \in Tx |-> Idle]
    /\ sent = {}
    /\ now = 0

Tick ==
    /\ now < MaxTime
    /\ now' = now + 1
    /\ UNCHANGED <<rows, ostatus, tx, sent>>

\* create_overtime_request, called by the trade handler with the requester's
\* user row and the offer row locked.  The receipt time decides the intake
\* phase, the clock decides the promotion.
Create(t, o, q) ==
    \E received \in {r \in 0..now : r >= now - TransitTicks}, ok \in Reachable :
        LET new == [offer |-> o, requester |-> q,
                    seq |-> _next_queue_sequence(rows), status |-> "queued",
                    received |-> received, deadline |-> 0,
                    decided |-> 0]
        IN  /\ tx[t] = Idle
            /\ Len(rows) + Cardinality({u \in Tx : tx[u].ins # <<>>}) < MaxRows
            /\ UserFree(t, q) /\ OffersFree(t, {o})
            /\ received < Final[o]
            /\ ostatus[o] = "active"
            /\ WithStatus(rows, Nonterminal) \cap OnOffer(rows, {o}) = {}
            /\ ~CoolingDown(rows, q, o)
            /\ Cardinality(OpenOf(rows, q)) < MaxOutstanding
            /\ OpenOf(rows, q) = {}   \* one open request per owner
            /\ Open(t, "create", promote_next_for_owner(Append(rows, new), ostatus, ok),
                    {o}, ostatus, {q})

\* Committed rows R are closed with status s and flushed, then the seat is
\* offered to the queue.
CloseAndPromote(t, op, R, s, O, os) ==
    \E ok \in Reachable :
        LET closed == [i \in DOMAIN rows |-> IF i \in R THEN Decide(rows[i], s) ELSE rows[i]]
        IN  /\ RowsFree(t, R)
            /\ Open(t, op, promote_next_for_owner(closed, os, ok), O, os, {})

\* cancel_by_requester
Cancel(t, i) ==
    /\ tx[t] = Idle
    /\ rows[i].status \in Nonterminal
    /\ CloseAndPromote(t, "cancel", {i}, "cancelled", {}, ostatus)

\* _ensure_owner_may_decide
OwnerMayDecide(i) == rows[i].status = "presented" /\ now < rows[i].deadline

\* reject_by_owner
Reject(t, i) ==
    /\ tx[t] = Idle
    /\ OwnerMayDecide(i)
    /\ CloseAndPromote(t, "reject", {i}, "rejected", {}, ostatus)

\* approve_overtime_request: the trade path runs again with the row.  The
\* trade may take all of the offer or a part; a part taken after the final
\* deadline expires the rest.  A failed business check invalidates the row.
\* Both release the seat.
Approve(t, i) ==
    LET o    == rows[i].offer
        left == IF now >= Final[o] THEN "expired" ELSE "active"
    IN  /\ tx[t] = Idle
        /\ OwnerMayDecide(i)
        /\ UserFree(t, rows[i].requester)
        /\ OffersFree(t, {o})
        /\ ostatus[o] = "active"
        /\ \/ \E s \in {"completed", left} :
                 CloseAndPromote(t, "approve", {i}, "completed", {o},
                                 [ostatus EXCEPT ![o] = s])
           \/ CloseAndPromote(t, "refuse", {i}, "invalidated", {o}, ostatus)

\* invalidate_overtime_requests_for_user: the account of a requester is
\* deleted or deactivated.
RequesterClosed(t, q) ==
    /\ tx[t] = Idle
    /\ OpenOf(rows, q) # {}
    /\ CloseAndPromote(t, "user", OpenOf(rows, q), "invalidated", {}, ostatus)

\* Telegram accepts the approval message that the freshness validator has
\* just passed; the row is only read, without a lock.
Dispatch(i) ==
    /\ rows[i].status = "delivering" /\ i \notin sent
    /\ Promotable(rows[i], ostatus)
    /\ sent' = sent \cup {i}
    /\ UNCHANGED <<rows, ostatus, tx, now>>

\* apply_delivery_result -> mark_presented
Deliver(t, i) ==
    /\ tx[t] = Idle
    /\ rows[i].status = "delivering" /\ i \in sent
    /\ RowsFree(t, {i})
    /\ Open(t, "deliver", [rows EXCEPT ![i] = Presented(rows[i])], {}, ostatus, {})

\* apply_freshness with EXPIRED_INTERACTION: the offer died, its deadline
\* passed, or the owner can no longer be reached.
DeliveryExpired(t, i) ==
    /\ tx[t] = Idle
    /\ rows[i].status = "delivering" /\ i \notin sent
    /\ CloseAndPromote(t, "stale", {i}, "invalidated", {}, ostatus)

\* Mutant: the sweep does not compare the deadline with the clock.
OverdueWhenPresented(row) == row.status = "presented"

Overdue(row) ==
    \/ row.status = "presented" /\ row.deadline <= now
    \/ row.status = "delivering" /\ now >= row.received + GraceTicks

ClosedOverdue(row) ==
    Decide(row, IF row.status = "presented" THEN "decision_expired" ELSE "invalidated")

\* _sweep_overdue_overtime_decisions: overdue presented and delivering rows
\* that are not locked (SKIP LOCKED).  expire_decision is called with
\* flush=False, so the promotion it asks for queries the rows as they are
\* committed; an overdue delivering row asks for no promotion.
Sweep(t) ==
    \E ok \in Reachable :
        LET due  == {i \in DOMAIN rows : Overdue(rows[i]) /\ RowsFree(t, {i})}
            late == due \cap WithStatus(rows, {"presented"})
            seen == IF late = {} THEN rows
                    ELSE promote_next_for_owner(rows, ostatus, ok)
        IN  /\ tx[t] = Idle
            /\ due # {}
            /\ Open(t, "sweep",
                    [i \in DOMAIN rows |-> IF i \in due THEN ClosedOverdue(rows[i])
                                           ELSE seen[i]],
                    {}, ostatus, {})

\* reconcile_overtime_requests with --apply.  Rows of dead offers, and queued
\* rows past the final deadline, are closed without a flush and the seat is
\* offered; the promotion queries the committed rows, so when it meets a row
\* that fails revalidation it meets the same row for ever and the run fails.
Reconcile(t) ==
    \E ok \in Reachable :
        LET bad  == {i \in WithStatus(rows, Nonterminal) :
                       \/ ostatus[rows[i].offer] # "active"
                       \/ rows[i].status = "queued" /\ now >= Final[rows[i].offer]}
            due  == {i \in DOMAIN rows : Overdue(rows[i])}
            free == bad # {} /\ WithStatus(rows, Occupying) = {}
            queued == WithStatus(rows, {"queued"})
            head == {i \in queued : free /\ \A j \in queued \ {i} : Before(rows, i, j)}
        IN  /\ tx[t] = Idle
            /\ bad \cup due # {}
            /\ RowsFree(t, bad \cup due)
            /\ \A i \in head : Promotable(rows[i], ostatus)
            /\ Open(t, "reconcile",
                    [i \in DOMAIN rows |->
                       CASE i \in bad -> Decide(rows[i], "invalidated")
                         [] i \in due \ bad -> ClosedOverdue(rows[i])
                         [] i \in head -> IF ok THEN Seat(rows[i])
                                          ELSE Decide(rows[i], "invalidated")
                         [] OTHER -> rows[i]],
                    {}, ostatus, {})

\* Mutant: an offer with any open request is spared, not only one in the seat.
DueWithoutQueue(o) ==
    /\ ostatus[o] = "active" /\ now >= Final[o]
    /\ WithStatus(rows, Nonterminal) \cap OnOffer(rows, {o}) = {}

\* terminal_expiry_due: past the final deadline and no request in the seat.
Due(o) ==
    /\ ostatus[o] = "active" /\ now >= Final[o]
    /\ WithStatus(rows, Occupying) \cap OnOffer(rows, {o}) = {}

\* expire_offers_authoritatively: the nonterminal rows of the offers are
\* closed, then the seat is offered if one of them was open.
ExpiredView(os, R, ok) ==
    LET closed == [i \in DOMAIN rows |-> IF i \in R THEN Decide(rows[i], "invalidated")
                                         ELSE rows[i]]
    IN  IF R = {} THEN rows
        ELSE promote_next_for_owner(closed, os, ok)

Expired(O) == [o \in Offers |-> IF o \in O THEN "expired" ELSE ostatus[o]]

\* The owner expires an offer by hand: the offer row is locked first (NOWAIT).
ExpireByOwner(t, o) ==
    \E ok \in Reachable :
        LET open == WithStatus(rows, Nonterminal) \cap OnOffer(rows, {o})
        IN  /\ tx[t] = Idle
            /\ ostatus[o] = "active"
            /\ OffersFree(t, {o}) /\ RowsFree(t, open)
            /\ Open(t, "expire", ExpiredView(Expired({o}), open, ok), {o},
                    Expired({o}), {})

\* expire_stale_offers, first half: the due offers and their open rows are
\* read; the rows are locked, the offers are not.
ExpiryScan(t) ==
    LET O    == {o \in Offers : Due(o)}
        open == WithStatus(rows, Nonterminal) \cap OnOffer(rows, O)
    IN  /\ tx[t] = Idle
        /\ O # {}
        /\ RowsFree(t, open)
        /\ tx' = [tx EXCEPT ![t] = [Idle EXCEPT !.op = "scanned",
                                                !.offers = [o \in O |-> "expired"],
                                                !.rowLocks = open]]
        /\ UNCHANGED <<rows, ostatus, sent, now>>

\* Second half: the flush writes the offers (waiting for a session that has
\* one locked) and closes the rows read before; a version that moved on since
\* the scan is a StaleDataError and the scan starts again.
ExpiryFlush(t) ==
    /\ tx[t].op = "scanned" /\ ~tx[t].stale
    /\ LET O == DOMAIN tx[t].offers
       IN  /\ OffersFree(t, O)
           /\ \E ok \in Reachable :
                Open(t, "expire", ExpiredView(Expired(O), tx[t].rowLocks, ok), O,
                     Expired(O), {})

ExpiryRetry(t) ==
    /\ tx[t].op = "scanned" /\ tx[t].stale
    /\ tx' = [tx EXCEPT ![t] = Idle]
    /\ UNCHANGED <<rows, ostatus, sent, now>>

\* The unique indexes over the committed rows and the session's own writes.
AfterCommit(t) ==
    [i \in 1..(Len(rows) + Len(tx[t].ins)) |->
        IF i \in DOMAIN tx[t].upd THEN tx[t].upd[i]
        ELSE IF i \in DOMAIN rows THEN rows[i] ELSE tx[t].ins[i - Len(rows)]]

\* ux_offer_requests_overtime_owner_occupied and _active_per_offer
IndexesHold(view) ==
    /\ Cardinality(WithStatus(view, Occupying)) <= 1
    /\ \A o \in Offers :
         Cardinality(WithStatus(view, Nonterminal) \cap OnOffer(view, {o})) <= 1

\* An offer row that this commit updates makes an earlier read of it stale.
Touched(t) == {o \in DOMAIN tx[t].offers :
                 tx[t].op = "approve" \/ tx[t].offers[o] # ostatus[o]}

Commit(t) ==
    /\ tx[t].op \notin {"idle", "scanned"}
    /\ IndexesHold(AfterCommit(t))
    /\ rows' = AfterCommit(t)
    /\ ostatus' = [o \in Offers |-> IF o \in DOMAIN tx[t].offers
                                    THEN tx[t].offers[o] ELSE ostatus[o]]
    /\ tx' = [u \in Tx |->
                IF u = t THEN Idle
                ELSE IF tx[u].op = "scanned" /\ Touched(t) \cap DOMAIN tx[u].offers # {}
                     THEN [tx[u] EXCEPT !.stale = TRUE] ELSE tx[u]]
    /\ UNCHANGED <<sent, now>>

\* IntegrityError: the transaction is rolled back and the caller gets an
\* error.
Abort(t) ==
    /\ tx[t].op \notin {"idle", "scanned"}
    /\ ~IndexesHold(AfterCommit(t))
    /\ tx' = [tx EXCEPT ![t] = Idle]
    /\ UNCHANGED <<rows, ostatus, sent, now>>

Next ==
    \/ Tick
    \/ \E t \in Tx :
        \/ \E o \in Offers, q \in Requesters : Create(t, o, q)
        \/ \E i \in DOMAIN rows : Cancel(t, i)
        \/ \E i \in DOMAIN rows : Reject(t, i)
        \/ \E i \in DOMAIN rows : Approve(t, i)
        \/ \E i \in DOMAIN rows : Deliver(t, i)
        \/ \E i \in DOMAIN rows : DeliveryExpired(t, i)
        \/ \E q \in Requesters : RequesterClosed(t, q)
        \/ Sweep(t)
        \/ Reconcile(t)
        \/ \E o \in Offers : ExpireByOwner(t, o)
        \/ ExpiryScan(t)
        \/ ExpiryFlush(t)
        \/ ExpiryRetry(t)
        \/ Commit(t)
        \/ Abort(t)
    \/ \E i \in DOMAIN rows : Dispatch(i)

Spec == Init /\ [][Next]_vars

(***************************************************************************)
(* Fairness: the clock runs, the expiry loop calls its scan and its sweep  *)
(* every two seconds, and an open transaction ends.  Nothing is assumed of *)
(* owners, requesters, Telegram or operators.                              *)
(***************************************************************************)
Fairness ==
    /\ WF_vars(Tick)
    /\ \A t \in Tx : /\ WF_vars(Sweep(t))
                     /\ WF_vars(ExpiryScan(t))
                     /\ WF_vars(ExpiryFlush(t))
                     /\ WF_vars(ExpiryRetry(t))
                     /\ WF_vars(Commit(t) \/ Abort(t))

FairSpec == Spec /\ Fairness

----------------------------------------------------------------------------
(***************************************************************************)
(* Properties.                                                             *)
(***************************************************************************)
\* Type invariant: rows are offer_requests rows in the statuses of the
\* overtime workflow; a session's pending writes are rows too.
TypeOK ==
    /\ rows \in Seq(Row) /\ Len(rows) <= MaxRows
    /\ ostatus \in [Offers -> {"active", "completed", "expired"}]
    /\ sent \subseteq 1..MaxRows
    /\ now \in 0..MaxTime
    /\ \A t \in Tx :
         /\ tx[t].rowLocks \subseteq DOMAIN rows
         /\ DOMAIN tx[t].upd \subseteq DOMAIN rows
         /\ \A i \in DOMAIN tx[t].upd : tx[t].upd[i] \in Row
         /\ \A i \in DOMAIN tx[t].ins : tx[t].ins[i] \in Row
         /\ tx[t].offerLocks \subseteq Offers
         /\ tx[t].userLocks \subseteq Requesters

\* A decision stands: owner, requester, sweeper, expiry and operator race for
\* the same row, and the one that closes it is never overwritten.
DecisionsAreFinal ==
    [][\A i \in DOMAIN rows : rows[i].status \in Terminal => rows'[i] = rows[i]]_vars

\* The owner keeps the decision window that started when the request was
\* shown: no promotion, delivery or sweep moves the deadline of a presented
\* request, and it is timed out only after that deadline.
DecisionWindowKept ==
    [][\A i \in DOMAIN rows :
         rows[i].status = "presented" =>
             /\ rows'[i].status = "presented" => rows'[i].deadline = rows[i].deadline
             /\ rows'[i].status = "decision_expired" =>
                    rows'[i].decided >= rows[i].deadline]_vars

\* No request stays open on an offer that goes on, whatever owners, requesters
\* and Telegram do and however their transactions overlap: even one that lost
\* its promotion is closed with its offer.  (The clock of the model stops, so
\* a window that ends later than that is not waited for.)
LiveRequestsEnd ==
    \A i \in 1..MaxRows :
        (i \in DOMAIN rows) ~>
            (i \in DOMAIN rows /\ \/ rows[i].status \in Terminal
                                  \/ ostatus[rows[i].offer] # "active"
                                  \/ rows[i].deadline > MaxTime
                                  \/ rows[i].status = "delivering"
                                     /\ rows[i].received + GraceTicks > MaxTime)
============================================================================
