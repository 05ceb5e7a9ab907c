----------------------------- MODULE OfferTrade -----------------------------
(***************************************************************************)
(* Trading on the offers of one home server (api/routers/trades.py) and    *)
(* forwarding a trade request from the other server                        *)
(* (core/trade_forwarding.py, core/trade_forward_pending.py).              *)
(*                                                                         *)
(* A request carries an idempotency key that its client repeats when it    *)
(* tries again.  Each attempt is one session of the home server: it takes  *)
(* the advisory lock of the key, the row lock of the requesting user, the  *)
(* advisory execution lock of the offer and the row lock of the offer, in  *)
(* that order, decides, and writes everything in one commit.  What it      *)
(* decides on is under these locks until then, so its decision, the locks  *)
(* its writes take besides (customer relations, foreign keys) and the      *)
(* commit are one step.  Requests that arrive at the other server are      *)
(* forwarded over HTTP; when the answer does not come in time the payload  *)
(* is kept and replayed in the background.                                 *)
(***************************************************************************)
EXTENDS Integers, FiniteSets, FiniteSetsExt, Bags

CONSTANTS
    Offers, Requests, Users,
    Tx,            \* sessions (and calls on the wire) at the same time
    OfferOf,       \* OfferOf[r]: the offer request r is for
    UserOf,        \* UserOf[r]: the requesting user
    ActorOf,       \* ActorOf[r]: who acts for the requesting user
    OwnerOf,       \* OwnerOf[o]: the owner of offer o
    Principals,    \* Principals[r]: other users the trade rows of r name
    Relations,     \* Relations[r]: customer relations whose limits r counts in
    Amount,        \* Amount[r]: the requested quantity
    Keyed,         \* requests that carry an idempotency key
    Lots,          \* Lots[o]: bag of lot sizes of offer o, empty if wholesale
    Quantity,      \* Quantity[o]: total quantity of offer o
    Limit,         \* max_daily_trades of every user
    GraceTicks,    \* trade_forward_grace_seconds
    MaxReplays,    \* RECONCILE_MAX_ATTEMPTS
    Cases,         \* the cases a run covers, see below
    MaxTime        \* bound: the clock stops here

\* A case fixes what differs between the situations one run looks at.
CaseType ==
    [normal : Nat, final : Nat,         \* deadlines of the offers (equal: no overtime)
     forwarded : SUBSET Requests,       \* requests that arrive at the other server
     tries : Nat \ {0},                 \* TRADE_TRANSIENT_RETRY_ATTEMPTS
     attempts : [Requests -> Nat]]      \* bound: times a client sends a request

\* The pieces in a bag of lots.
Pieces(lots) == MapThenSumSet(LAMBDA l : l * lots[l], BagToSet(lots))

\* validate_lot_sizes lets an offer list only lots of positive size that add up to its
\* quantity, and no more than lot_max_count of them.
ASSUME OfferTradeAssumption ==
    /\ Cases \subseteq CaseType /\ IsFiniteSet(Requests)
    /\ OfferOf \in [Requests -> Offers] /\ UserOf \in [Requests -> Users]
    /\ ActorOf \in [Requests -> Users] /\ OwnerOf \in [Offers -> Users]
    /\ \A r \in Requests : Principals[r] \subseteq Users /\ IsFiniteSet(Relations[r])
    /\ Amount \in [Requests -> Nat \ {0}]
    /\ Keyed \subseteq Requests
    /\ Quantity \in [Offers -> Nat \ {0}]
    /\ \A o \in Offers : /\ IsABag(Lots[o])
                         /\ BagToSet(Lots[o]) \subseteq Nat \ {0}
                         /\ IsFiniteSet(BagToSet(Lots[o]))
                         /\ Lots[o] # EmptyBag => Pieces(Lots[o]) = Quantity[o]
    /\ \A c \in Cases : c.normal <= c.final
    /\ Limit \in Nat /\ GraceTicks \in Nat
    /\ MaxReplays \in Nat /\ MaxTime \in Nat

VARIABLES
    offers,    \* committed offer rows
    ledger,    \* ledger[r]: status of the offer_requests row with r's key
    trades,    \* trades[r]: number of committed trades for request r
    count,     \* count[u]: committed users.trades_count
    tx,        \* the sessions
    scan,      \* what the expiry loop has read, not yet written
    told,      \* told[r]: answer to the client's last attempt, "none" while it waits
    sent,      \* sent[r]: times the client has sent r
    pending,   \* pending[r]: replays of the retained forward payload, or None
    since,     \* since[r]: receipt time in the retained payload
    tasks,     \* requests with a background replay scheduled
    now,
    case       \* the case this behaviour belongs to; it never changes

vars == <<offers, ledger, trades, count, tx, scan, told, sent, pending, since,
          tasks, now, case>>
home == <<offers, ledger, trades, count>>
edge == <<pending, since, tasks>>

None == -1
Rejections == {"expired", "lot", "rule"}
Answers == {"created", "refused", "forbidden", "busy", "overtime", "pending",
            "unreachable", "timeout", "error"}

Idle == [pc |-> "idle"]

(***************************************************************************)
(* Locks, held until the session ends.                                     *)
(***************************************************************************)
KeyLock(r) == IF r \in Keyed THEN {<<"key", r>>} ELSE {}
Held(t) == IF tx[t] = Idle THEN {} ELSE tx[t].locks
\* Mutant: neither lock of the offer is respected.
FreeButOffer(t, L) ==
    \A u \in Tx \ {t} : \A l \in L \cap Held(u) : l[1] \in {"offer", "exec"}

Free(t, L) == \A u \in Tx \ {t} : Held(u) \cap L = {}

\* The overtime rows of an offer.
RowsOf(o) == {<<"row", r>> : r \in {q \in Requests : OfferOf[q] = o /\ ledger[q] = "overtime"}}

\* Inserting the offer_requests row of a direct request takes FOR KEY SHARE on
\* the row of the acting user its foreign key names; a row that is already
\* there under the key is used as it is.
LedgerLocks(r) ==
    IF r \in Keyed /\ ledger[r] # "none" THEN {} ELSE {<<"user", ActorOf[r]>>}

\* The rows a commit for r needs besides: customer relations FOR UPDATE, the
\* users that the new trade (or overtime) rows name FOR KEY SHARE, and for an
\* approval the overtime rows that end with it.
CommitLocks(r, mode) ==
    {<<"relation", c>> : c \in Relations[r]}
        \cup {<<"user", u>> : u \in Principals[r] \cup {ActorOf[r], OwnerOf[OfferOf[r]]}}
        \cup (IF mode = "approve" THEN RowsOf(OfferOf[r]) ELSE LedgerLocks(r))

\* The locks a session waits for where it is; without a lease it does not wait
\* for the execution lock, but writes its refusal.
Wants(t) ==
    CASE tx[t].pc \in {"key", "late"} -> KeyLock(tx[t].req)
      [] tx[t].pc = "user" -> {<<"user", UserOf[tx[t].req]>>}
      [] tx[t].pc = "exec" /\ tx[t].gated -> {<<"exec", OfferOf[tx[t].req]>>}
      [] tx[t].pc = "exec" /\ ~tx[t].gated -> {<<"user", ActorOf[tx[t].req]>>}
      [] tx[t].pc = "row" -> {<<"offer", OfferOf[tx[t].req]>>}
      [] tx[t].pc = "relock" -> {<<"row", tx[t].req>>}
      [] tx[t].pc = "decide" -> CommitLocks(tx[t].req, tx[t].mode)
      [] OTHER -> {}

\* The locks a session may have: one that writes may have got some of those it
\* takes on the way to its commit.
MayHold(t) == Held(t) \cup (IF tx[t].pc = "decide" THEN Wants(t) ELSE {})

\* The session has no more to do than to write.
Writing(t) == tx[t].pc = "decide" \/ (tx[t].pc = "exec" /\ ~tx[t].gated)

(***************************************************************************)
(* Offers.                                                                 *)
(***************************************************************************)
\* classify_request_intake_phase
Intake(o, at) ==
    CASE at < case.normal -> "automatic"
      [] at > case.normal /\ at < case.final -> "approval"
      [] OTHER -> "rejected"

\* get_available_trade_amounts
AvailableAmounts(of) ==
    IF of.remaining <= 0 THEN {}
    ELSE {of.remaining} \cup {l \in BagToSet(of.lots) : l <= of.remaining}

\* _apply_offer_trade_mutation
Traded(of, q) ==
    IF of.remaining - q = 0
    THEN [of EXCEPT !.remaining = 0, !.lots = EmptyBag, !.status = "completed"]
    ELSE [of EXCEPT !.remaining = @ - q, !.lots = @ (-) SetToBag({q})]

\* apply_offer_expiry
Expired(of, why) == [of EXCEPT !.status = "expired", !.reason = why]

\* Mutant: the grace applies to every expired offer.
AnyExpiryInGrace(of, at, o) ==
    of.status = "expired" /\ Intake(o, at) = "automatic" /\ now - at <= GraceTicks

\* allow_in_flight_after_time_limit_expiry: the expiry loop was faster than a
\* request that arrived in time.
InFlight(of, at, o) ==
    /\ of.status = "expired" /\ of.reason = "time_limit"
    /\ Intake(o, at) = "automatic"
    /\ now - at <= GraceTicks

----------------------------------------------------------------------------
Init ==
    /\ offers = [o \in Offers |-> [status |-> "active", reason |-> "none",
                                   remaining |-> Quantity[o], lots |-> Lots[o]]]
    /\ ledger = [r \in Requests |-> "none"]
    /\ trades = [r \in Requests |-> 0]
    /\ count = [u \in Users |-> 0]
    /\ tx = [t \in Tx |-> Idle]
    /\ scan = <<>>
    /\ told = [r \in Requests |-> "none"]
    /\ sent = [r \in Requests |-> 0]
    /\ pending = [r \in Requests |-> None]
    /\ since = [r \in Requests |-> 0]
    /\ tasks = {}
    /\ now = 0
    /\ case \in Cases

Tick ==
    /\ now < MaxTime
    /\ now' = now + 1
    /\ UNCHANGED <<home, tx, scan, told, sent, edge>>

\* A session for request r: the user row is read when the caller is
\* authenticated, long before it is locked.
Session(r, mode, caller, at, gated) ==
    [pc |-> IF mode = "approve" THEN "user" ELSE "key",
     req |-> r, mode |-> mode, caller |-> caller, at |-> at, gated |-> gated,
     tries |-> 1, seen |-> count[UserOf[r]], view |-> <<>>,
     locks |-> IF mode = "approve" THEN {<<"row", r>>} ELSE {}]

\* The session ends with answer a.  A background replay counts an answer of
\* 500 or more as no answer and forgets the payload on any other.
Finish(t, a) ==
    LET r == tx[t].req
        c == tx[t].caller
    IN  /\ tx' = [tx EXCEPT ![t] = Idle]
        /\ told' = IF c \in {"client", "source"}
                   THEN [told EXCEPT ![r] = a] ELSE told
        /\ pending' = IF c = "replay"
                      THEN [pending EXCEPT ![r] = IF a = "error" /\ @ # None
                                                  THEN @ + 1 ELSE None]
                      ELSE pending
        /\ UNCHANGED <<scan, sent, since, tasks, now>>

(***************************************************************************)
(* Requests reach the home server.                                         *)
(***************************************************************************)
\* create_trade on the home server; the Redis gate lets the request in.  A
\* lease with a token makes it wait for the offer instead of giving up.
Receive(t, r) ==
    /\ tx[t] = Idle /\ r \notin case.forwarded
    /\ sent[r] < case.attempts[r]
    /\ sent' = [sent EXCEPT ![r] = @ + 1]
    /\ told' = [told EXCEPT ![r] = "none"]
    /\ \E gated \in BOOLEAN :
         tx' = [tx EXCEPT ![t] = Session(r, "direct", "client", now, gated)]
    /\ UNCHANGED <<home, scan, edge, now>>

\* The Redis gate is full: 409 before anything else.
GateFull(r) ==
    /\ sent[r] < case.attempts[r]
    /\ sent' = [sent EXCEPT ![r] = @ + 1]
    /\ told' = [told EXCEPT ![r] = "busy"]
    /\ UNCHANGED <<home, tx, scan, edge, now>>

\* _forward_trade_if_remote_home: the call is on its way.
Forward(t, r) ==
    /\ tx[t] = Idle /\ r \in case.forwarded
    /\ sent[r] < case.attempts[r]
    /\ sent' = [sent EXCEPT ![r] = @ + 1]
    /\ told' = [told EXCEPT ![r] = "none"]
    /\ \E gated \in BOOLEAN :
         tx' = [tx EXCEPT ![t] = [Session(r, "direct", "source", now, gated)
                                  EXCEPT !.pc = "wire", !.seen = 0]]
    /\ UNCHANGED <<home, scan, edge, now>>

\* execute_trade_internal: the call arrives, the responder is loaded.
Arrive(t) ==
    /\ tx[t].pc = "wire"
    /\ tx' = [tx EXCEPT ![t].pc = "key", ![t].seen = count[UserOf[tx[t].req]]]
    /\ UNCHANGED <<home, scan, told, sent, edge, now>>

\* The call never arrives.
Lose(t) ==
    /\ tx[t].pc = "wire" /\ tx[t].caller = "gone"
    /\ tx' = [tx EXCEPT ![t] = Idle]
    /\ UNCHANGED <<home, scan, told, sent, edge, now>>

\* approve_overtime_request: the owner accepts the overtime request; its row
\* stays locked.
Approve(t, r) ==
    /\ tx[t] = Idle
    /\ ledger[r] = "overtime" /\ Free(t, {<<"row", r>>})
    /\ tx' = [tx EXCEPT ![t] = Session(r, "approve", "gone", now, FALSE)]
    /\ UNCHANGED <<home, scan, told, sent, edge, now>>

(***************************************************************************)
(* _execute_trade_authoritatively.                                         *)
(***************************************************************************)
\* Role and account checks come first and take no lock.
Forbid(t) ==
    /\ tx[t].pc = "key"
    /\ Finish(t, "forbidden")
    /\ UNCHANGED home

\* Mutant: a finished key is not answered before the other checks.
NothingToReplay(r) == FALSE /\ r \in Keyed

\* A row of the ledger under this key already has the answer: a completed
\* trade, or an overtime request in any state.
Replayed(r) == r \in Keyed /\ ledger[r] \in {"completed", "overtime", "closed"}

ReplayAnswer(s) ==
    CASE s = "completed" -> "created"
      [] s = "overtime" -> "overtime"
      [] OTHER -> "refused"

\* The lock of the key, the replay, then the market and restriction checks.
LockKey(t) ==
    LET r == tx[t].req
    IN  /\ tx[t].pc = "key" /\ Free(t, Wants(t))
        /\ \/ /\ Replayed(r)
              /\ Finish(t, ReplayAnswer(ledger[r]))
           \/ /\ ~Replayed(r)    \* market closed, user restricted
              /\ Finish(t, "refused")
           \/ /\ ~Replayed(r)
              /\ tx' = [tx EXCEPT ![t].pc = "user", ![t].locks = @ \cup KeyLock(r)]
              /\ UNCHANGED <<scan, told, sent, edge, now>>
        /\ UNCHANGED home

\* SELECT ... FOR UPDATE of the user, then check_user_limits.  The object of
\* the user is already in the session, so the query does not refresh it: the
\* limit is compared with the counter read at the start.  An approval takes
\* the lock of the key only now.
LockUser(t) ==
    LET r == tx[t].req
        L == {<<"user", UserOf[r]>>}
    IN  /\ tx[t].pc = "user" /\ Free(t, Wants(t))
        /\ \/ /\ tx[t].seen >= Limit
              /\ Finish(t, "refused")
           \/ /\ tx[t].seen < Limit
              /\ tx' = [tx EXCEPT ![t].pc = IF tx[t].mode = "approve" THEN "late" ELSE "exec",
                                  ![t].locks = @ \cup L]
              /\ UNCHANGED <<scan, told, sent, edge, now>>
        /\ UNCHANGED home

LockKeyLate(t) ==
    LET L == KeyLock(tx[t].req)
    IN  /\ tx[t].pc = "late" /\ Free(t, Wants(t))
        /\ tx' = [tx EXCEPT ![t].pc = "exec", ![t].locks = @ \cup L]
        /\ UNCHANGED <<home, scan, told, sent, edge, now>>

\* _try_lock_trade_offer_execution.  _reject_trade_offer_contention writes a
\* ledger row without the key, so the client may try again.
LockExecution(t) ==
    LET L == {<<"exec", OfferOf[tx[t].req]>>}
    IN  /\ tx[t].pc = "exec"
        /\ \/ /\ Free(t, L)
              /\ tx' = [tx EXCEPT ![t].pc = "row", ![t].gated = FALSE, ![t].locks = @ \cup L]
              /\ UNCHANGED <<scan, told, sent, edge, now>>
           \/ /\ ~Free(t, L) /\ ~tx[t].gated /\ Free(t, Wants(t))
              /\ Finish(t, "busy")
        /\ UNCHANGED home

\* db.get(Offer, with_for_update=True)
LockOffer(t) ==
    LET o == OfferOf[tx[t].req]
    IN  /\ tx[t].pc = "row" /\ Free(t, Wants(t))
        /\ tx' = [tx EXCEPT ![t].pc = "decide", ![t].view = offers[o],
                            ![t].locks = @ \cup {<<"offer", o>>}]
        /\ UNCHANGED <<home, scan, told, sent, edge, now>>

Deciding(t, mode) == tx[t].pc = "decide" /\ tx[t].mode = mode
Direct(t) ==
    /\ Deciding(t, "direct")
    /\ Intake(OfferOf[tx[t].req], tx[t].at) # "approval"

\* The receipt falls into overtime: the owner is asked.  A request without a
\* key, and one that fails the preflight, is refused.  A row that a direct
\* attempt left under the key is returned as it is.
AskOwner(t) ==
    LET r == tx[t].req
        fit == r \in Keyed /\ Amount[r] \in AvailableAmounts(tx[t].view)
    IN  /\ Deciding(t, "direct")
        /\ Intake(OfferOf[r], tx[t].at) = "approval"
        /\ \/ /\ Finish(t, "refused")
              /\ ~(fit /\ ledger[r] # "none")
              /\ UNCHANGED ledger
           \/ /\ fit /\ ledger[r] # "none"
              /\ Finish(t, "overtime")
              /\ UNCHANGED ledger
           \/ /\ fit /\ ledger[r] = "none" /\ tx[t].view.status = "active"
              /\ UserOf[r] # OwnerOf[OfferOf[r]] /\ Free(t, Wants(t))
              /\ ledger' = [ledger EXCEPT ![r] = "overtime"]
              /\ Finish(t, "overtime")
        /\ UNCHANGED <<offers, trades, count>>

\* _terminal_duplicate_request_http_exception: the key was refused before.
RefusedBefore(r) == r \in Keyed /\ ledger[r] \in Rejections

RepeatRefusal(t) ==
    /\ Direct(t) /\ RefusedBefore(tx[t].req)
    /\ Finish(t, "refused")
    /\ UNCHANGED home

\* The offer can take this request: it is active, or expired a moment ago,
\* and the request was received in time.
Open(t) ==
    LET o == OfferOf[tx[t].req]
        of == tx[t].view
    IN  IF tx[t].mode = "approve" THEN of.status = "active"
        ELSE /\ of.status = "active" \/ InFlight(of, tx[t].at, o)
             /\ Intake(o, tx[t].at) # "rejected"

\* The row of the key records the refusal s; the commit of the refusal may
\* fail, and some checks refuse without a row.
Refusal(t, s) ==
    LET r == tx[t].req
    IN  /\ \/ ledger' = ledger
           \/ /\ r \in Keyed /\ ledger[r] \in {"none", "overtime"}
              /\ ledger' = [ledger EXCEPT ![r] = IF tx[t].mode = "approve" THEN "closed" ELSE s]
        /\ Finish(t, "refused")
        /\ UNCHANGED <<offers, trades, count>>

ReachesOffer(t) ==
    \/ Direct(t) /\ ~RefusedBefore(tx[t].req) /\ Free(t, LedgerLocks(tx[t].req))
    \/ Deciding(t, "approve")

\* The offer is not active, a business rule (own offer, blocked pair,
\* customer limits) speaks against the trade, or the amount is gone.
Refuse(t) ==
    /\ ReachesOffer(t)
    /\ \/ ~Open(t) /\ tx[t].mode = "direct" /\ Refusal(t, "expired")
       \/ ~Open(t) /\ tx[t].mode = "approve" /\ Finish(t, "refused") /\ UNCHANGED home
       \/ Open(t) /\ Refusal(t, "rule")
       \/ /\ Open(t) /\ Amount[tx[t].req] \notin AvailableAmounts(tx[t].view)
          /\ Refusal(t, "lot")

\* _finalize_overtime_trade_side_effects: what an approved trade leaves after
\* the final deadline expires.
Leftover(of, o, mode) ==
    IF mode = "approve" /\ of.status = "active" /\ now >= case.final
    THEN Expired(of, "time_limit") ELSE of

\* Mutant: a row in a final state may still be completed.
NotFinal(r) == FALSE /\ r \in Keyed

\* apply_offer_request_decision: a final row cannot change its outcome.
FinalRow(r) == r \in Keyed /\ ledger[r] \in Rejections \cup {"closed"}

AlreadyTraded(r) == r \in Keyed /\ trades[r] > 0

\* The overtime rows of an offer end with it (invalidate_overtime_requests_for_offer).
ClosedWith(o) ==
    [r \in Requests |-> IF OfferOf[r] = o /\ ledger[r] = "overtime" THEN "closed"
                        ELSE ledger[r]]

\* The user does not trade with an offer of his own, and the amount is there.
Fits(t) ==
    LET r == tx[t].req
    IN  /\ UserOf[r] # OwnerOf[OfferOf[r]]
        /\ Amount[r] \in AvailableAmounts(tx[t].view)

\* The trade.  Everything is written in one commit; the counter is the one
\* that was read at the start plus one.  An approved trade ends the other
\* overtime requests of the offer.
Trade(t) ==
    LET r == tx[t].req
        o == OfferOf[r]
        of == tx[t].view
        rows == IF tx[t].mode = "approve" /\ ~AlreadyTraded(r) THEN ClosedWith(o) ELSE ledger
    IN  /\ ReachesOffer(t) /\ Open(t) /\ Fits(t)
        /\ ~FinalRow(r) /\ (AlreadyTraded(r) \/ Free(t, Wants(t)))
        /\ ledger' = IF r \in Keyed THEN [rows EXCEPT ![r] = "completed"] ELSE rows
        /\ IF AlreadyTraded(r)
           THEN UNCHANGED <<offers, trades, count>>
           ELSE /\ offers' = [offers EXCEPT ![o] = Leftover(Traded(of, Amount[r]), o, tx[t].mode)]
                /\ trades' = [trades EXCEPT ![r] = @ + 1]
                /\ count' = [count EXCEPT ![UserOf[r]] = tx[t].seen + 1]
        /\ Finish(t, "created")

\* An approval that ran again found its request closed in between: the row
\* cannot change any more and the transaction fails.
TooLate(t) ==
    /\ ReachesOffer(t) /\ Open(t) /\ Fits(t)
    /\ FinalRow(tx[t].req)
    /\ Finish(t, "error")
    /\ UNCHANGED home

MayRetry(t) == tx[t].tries < case.tries

\* The database aborts the transaction (deadlock, serialization): the whole
\* attempt runs again with fresh objects, a bounded number of times; any
\* other failure is a 500.  An approval has to lock its row again first.
Fail(t) ==
    LET s == tx[t]
    IN  /\ s.pc \in {"user", "late", "exec", "row", "decide"}
        /\ \/ /\ MayRetry(t)
              /\ tx' = [tx EXCEPT ![t] = [Session(s.req, s.mode, s.caller, s.at, s.gated)
                                          EXCEPT !.tries = Min({s.tries + 1, case.tries}),
                                                 !.pc = IF s.mode = "approve"
                                                        THEN "relock" ELSE "key",
                                                 !.locks = {}]]
              /\ UNCHANGED <<scan, told, sent, edge, now>>
           \/ Finish(t, "error")
        /\ UNCHANGED home

\* load_overtime_request_by_public_id(for_update=True) of a retried approval
Relock(t) ==
    LET L == {<<"row", tx[t].req>>}
    IN  /\ tx[t].pc = "relock" /\ Free(t, Wants(t))
        /\ tx' = [tx EXCEPT ![t].pc = "user", ![t].locks = L]
        /\ UNCHANGED <<home, scan, told, sent, edge, now>>

(***************************************************************************)
(* The answer does not reach the caller.                                   *)
(***************************************************************************)
\* The client hangs up.
Disconnect(t) ==
    /\ tx[t] # Idle /\ tx[t].caller = "client"
    /\ tx' = [tx EXCEPT ![t].caller = "gone"]
    /\ UNCHANGED <<home, scan, told, sent, edge, now>>

\* httpx.TimeoutException -> 504: a request with a key is kept for a replay
\* (the first payload wins) and its client sees it as pending; Redis may be
\* down, and then nothing is kept.
TimeOut(t) ==
    LET r == tx[t].req
    IN  /\ tx[t] # Idle /\ tx[t].caller = "source"
        /\ tx' = [tx EXCEPT ![t].caller = "gone"]
        /\ told' = [told EXCEPT ![r] = IF r \in Keyed THEN "pending" ELSE "timeout"]
        /\ \/ /\ r \in Keyed
              /\ pending' = [pending EXCEPT ![r] = IF @ = None THEN 0 ELSE @]
              /\ since' = [since EXCEPT ![r] = IF pending[r] = None THEN tx[t].at ELSE @]
              /\ tasks' = tasks \cup {r}
           \/ UNCHANGED edge
        /\ UNCHANGED <<home, scan, sent, now>>

\* Any other httpx.RequestError -> 503, whether the call was sent or not.
Break(t) ==
    /\ tx[t] # Idle /\ tx[t].caller = "source"
    /\ tx' = [tx EXCEPT ![t].caller = "gone"]
    /\ told' = [told EXCEPT ![tx[t].req] = "unreachable"]
    /\ UNCHANGED <<home, scan, sent, edge, now>>

\* reconcile_trade_forward_pending: the task sends the payload once.
Replay(t, r) ==
    /\ tx[t] = Idle /\ r \in tasks
    /\ tasks' = tasks \ {r}
    /\ tx' = IF pending[r] # None /\ pending[r] < MaxReplays
             THEN [tx EXCEPT ![t] = [Session(r, "direct", "replay", since[r], FALSE)
                                     EXCEPT !.pc = "wire", !.seen = 0]]
             ELSE tx
    /\ UNCHANGED <<home, scan, told, sent, pending, since, now>>

\* The replay gets no answer either: the attempt is counted.
ReplayFails(t) ==
    LET r == tx[t].req
    IN  /\ tx[t] # Idle /\ tx[t].caller = "replay"
        /\ tx' = [tx EXCEPT ![t].caller = "gone"]
        /\ pending' = [pending EXCEPT ![r] = IF @ = None THEN @ ELSE @ + 1]
        /\ UNCHANGED <<home, scan, told, sent, since, tasks, now>>

\* PENDING_TTL_SECONDS
Forget(r) ==
    /\ pending[r] # None
    /\ pending' = [pending EXCEPT ![r] = None]
    /\ UNCHANGED <<home, tx, scan, told, sent, since, tasks, now>>

\* The forwarding process restarts: tasks live in its memory, the payload in
\* Redis.
SourceRestart ==
    /\ tasks # {}
    /\ tasks' = {}
    /\ UNCHANGED <<home, tx, scan, told, sent, pending, since, now>>

(***************************************************************************)
(* Offers and overtime requests end.                                       *)
(***************************************************************************)

\* expire_stale_offers reads a due offer without a lock ...
ExpiryScan(o) ==
    /\ scan = <<>>
    /\ offers[o].status = "active" /\ now >= case.final
    /\ scan' = <<o, offers[o]>>
    /\ UNCHANGED <<home, tx, told, sent, edge, now>>

\* version_id of the row is the one that was read
SameVersion(o, of) == offers[o] = of

\* ... and writes it when nobody has it locked; a version that moved on is a
\* StaleDataError and the loop starts over.
ExpiryWrite ==
    /\ scan # <<>>
    /\ LET o == scan[1]
       IN  /\ \A t \in Tx : Held(t) \cap ({<<"offer", o>>} \cup RowsOf(o)) = {}
           /\ IF SameVersion(o, scan[2])
              THEN /\ offers' = [offers EXCEPT ![o] = Expired(scan[2], "time_limit")]
                   /\ ledger' = ClosedWith(o)
              ELSE UNCHANGED <<offers, ledger>>
    /\ scan' = <<>>
    /\ UNCHANGED <<trades, count, tx, told, sent, edge, now>>

\* The owner expires the offer by hand: FOR UPDATE NOWAIT.
ExpireByOwner(o) ==
    /\ offers[o].status = "active"
    /\ \A t \in Tx : Held(t) \cap ({<<"offer", o>>} \cup RowsOf(o)) = {}
    /\ offers' = [offers EXCEPT ![o] = Expired(@, "manual")]
    /\ ledger' = ClosedWith(o)
    /\ UNCHANGED <<trades, count, tx, scan, told, sent, edge, now>>

\* An overtime request is rejected, cancelled or runs out of time.
CloseOvertime(r) ==
    /\ ledger[r] = "overtime"
    /\ \A t \in Tx : <<"row", r>> \notin Held(t)
    /\ ledger' = [ledger EXCEPT ![r] = "closed"]
    /\ UNCHANGED <<offers, trades, count, tx, scan, told, sent, edge, now>>

----------------------------------------------------------------------------
Execute(t) ==
    \/ Arrive(t) \/ LockKey(t) \/ LockUser(t) \/ LockKeyLate(t)
    \/ LockExecution(t) \/ LockOffer(t) \/ AskOwner(t) \/ RepeatRefusal(t)
    \/ Refuse(t) \/ Trade(t) \/ TooLate(t) \/ Relock(t)

Step ==
    \/ Tick
    \/ \E t \in Tx :
         \/ \E r \in Requests : Receive(t, r) \/ Forward(t, r) \/ Approve(t, r) \/ Replay(t, r)
         \/ Execute(t) \/ Forbid(t) \/ Fail(t) \/ Lose(t)
         \/ Disconnect(t) \/ TimeOut(t) \/ Break(t) \/ ReplayFails(t)
    \/ \E r \in Requests : GateFull(r) \/ Forget(r) \/ CloseOvertime(r)
    \/ \E o \in Offers : ExpiryScan(o) \/ ExpireByOwner(o)
    \/ ExpiryWrite
    \/ SourceRestart

Next == Step /\ UNCHANGED case

Spec == Init /\ [][Next]_vars

(***************************************************************************)
(* Properties.                                                             *)
(***************************************************************************)
TypeOK ==
    /\ ledger \in [Requests -> {"none", "completed", "overtime", "closed"} \cup Rejections]
    /\ trades \in [Requests -> Nat] /\ count \in [Users -> Nat]
    /\ told \in [Requests -> {"none"} \cup Answers]
    /\ case \in Cases /\ \A r \in Requests : sent[r] \in 0..case.attempts[r]
    /\ pending \in [Requests -> {None} \cup Nat] /\ since \in [Requests -> 0..MaxTime]
    /\ tasks \subseteq Keyed /\ now \in 0..MaxTime
    /\ \A o \in Offers : /\ offers[o].status \in {"active", "expired", "completed"}
                         /\ offers[o].remaining \in 0..Quantity[o]
                         /\ IsABag(offers[o].lots)

\* The stock of an offer is kept: what the committed trades took and what is
\* left add up to its quantity, the lots still listed add up to what is left,
\* and the offer is completed exactly when nothing is left (two sessions that
\* both read the offer before either commits would break this).
StockKept ==
    \A o \in Offers :
        LET of == offers[o]
        IN  /\ of.remaining + MapThenSumSet(LAMBDA r : trades[r] * Amount[r],
                                            {r \in Requests : OfferOf[r] = o}) = Quantity[o]
            /\ of.lots # EmptyBag => Pieces(of.lots) = of.remaining
            /\ of.status = "completed" <=> of.remaining = 0

\* A key is decided once: its ledger row never leaves a final state, a
\* refused key never trades, and a completed row stands for exactly one
\* trade, whatever is retried, replayed or approved at the same time.
KeyDecidedOnce ==
    [][\A r \in Keyed :
         /\ ledger[r] \in Rejections \cup {"completed", "closed"} => ledger'[r] = ledger[r]
         /\ trades'[r] = IF ledger'[r] = "completed" THEN 1 ELSE 0]_vars

\* Once the trade of a key is committed no later answer denies it: the client
\* that lost the answer and tries again is told of the trade, although it has
\* used up its limit or the market has closed since.  (An account that lost
\* its right to trade is told so before the key is looked up: "forbidden".)
CompletedIsNotRefused ==
    [][\A r \in Keyed :
         trades[r] > 0 /\ told'[r] # told[r] => told'[r] \notin {"refused", "overtime"}]_vars

\* An offer that has ended trades only for a request received before its
\* normal deadline and at most the grace before the session decides, and never
\* when its owner ended it.
EndedOfferTradesInFlightOnly ==
    [][\A r \in Requests : trades'[r] # trades[r] =>
         LET o == OfferOf[r]
         IN  \/ offers[o].status = "active"
             \/ /\ offers[o].reason = "time_limit"
                /\ \E t \in Tx : /\ tx[t] # Idle /\ tx'[t] = Idle /\ tx[t].req = r
                                 /\ tx[t].at < case.normal /\ now <= tx[t].at + GraceTicks]_vars

\* Only a session that writes can close a circle of sessions that wait for
\* each other: of any others at work, one waits for none of the rest.  Direct
\* sessions lock the key before the user, an approval the user before the key.
\* Circles through a write do happen (two users trade on each other's offers,
\* each has its own users row and its trade row needs the other's); the code
\* retries the session the database aborts (DeadlockDetectedError).
CirclesPassAWrite ==
    \A W \in (SUBSET Tx) \ {{}} :
        \E t \in W : Writing(t) \/ \A u \in W \ {t} : Wants(t) \cap MayHold(u) = {}
============================================================================
