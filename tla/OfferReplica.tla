--------------------------- MODULE OfferReplica ----------------------------
(***************************************************************************)
(* Replication of Iran-owned offers to the foreign server: the change_log  *)
(* outbox, its two senders (the worker's oldest-first lane of              *)
(* core/sync_worker.py and the newest-first fast lane of                   *)
(* core/offer_priority_sync.py, which the API runs too), the operator's    *)
(* resync, and the receiver with its watermark (api/routers/sync.py).      *)
(*                                                                         *)
(* The foreign server writes the row too: when the post of the offer is    *)
(* confirmed it stores channel_message_id, which raises version_id and     *)
(* adds a row to its own change_log, so that its copy goes back to Iran.   *)
(* That happens once for an offer, as an offer is posted once; its one row *)
(* has arrived on Iran or it has not, and the lanes do not matter to it.   *)
(***************************************************************************)
EXTENDS Naturals, Sequences, FiniteSets

CONSTANTS
    Offers,         \* the offers
    MaxAttempts,    \* SYNC_PEER_REJECTION_MAX_ATTEMPTS: refusals before quarantine
    MaxRows,        \* bound: change_log rows in a behaviour
    Cases           \* the cases a run covers

CaseType ==
    [offers : SUBSET Offers,    \* the offers that are created
     posted : SUBSET Offers,    \* and those posted in the channel
     rows : 0..MaxRows,         \* bound: change_log rows
     failures : Nat,            \* bound: requests that time out
     refusals : Nat]            \* bound: items the peer refuses

ASSUME ConstantsAssumption ==
    /\ MaxAttempts \in Nat \ {0}
    /\ MaxRows \in Nat
    /\ Cases \subseteq CaseType

VARIABLES
    offer,      \* offer[o]: the row on Iran
    log,        \* change_log: log[i] is the row with id i
    delivery,   \* delivery[i]: how far row i is, and how often it was refused
    replica,    \* replica[o]: the row on the foreign server
    mark,       \* mark[o]: sync_apply_watermarks for the offer
    back,       \* back[o]: the offer's row in the change_log of the foreign server
    returned,   \* offers whose row in back Iran has dealt with (its watermark)
    post,       \* post[d]: the rows sender d is waiting an answer for
    lane,       \* lane[d]: the lane the request of d came from
    net,        \* requests on their way; live while the sender waits
    answer,     \* answer[d]: the peer's answer to the live request of d
    failures,   \* requests that timed out
    refusals,   \* items the peer refused
    case        \* the case this behaviour belongs to; it never changes

vars == <<offer, log, delivery, replica, mark, back, returned, post, lane, net, answer,
          failures, refusals, case>>

\* The API after an offer is created, the worker, the operator's /resync
Senders == {"api", "worker", "resync"}

Terminal == {"completed", "expired"}

Status == {"none", "active"} \cup Terminal

\* An offer's version_id, its status, and the change_log row of Iran that wrote the
\* rest of it (quantities, lots, ...)
Row == [version : Nat, status : Status, change : 0..MaxRows]

Absent == [version |-> 0, status |-> "none", change |-> 0]

Ids == 1..Len(log)

Requests == [by : Senders, rows : SUBSET (1..MaxRows), live : BOOLEAN]

TypeOK ==
    /\ offer \in [Offers -> Row]
    /\ Len(log) <= MaxRows
    /\ \A i \in Ids : log[i] \in [offer : Offers, version : Nat \ {0}, status : Status]
    /\ Len(delivery) = Len(log)
    /\ \A i \in Ids : delivery[i] \in [state : {"pending", "resting", "quarantined", "synced"},
                                       attempts : 0..MaxAttempts]
    /\ replica \in [Offers -> Row]
    /\ mark \in [Offers -> 0..MaxRows]
    /\ back \in [Offers -> Row]
    /\ returned \subseteq Offers
    /\ post \in [Senders -> SUBSET (1..MaxRows)]
    /\ lane \in [Senders -> {"none", "oldest", "newest", "all"}]
    /\ net \subseteq Requests
    /\ answer \in [Senders -> {"none", "success", "partial"}]
    \* an answer belongs to the one request its sender waits for
    /\ \A d \in Senders : answer[d] # "none" => /\ post[d] # {}
                                                /\ \A m \in net : ~(m.by = d /\ m.live)
    /\ case \in Cases
    /\ failures \in 0..case.failures
    /\ refusals \in 0..case.refusals

Init ==
    /\ case \in Cases
    /\ offer = [o \in Offers |-> Absent]
    /\ log = <<>>
    /\ delivery = <<>>
    /\ replica = [o \in Offers |-> Absent]
    /\ mark = [o \in Offers |-> 0]
    /\ back = [o \in Offers |-> Absent]
    /\ returned = {}
    /\ post = [d \in Senders |-> {}]
    /\ lane = [d \in Senders |-> "none"]
    /\ net = {}
    /\ answer = [d \in Senders |-> "none"]
    /\ failures = 0
    /\ refusals = 0

-----------------------------------------------------------------------------
(* The source.  Each committed change of an offer adds its row to the      *)
(* change_log in the same transaction; version_id grows with each.         *)

Commit(o, status) ==
    LET new == [version |-> offer[o].version + 1, status |-> status,
                change |-> Len(log) + 1] IN
    /\ Len(log) < case.rows
    /\ offer' = [offer EXCEPT ![o] = new]
    /\ log' = Append(log, [offer |-> o, version |-> new.version, status |-> status])
    /\ delivery' = Append(delivery, [state |-> "pending", attempts |-> 0])
    /\ UNCHANGED <<case, replica, mark, back, returned, post, lane, net, answer, failures,
                   refusals>>

Create(o) == o \in case.offers /\ offer[o].status = "none" /\ Commit(o, "active")

\* A partial trade
Change(o) == offer[o].status = "active" /\ Commit(o, "active")

Close(o) == offer[o].status = "active" /\ \E s \in Terminal : Commit(o, s)

-----------------------------------------------------------------------------
(* The senders.                                                            *)

RowsOf(o) == {i \in Ids : log[i].offer = o}

Unsynced == {i \in Ids : delivery[i].state # "synced"}

\* Not synced, not quarantined, its backoff over
Due == {i \in Ids : delivery[i].state = "pending"}

\* Mutant: a stuck row of one offer holds back every offer
OldestOfAll == {i \in Due : \A j \in Unsynced : i <= j}

\* Rows with no older unsynced row of the same offer
Oldest == {i \in Due : \A j \in Unsynced : log[j].offer = log[i].offer => i <= j}

First(S) == {i \in S : \A j \in S : i <= j}

Last(S) == {i \in S : \A j \in S : j <= i}

Free(d) == post[d] = {}

Request(d, l, rows) ==
    /\ Free(d)
    /\ rows # {}
    /\ post' = [post EXCEPT ![d] = rows]
    /\ lane' = [lane EXCEPT ![d] = l]
    /\ net' = net \cup {[by |-> d, rows |-> rows, live |-> TRUE]}
    /\ UNCHANGED <<case, offer, log, delivery, replica, mark, back, returned, answer, failures,
                   refusals>>

\* fetch_next_unsynced_change_log_item: one row, the oldest first
SendOldest == Request("worker", "oldest", First(Oldest))

\* load_latest_pending_offer_priority_sync_item: one row, the newest first
SendNewest == Request("worker", "newest", Last(Due))

\* dispatch_offer_priority_sync_once for the offer the API just created
SendCreated(o) ==
    /\ offer[o].status # "none"
    /\ Request("api", "newest", Last(Due \cap RowsOf(o)))

\* resync_from_changelog: everything unsynced, quarantined rows too
SendAll == Request("resync", "all", Unsynced)

Waiting(d) == {m \in net : m.by = d /\ m.live}

Reset(d) ==
    /\ post' = [post EXCEPT ![d] = {}]
    /\ lane' = [lane EXCEPT ![d] = "none"]
    /\ answer' = [answer EXCEPT ![d] = "none"]

\* The request or its answer is lost, or is late: nothing is recorded
TimeOut(d) ==
    /\ ~Free(d)
    /\ failures < case.failures
    /\ failures' = failures + 1
    /\ Reset(d)
    /\ \/ net' = net \ Waiting(d)
       \/ net' = (net \ Waiting(d)) \cup {[m EXCEPT !.live = FALSE] : m \in Waiting(d)}
    /\ UNCHANGED <<case, offer, log, delivery, replica, mark, back, returned, refusals>>

\* Mutant: a row that is newer than the accepted one is marked with it
WithNewer(rows) == {i \in Ids : \E j \in rows : log[j].offer = log[i].offer /\ j <= i}

\* mark_change_log_delivered names rows by change_log_id
Marked(rows) == rows

\* The peer accepted everything in the request
Accepted(d) ==
    /\ answer[d] = "success"
    /\ delivery' = [i \in Ids |-> IF i \in Marked(post[d])
                                  THEN [delivery[i] EXCEPT !.state = "synced"]
                                  ELSE delivery[i]]
    /\ Reset(d)
    /\ UNCHANGED <<case, offer, log, replica, mark, back, returned, net, failures, refusals>>

\* record_change_log_delivery_failure, for the row of the oldest-first lane: a
\* protocol mismatch of a rolling deploy never quarantines
Refusal(r, mismatch) ==
    LET n == r.attempts + 1 IN
    IF r.state = "synced" THEN r
    ELSE [state |-> IF n >= MaxAttempts /\ ~mismatch THEN "quarantined" ELSE "resting",
          attempts |-> IF n > MaxAttempts THEN MaxAttempts ELSE n]

\* The peer refused something in the request; only the worker's own lane counts it
Refused(d) ==
    /\ answer[d] = "partial"
    /\ \E mismatch \in BOOLEAN :
          delivery' = [i \in Ids |-> IF lane[d] = "oldest" /\ i \in post[d]
                                     THEN Refusal(delivery[i], mismatch) ELSE delivery[i]]
    /\ Reset(d)
    /\ UNCHANGED <<case, offer, log, replica, mark, back, returned, net, failures, refusals>>

\* The backoff of row i is over
Rested(i) ==
    /\ i \in Ids
    /\ delivery[i].state = "resting"
    /\ delivery' = [delivery EXCEPT ![i].state = "pending"]
    /\ UNCHANGED <<case, offer, log, replica, mark, back, returned, post, lane, net, answer,
                   failures, refusals>>

-----------------------------------------------------------------------------
(* The receiver: one transaction for the request, its items in id order,   *)
(* each under the advisory lock of its offer's watermark.                  *)

\* _evaluate_sync_watermark: the items of o above the watermark; the others are
\* answered as stale or as duplicates, and count as processed
Above(o, rows) == {i \in rows \cap RowsOf(o) : i > mark[o]}

\* _stale_offer_sync_reason
Stale(old, new) ==
    \/ new.version < old.version
    \/ old.status \in Terminal /\ new.status \notin Terminal
    \/ /\ old.status \in Terminal
       /\ new.status \in Terminal
       /\ new.version = old.version
       /\ new.status # old.status

\* The offer as row i of the change_log tells it
Content(i) == [version |-> log[i].version, status |-> log[i].status, change |-> i]

\* The foreign row after the items of rows that pass: the last one, unless stale
Applied(o, rows) ==
    IF Above(o, rows) = {} THEN replica[o]
    ELSE LET i == CHOOSE i \in Last(Above(o, rows)) : TRUE
         IN IF Stale(replica[o], Content(i)) THEN replica[o] ELSE Content(i)

\* _record_sync_watermark_applied, for applied and for ignored items
Watermark(o, rows) ==
    IF Above(o, rows) = {} THEN mark[o] ELSE CHOOSE i \in Last(Above(o, rows)) : TRUE

Answer(m, a) ==
    answer' = [answer EXCEPT ![m.by] = IF m.live THEN a ELSE @]

\* receive_sync_data: bad are the items refused for reasons of the moment (a
\* reference that is not local yet, a protocol mismatch, an apply error)
Receive(m, bad) ==
    /\ m \in net
    /\ bad \subseteq m.rows
    /\ refusals + Cardinality(bad) <= case.refusals
    /\ refusals' = refusals + Cardinality(bad)
    /\ net' = net \ {m}
    /\ replica' = [o \in Offers |-> Applied(o, m.rows \ bad)]
    /\ mark' = [o \in Offers |-> Watermark(o, m.rows \ bad)]
    /\ Answer(m, IF bad = {} THEN "success" ELSE "partial")
    /\ UNCHANGED <<case, offer, log, delivery, back, returned, post, lane, failures>>

-----------------------------------------------------------------------------
(* The foreign server's own write, and its way back.                       *)

\* mark_telegram_publication_success: the message id is stored on the offer, open
\* or closed by now; on_offer_updated logs the whole row
Post(o) ==
    /\ o \in case.posted
    /\ replica[o].status # "none"
    /\ back[o] = Absent
    /\ replica' = [replica EXCEPT ![o].version = @ + 1]
    /\ back' = [back EXCEPT ![o] = replica'[o]]
    /\ UNCHANGED <<case, offer, log, delivery, mark, returned, post, lane, net, answer, failures,
                   refusals>>

\* Mutant: Iran takes the foreign row whatever its own says
TakeBlindly(o) == offer' = [offer EXCEPT ![o] = back[o]]

\* _offer_upsert_where_clause: every column but channel_message_id is written
TakeBack(o) == offer' = [offer EXCEPT ![o] = IF Stale(@, back[o]) THEN @ ELSE back[o]]

\* receive_sync_data on Iran; what sync applies is not logged again
ReceiveBack(o) ==
    /\ back[o] # Absent
    /\ o \notin returned
    /\ returned' = returned \cup {o}
    /\ TakeBack(o)
    /\ UNCHANGED <<case, log, delivery, replica, mark, back, post, lane, net, answer, failures,
                   refusals>>

-----------------------------------------------------------------------------
\* Everything is settled; only an operator's repair could change anything
Quiet ==
    /\ \A o \in case.offers : offer[o].status \in Terminal \/ Len(log) = case.rows
    /\ \A d \in Senders : Free(d)
    /\ net = {}
    /\ Due = {}
    /\ UNCHANGED vars

Next ==
    \/ \E o \in Offers : Create(o) \/ Change(o) \/ Close(o) \/ SendCreated(o)
    \/ \E o \in Offers : Post(o) \/ ReceiveBack(o)
    \/ SendOldest \/ SendNewest \/ SendAll
    \/ \E d \in Senders : TimeOut(d) \/ Accepted(d) \/ Refused(d)
    \/ \E i \in 1..MaxRows : Rested(i)
    \/ \E m \in net : \E bad \in SUBSET m.rows : Receive(m, bad)
    \/ Quiet

Spec == Init /\ [][Next]_vars

\* The worker keeps looping, a backoff ends, and a request the worker has not
\* given up on is answered.  The worker's fast lane may keep it busy while there
\* are newer rows, hence strong fairness; the API and the operator are not needed.
FairSpec ==
    /\ Spec
    /\ SF_vars(SendOldest)
    /\ WF_vars(Accepted("worker"))
    /\ WF_vars(Refused("worker"))
    /\ WF_vars(\E m \in Waiting("worker") : \E bad \in SUBSET m.rows : Receive(m, bad))
    /\ \A i \in 1..MaxRows : WF_vars(Rested(i))

-----------------------------------------------------------------------------
(* Properties.                                                             *)

\* Neither row of an offer goes back to an older version, the foreign copy never to
\* an older change, and a closed offer is never reopened or altered on either
\* server, though newer rows overtake older ones, abandoned requests arrive late
\* and the foreign copy, perhaps from before the close, comes back to Iran
\* (sync.py:2495, sync.py:3763).
NeverBackwards ==
    [][\A o \in Offers :
          /\ replica'[o].version >= replica[o].version
          /\ replica'[o].change >= replica[o].change
          /\ offer'[o].version >= offer[o].version
          /\ replica[o].status \in Terminal =>
                 replica'[o].status = replica[o].status /\ replica'[o].change = replica[o].change
          /\ offer[o].status \in Terminal =>
                 offer'[o].status = offer[o].status /\ offer'[o].change = offer[o].change]_vars

\* A change on Iran and the post on the foreign server were written at the same
\* time, without knowing of each other, and gave the open offer the same version.
Crossed(o) ==
    /\ offer[o].status = "active"
    /\ offer[o].version = back[o].version
    /\ \E i \in RowsOf(o) : i > back[o].change

\* When every row of an offer is marked, and the foreign row has come back, both
\* servers have the same offer (offer_priority_sync.py:1, "the peer still accepts it
\* through the existing signed contract"), the closed one always.  Except a crossed
\* one: of two rows with the same version each server takes the other's, and Iran
\* has lost its change.
MarkedIsEqual ==
    \A o \in Offers :
        /\ \A i \in RowsOf(o) : delivery[i].state = "synced"
        /\ back[o] = Absent \/ o \in returned
        => replica[o] = offer[o] \/ Crossed(o)

\* Every change committed on Iran reaches the foreign copy, or a later one does,
\* whatever the foreign server wrote itself, unless a row of that same offer is
\* quarantined: a quarantined offer stops no other (sync_worker.py:375, "unrelated
\* aggregates can continue").
CatchesUp ==
    \A o \in Offers : \A n \in 1..MaxRows :
        (n \in RowsOf(o)) ~>
            \/ replica[o].change >= n
            \/ \E i \in RowsOf(o) : delivery[i].state = "quarantined"
=============================================================================
