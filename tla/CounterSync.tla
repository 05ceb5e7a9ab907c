---------------------------- MODULE CounterSync ----------------------------
(***************************************************************************)
(* Replication of one user's activity counters between the Iran and the    *)
(* foreign server (core/user_counter_sync.py, the producer side in         *)
(* core/events.py, the receiver _apply_user_counter_event and its          *)
(* watermark in api/routers/sync.py, the sender in core/sync_worker.py).   *)
(*                                                                         *)
(* Both servers count locally and send each increment as a delta event.    *)
(* Only Iran resets: a reset opens a new period (an epoch) whose boundary  *)
(* is the reset's time.  Every server keeps a ledger of the events it has  *)
(* produced or received, and rebuilds the counter from it when a reset     *)
(* arrives.  The three counters of a user are treated alike and are one    *)
(* counter here; an increment adds one.  The user exists on both servers   *)
(* under one identity.                                                     *)
(***************************************************************************)
EXTENDS Integers, Sequences, FiniteSets

CONSTANTS
    Sessions,       \* the transactions that write the user's row, on either server
    Home,           \* Home[s]: the server session s runs on
    Skew,           \* how far the foreign clock is ahead of Iran's
    FutureSkew,     \* USER_COUNTER_MAX_FUTURE_SKEW
    MaxValue,       \* USER_COUNTER_MAX_VALUE
    MaxEvents,      \* bound: local counter events in a behaviour
    MaxRetries      \* bound: requests that time out or are refused, per source

ASSUME CounterAssumption ==
    /\ Home \in [Sessions -> {"iran", "foreign"}]
    /\ Skew \in Int
    /\ FutureSkew \in Nat
    /\ MaxValue \in Nat
    /\ MaxEvents \in Nat
    /\ MaxRetries \in Nat

Servers == {"iran", "foreign"}

Peer(v) == IF v = "iran" THEN "foreign" ELSE "iran"

VARIABLES
    user,       \* user[v]: the user's row on server v
    ledger,     \* ledger[v]: user_counter_event_receipts on v
    changes,    \* changes[v]: the change_log rows of the user on v, oldest first
    synced,     \* synced[v]: how many rows of changes[v] are marked delivered
    watermark,  \* watermark[v]: the watermark the peer keeps for the source v
    sent,       \* sent[v]: the row the worker of v is waiting an answer for, 0 for none
    requests,   \* requests on their way; live while the sender waits for the answer
    reply,      \* reply[v]: the peer's answer to the request waited for
    copy,       \* copy[s]: the user as session s read it, or none
    now,        \* Iran's clock: one tick for each local event
    retries,    \* retries[v]: requests of v that timed out or were refused
    stray       \* history: the row of v was written from what another write had
                \* changed, or across clocks that disagree, and not rebuilt since

counterVars == <<user, ledger, changes, synced, watermark, sent, requests, reply, copy, now,
                 retries, stray>>

NoCopy == [value |-> 0, epoch |-> 0, version |-> 0]

Rows == [value : 0..MaxEvents, epoch : 1..(MaxEvents + 1), version : 1..(MaxEvents + 1)]

Events == [id : 1..MaxEvents, kind : {"increment", "reset"},
           epoch : 1..(MaxEvents + 1), at : Int]

Messages == [src : Servers, seq : 1..MaxEvents, live : BOOLEAN]

CounterTypeOK ==
    /\ user \in [Servers -> Rows]
    /\ \A v \in Servers : ledger[v] \subseteq Events
    /\ \A v \in Servers : changes[v] \in Seq(Events) /\ Len(changes[v]) <= MaxEvents
    /\ synced \in [Servers -> 0..MaxEvents]
    /\ watermark \in [Servers -> 0..MaxEvents]
    /\ sent \in [Servers -> 0..MaxEvents]
    /\ requests \subseteq Messages
    /\ reply \in [Servers -> {"none", "success", "partial"}]
    /\ copy \in [Sessions -> Rows \cup {NoCopy}]
    /\ now \in 0..MaxEvents
    /\ retries \in [Servers -> 0..MaxRetries]
    /\ stray \in [Servers -> BOOLEAN]

CounterInit ==
    /\ user = [v \in Servers |-> [value |-> 0, epoch |-> 1, version |-> 1]]
    /\ ledger = [v \in Servers |-> {}]
    /\ changes = [v \in Servers |-> <<>>]
    /\ synced = [v \in Servers |-> 0]
    /\ watermark = [v \in Servers |-> 0]
    /\ sent = [v \in Servers |-> 0]
    /\ requests = {}
    /\ reply = [v \in Servers |-> "none"]
    /\ copy = [s \in Sessions |-> NoCopy]
    /\ now = 0
    /\ retries = [v \in Servers |-> 0]
    /\ stray = [v \in Servers |-> FALSE]

-----------------------------------------------------------------------------
(* The ledger.                                                             *)

Increments(l) == {e \in l : e.kind = "increment"}

Resets(l) == {e \in l : e.kind = "reset"}

\* The reset with the highest epoch, the boundary of the current period
LatestReset(l) == CHOOSE r \in Resets(l) : \A q \in Resets(l) : q.epoch <= r.epoch

\* Mutant: the rebuild counts every increment the ledger holds
PeriodAll(l, at) == Cardinality(Increments(l))

\* What a reset at time at rebuilds the counter to from the receipts of a ledger
Rebuilt(l, at) == Cardinality({e \in Increments(l) : e.at >= at})

-----------------------------------------------------------------------------
(* Local writers.  A session reads the user, and may do so long before it  *)
(* takes the row lock: SELECT ... FOR UPDATE returns the copy the ORM      *)
(* already holds.  Its flush and commit hold the row lock and are one      *)
(* step.                                                                   *)

Idle(s) == copy[s] = NoCopy

Load(s) ==
    /\ Idle(s)
    /\ now < MaxEvents
    /\ copy' = [copy EXCEPT ![s] = user[Home[s]]]
    /\ UNCHANGED <<user, ledger, changes, synced, watermark, sent, requests, reply, now,
                   retries, stray>>

\* The clock of a server when n events have been made
ClockAt(v, n) == IF v = "foreign" THEN n + Skew ELSE n

\* The time an event carries: taken once the row lock is held, so later than
\* any event the same server has committed
Clock(v) == ClockAt(v, now + 1)

\* The UPDATE carries the version that was read; any other means StaleDataError
Current(s) == copy[s].version = user[Home[s]].version

\* _record_local_user_counter_event and log_change, in the writer's transaction
Emit(v, kind, epoch) ==
    LET e == [id |-> now + 1, kind |-> kind, epoch |-> epoch, at |-> Clock(v)] IN
    /\ ledger' = [ledger EXCEPT ![v] = @ \cup {e}]
    /\ changes' = [changes EXCEPT ![v] = Append(@, e)]
    /\ now' = now + 1

\* The increment is dated before the boundary of the period it is counted in
Backdated(v) == Resets(ledger[v]) # {} /\ Clock(v) < LatestReset(ledger[v]).at

\* increment_user_counters: the value written is one more than the value read
Increment(s) ==
    LET v == Home[s] IN
    /\ ~Idle(s)
    /\ now < MaxEvents
    /\ Current(s)
    /\ copy[s].value < MaxValue
    /\ user' = [user EXCEPT ![v].value = copy[s].value + 1]
    /\ Emit(v, "increment", copy[s].epoch)
    /\ copy' = [copy EXCEPT ![s] = NoCopy]
    /\ stray' = [stray EXCEPT ![v] = @ \/ copy[s].value # user[v].value \/ Backdated(v)]
    /\ UNCHANGED <<synced, watermark, sent, requests, reply, retries>>

\* reset_user_counters_in_memory and its flush: a column whose value does not
\* change is not part of the UPDATE; changing a limit bumps sync_version
ResetCounters(s) ==
    LET v == Home[s]
        epoch == copy[s].epoch + 1
        last == IF Resets(ledger[v]) = {} THEN 1 ELSE LatestReset(ledger[v]).epoch
    IN
    /\ ~Idle(s)
    /\ now < MaxEvents
    /\ v = "iran"
    /\ Current(s)
    /\ last = copy[s].epoch
    /\ \E changed \in BOOLEAN :
           user' = [user EXCEPT ![v] =
                      [value   |-> IF copy[s].value = 0 THEN @.value ELSE 0,
                       epoch   |-> epoch,
                       version |-> IF changed THEN @.version + 1 ELSE @.version]]
    /\ Emit(v, "reset", epoch)
    /\ copy' = [copy EXCEPT ![s] = NoCopy]
    /\ stray' = [stray EXCEPT ![v] = \/ copy[s].value = 0 /\ user[v].value # 0
                                    \/ \E e \in Increments(ledger[v]) : e.at >= Clock(v)]
    /\ UNCHANGED <<synced, watermark, sent, requests, reply, retries>>

\* The session writes something else, gives up, or fails: StaleDataError, or
\* the reset history check of _record_local_user_counter_event
Abandon(s) ==
    /\ ~Idle(s)
    /\ copy' = [copy EXCEPT ![s] = NoCopy]
    /\ UNCHANGED <<user, ledger, changes, synced, watermark, sent, requests, reply, now,
                   retries, stray>>

-----------------------------------------------------------------------------
(* The sender.                                                             *)

\* Mutant: the newest row of the user is sent first
NextNewest(v) == Len(changes[v])

\* fetch_next_unsynced_change_log_item: the oldest unsynced row of the user
NextUnsynced(v) == synced[v] + 1

Send(v) ==
    /\ sent[v] = 0
    /\ synced[v] < Len(changes[v])
    /\ sent' = [sent EXCEPT ![v] = NextUnsynced(v)]
    /\ requests' = requests \cup {[src |-> v, seq |-> NextUnsynced(v), live |-> TRUE]}
    /\ UNCHANGED <<user, ledger, changes, synced, watermark, reply, copy, now, retries, stray>>

\* The request is lost, its answer is lost, or it is still on its way: the
\* sender sees a network error and the row stays unsynced
SendTimesOut(v) ==
    LET waiting == {m \in requests : m.src = v /\ m.live} IN
    /\ sent[v] # 0
    /\ retries[v] < MaxRetries
    /\ retries' = [retries EXCEPT ![v] = @ + 1]
    /\ sent' = [sent EXCEPT ![v] = 0]
    /\ reply' = [reply EXCEPT ![v] = "none"]
    /\ \/ requests' = requests \ waiting
       \/ requests' = (requests \ waiting) \cup {[m EXCEPT !.live = FALSE] : m \in waiting}
    /\ UNCHANGED <<user, ledger, changes, synced, watermark, copy, now, stray>>

\* Mutant: any answer counts as acceptance
AnyAnswer(a) == a # "none"

\* peer_response_is_success
PeerAccepted(a) == a = "success"

\* mark_change_log_delivered by change_log_id, after the peer accepted
Delivered(v) ==
    /\ PeerAccepted(reply[v])
    /\ synced' = [synced EXCEPT ![v] = sent[v]]
    /\ sent' = [sent EXCEPT ![v] = 0]
    /\ reply' = [reply EXCEPT ![v] = "none"]
    /\ UNCHANGED <<user, ledger, changes, watermark, requests, copy, now, retries, stray>>

\* A partial answer: the row stays unsynced and is sent again after its backoff
Rejected(v) ==
    /\ reply[v] = "partial"
    /\ ~PeerAccepted(reply[v])
    /\ sent' = [sent EXCEPT ![v] = 0]
    /\ reply' = [reply EXCEPT ![v] = "none"]
    /\ UNCHANGED <<user, ledger, changes, synced, watermark, requests, copy, now, retries, stray>>

-----------------------------------------------------------------------------
(* The receiver: receive_sync_data with one item, one transaction under    *)
(* the watermark's advisory lock and the user's row lock.                  *)

\* Mutant: an increment belongs to the period whose epoch it carries
EpochIsOld(v, e) == e.epoch < user[v].epoch

\* The increment was made before the boundary of the current period
BeforeBoundary(v, e) ==
    user[v].epoch > 1 /\ e.at < LatestReset(ledger[v]).at

\* The row's epoch and the reset receipts agree
Coherent(v) ==
    IF user[v].epoch = 1 THEN Resets(ledger[v]) = {}
    ELSE Resets(ledger[v]) # {} /\ LatestReset(ledger[v]).epoch = user[v].epoch

\* Not counter_event_time_is_plausible: too far ahead of the receiver's clock
TooFarAhead(v, e) == e.at > ClockAt(v, now) + FutureSkew

\* What the sanitizer and _apply_user_counter_event make of event e on server v
Decision(v, e) ==
    CASE TooFarAhead(v, e) -> "error"
      [] ~TooFarAhead(v, e) /\ e \in ledger[v] -> "ignored"
      [] ~TooFarAhead(v, e) /\ e \notin ledger[v] /\ ~Coherent(v) -> "error"
      [] /\ ~TooFarAhead(v, e) /\ e \notin ledger[v] /\ Coherent(v)
         /\ e.epoch > user[v].epoch + 1 -> "deferred"
      [] OTHER ->
            IF e.kind = "increment"
            THEN IF BeforeBoundary(v, e) THEN "excluded"
                 ELSE IF user[v].value >= MaxValue THEN "error" ELSE "counted"
            ELSE IF \/ e.epoch <= user[v].epoch
                    \/ user[v].epoch > 1 /\ e.at <= LatestReset(ledger[v]).at
                    \/ Rebuilt(ledger[v], e.at) > MaxValue
                 THEN "error" ELSE "rebuilt"

Apply(v, e, d) ==
    /\ ledger' = [ledger EXCEPT ![v] = IF d \in {"counted", "excluded", "rebuilt"}
                                       THEN @ \cup {e} ELSE @]
    /\ user' = [user EXCEPT ![v] =
                  CASE d = "counted" -> [@ EXCEPT !.value = user[v].value + 1]
                    [] d = "rebuilt" -> [@ EXCEPT !.value = Rebuilt(ledger[v], e.at),
                                                  !.epoch = e.epoch]
                    [] OTHER -> @]
    /\ stray' = [stray EXCEPT ![v] = @ /\ d # "rebuilt"]

\* _evaluate_sync_watermark: only a row above the last applied one passes
Passes(m) == m.seq > watermark[m.src]

Reply(m, a) ==
    reply' = [reply EXCEPT ![m.src] = IF m.live THEN a ELSE @]

ReceiveEvent(m) ==
    LET v == Peer(m.src)
        e == changes[m.src][m.seq]
        d == IF Passes(m) \/ TooFarAhead(v, e) THEN Decision(v, e) ELSE "stale"
        accepted == d \notin {"error", "deferred"}
    IN
    /\ m \in requests
    /\ requests' = requests \ {m}
    /\ Apply(v, e, d)
    /\ watermark' = [watermark EXCEPT ![m.src] = IF Passes(m) /\ accepted THEN m.seq ELSE @]
    /\ Reply(m, IF accepted THEN "success" ELSE "partial")
    /\ UNCHANGED <<changes, synced, sent, copy, now, retries>>

\* validate_sync_protocol_metadata refuses the item, as while one server is
\* being deployed (registry_fingerprint_mismatch): never quarantined
Refuse(m) ==
    /\ m \in requests
    /\ retries[m.src] < MaxRetries
    /\ retries' = [retries EXCEPT ![m.src] = @ + 1]
    /\ requests' = requests \ {m}
    /\ Reply(m, "partial")
    /\ UNCHANGED <<user, ledger, changes, synced, watermark, sent, copy, now, stray>>

-----------------------------------------------------------------------------
Done ==
    /\ now = MaxEvents
    /\ \A v \in Servers : synced[v] = Len(changes[v]) /\ sent[v] = 0
    /\ requests = {}
    /\ \A s \in Sessions : Idle(s)
    /\ UNCHANGED counterVars

CounterNext ==
    \/ \E s \in Sessions : Load(s) \/ Increment(s) \/ ResetCounters(s) \/ Abandon(s)
    \/ \E v \in Servers : Send(v) \/ SendTimesOut(v) \/ Delivered(v) \/ Rejected(v)
    \/ \E m \in requests : ReceiveEvent(m) \/ Refuse(m)
    \/ Done

CounterSpec == CounterInit /\ [][CounterNext]_counterVars

\* The worker runs for ever, a transaction ends, and a request that is neither
\* lost nor given up on gets the row lock it waits for: PostgreSQL serves the
\* waiters in turn
CounterFairSpec ==
    /\ CounterSpec
    /\ \A v \in Servers :
          /\ WF_counterVars(Send(v))
          /\ WF_counterVars(Delivered(v)) /\ WF_counterVars(Rejected(v))
          /\ SF_counterVars(\E m \in requests : m.src = v /\ m.live /\ ReceiveEvent(m))
    /\ \A s \in Sessions : WF_counterVars(Increment(s) \/ ResetCounters(s) \/ Abandon(s))

-----------------------------------------------------------------------------
(* Properties.                                                             *)

\* How many increments of a ledger belong to its current period
PeriodCount(l) ==
    IF Resets(l) = {} THEN Cardinality(Increments(l))
    ELSE LET r == LatestReset(l) IN Cardinality({e \in Increments(l) : e.at >= r.at})

\* On either server, whatever was lost, repeated or delivered in either order,
\* the counter is the number of increments of the current period in the
\* server's own ledger: none is counted twice, none of the period is missing
\* (user_counter_sync.py and _apply_user_counter_event, sync.py:2788).  The
\* exceptions are writes that go wrong on one server: an increment or a reset
\* computed from a row that another transaction has changed since (the row lock
\* does not refresh it, trades.py:3740), and times of two clocks that disagree
\* about a reset.  The next clean reset ends them, on the foreign server any.
RowMatchesLedger ==
    \A v \in Servers : ~stray[v] => user[v].value = PeriodCount(ledger[v])

\* No event on its way will be refused for what it says: a refusal is retried
\* five times and then quarantined, and every later change of the user waits
\* behind it (sync.py:2903-2951, sync_worker.py:375).  Clocks that differ by more
\* than USER_COUNTER_MAX_FUTURE_SKEW would refuse, and so would a full counter.
NeverRefused ==
    \A m \in requests : Passes(m) =>
        Decision(Peer(m.src), changes[m.src][m.seq]) \notin {"error", "deferred"}

\* Every event reaches both ledgers, and then both servers show the same epoch
\* (sync_worker.py:484 retries until the peer accepts).
EventuallyShared ==
    \A v \in Servers : \A i \in 1..MaxEvents :
        (i <= Len(changes[v])) ~> (i <= Len(changes[v]) /\ changes[v][i] \in ledger[Peer(v)])

\* When nothing is on its way both servers show the same counter in the same
\* period, which is what makes a limit on it mean the same on both; the counters
\* may differ only while one of the rows has gone astray on its own server.
RowsAgree ==
    (\A v \in Servers : synced[v] = Len(changes[v])) =>
        /\ user["iran"].epoch = user["foreign"].epoch
        /\ ~stray["iran"] /\ ~stray["foreign"] =>
              user["iran"].value = user["foreign"].value
=============================================================================
