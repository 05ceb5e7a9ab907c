-------------------------- MODULE MarketTransition --------------------------
(***************************************************************************)
(* Opening and closing the market on the two servers:                      *)
(* core/services/market_transition_service, core/market_schedule_loop, the *)
(* admission of offers, the receipt of market_runtime_state, and the       *)
(* channel notice on its way through the delivery queue (queue mode).      *)
(*                                                                         *)
(* Iran alone writes market_runtime_state; the row travels to the foreign  *)
(* server late, twice or out of order.  On each server one advisory lock,  *)
(* held to the end of the transaction, orders admissions and transitions.  *)
(* The reminder in the web application (active_web_notice_visible and its  *)
(* count of offers) is left out: nothing else reads it.                    *)
(***************************************************************************)
EXTENDS Naturals, Sequences

CONSTANTS
  IranOffers, ForeignOffers,  \* offers users may publish, by home server
  MaxTime,      \* bound on the clock
  Cases,        \* the cases a run covers
  NoRow, None

\* A case fixes what differs between the situations one run looks at.
CaseType ==
  [offers : SUBSET (IranOffers \cup ForeignOffers),
   timetables : SUBSET SUBSET (0..MaxTime),  \* schedules: sets of open ticks
   weeklies : SUBSET SUBSET (0..MaxTime),    \* the same without the day overrides
   midnights : SUBSET Nat,                   \* the ticks at which a day begins
   grace : Nat,          \* MARKET_FOREIGN_INDEPENDENT_GRACE_SECONDS, in ticks
   stale : Nat,          \* MARKET_NOTICE_STALENESS_SECONDS, in ticks
   end : 0..MaxTime,     \* bound on the clock
   edits : Nat,          \* bound on the edits of the schedule
   firstRun : BOOLEAN,   \* the table market_runtime_state may still be empty
   timely : BOOLEAN,     \* every loop makes a pass, and requests end, within a tick
   conflicts : BOOLEAN,  \* a transition may be rolled back by a concurrent trade
   refusals : BOOLEAN]   \* Telegram may refuse a notice for good

Servers == {"iran", "foreign"}
Offers == IranOffers \cup ForeignOffers
Home(o) == IF o \in IranOffers THEN "iran" ELSE "foreign"
Time == 0..MaxTime
Rows == [open : BOOLEAN, at : Time]

ASSUME MarketAssumption ==
  /\ IranOffers \cap ForeignOffers = {} /\ MaxTime \in Nat
  /\ Cases \subseteq CaseType
  /\ NoRow \notin Rows /\ None \notin Time

VARIABLES
  now,      \* the clock, in ticks of one loop interval (15 s)
  sched,    \* each server's schedule: settings and overrides
  weekly,   \* each server's weekly hours: the schedule without its overrides
  row,      \* market_runtime_state on Iran: is_open and last_transition_at
  wire,     \* every version of that row, as sent to the foreign server
  copy,     \* market_runtime_state on the foreign server
  phase,    \* each offer: new, fenced, active, expired or refused
  pass,     \* Iran's loop: what it evaluated and has to apply
  task,     \* foreign's loop and receiver: the state they are settling
  receipt,  \* market_channel_notice_receipts by (transition, transition_at)
  channel,  \* the notices on the channel, in order
  ran,      \* the loops that made a pass in this tick
  edits,
  late,     \* history: offers fenced when a close ran on their server
  lastOpen, \* history: the last tick at which each schedule was open
  case      \* the case this behaviour belongs to; it never changes

clocks == <<now, ran, lastOpen>>
notices == <<receipt, channel>>
vars == <<now, sched, weekly, row, wire, copy, phase, pass, task, receipt, channel,
          ran, edits, late, lastOpen, case>>

Idle == [pc |-> "idle", st |-> NoRow, again |-> FALSE]

Init ==
  /\ case \in Cases /\ now = 0
  /\ \E S \in case.timetables, W \in case.weeklies :
       /\ sched = [s \in Servers |-> S] /\ weekly = [s \in Servers |-> W]
       /\ row \in {[open |-> 0 \in S, at |-> 0]}
                \cup (IF case.firstRun THEN {NoRow} ELSE {})
  /\ wire = {row} \ {NoRow} /\ copy = row
  /\ phase = [o \in Offers |-> "new"]
  /\ pass = [pc |-> "idle", open |-> FALSE]
  /\ task = [r \in {"loop", "receiver"} |-> Idle]
  /\ receipt = [k \in Rows |-> "none"]
  /\ channel = <<>> /\ ran = {} /\ edits = 0 /\ late = {}
  /\ lastOpen = [s \in Servers |-> 0]

(* evaluate_market_schedule: is the market open, and since when.           *)
IsOpen(s) == now \in sched[s]

(* load_market_schedule_overrides_window loads the overrides from today    *)
(* on, so at t a tick c of a day before is seen with the weekly hours      *)
(* alone, whatever override it had.                                        *)
SeenOpen(s, t, c) ==
  IF \E m \in case.midnights : c < m /\ m <= t THEN c \in weekly[s] ELSE c \in sched[s]

\* current_transition_at, of the schedule as it was loaded
TransitionAt(s) ==
  LET C == {c \in 1..now : SeenOpen(s, now, c) = IsOpen(s)
                           /\ SeenOpen(s, now, c - 1) # IsOpen(s)}
  IN IF C = {} THEN None ELSE CHOOSE c \in C : \A d \in C : d <= c

\* Mutant: nothing orders admissions and transitions.
Unlocked(s) == s \in Servers

(* The advisory lock of a server's database.  Transitions hold it within   *)
(* one action, admissions from the fence to their commit.                  *)
LockFree(s) == \A o \in Offers : Home(o) = s => phase[o] # "fenced"

\* A close at s: every active offer of that home, as committed now, expires
ExpireLocal(s) ==
  /\ phase' = [o \in Offers |-> IF Home(o) = s /\ phase[o] = "active"
                                THEN "expired" ELSE phase[o]]
  /\ late' = late \cup {o \in Offers : Home(o) = s /\ phase[o] = "fenced"}

Ran(s) == ran' = IF case.timely THEN ran \cup {s} ELSE ran

---------------------------------------------------------------------------
(* Publishing an offer *)

\* acquire_market_offer_admission_fence
Fence(o) ==
  /\ o \in case.offers /\ phase[o] = "new" /\ LockFree(Home(o)) /\ IsOpen(Home(o))
  /\ phase' = [phase EXCEPT ![o] = "fenced"]
  /\ UNCHANGED <<sched, weekly, row, wire, copy, pass, task, notices, clocks, edits, late>>

\* The market is closed, or the lock did not come within its timeout.
Refuse(o) ==
  /\ o \in case.offers /\ phase[o] = "new" /\ ~(LockFree(Home(o)) /\ IsOpen(Home(o)))
  /\ phase' = [phase EXCEPT ![o] = "refused"]
  /\ UNCHANGED <<sched, weekly, row, wire, copy, pass, task, notices, clocks, edits, late>>

\* The offer commits, or its transaction is rolled back.
Commit(o) ==
  /\ phase[o] = "fenced"
  /\ \E p \in {"active", "refused"} : phase' = [phase EXCEPT ![o] = p]
  /\ UNCHANGED <<sched, weekly, row, wire, copy, pass, task, notices, clocks, edits, late>>

---------------------------------------------------------------------------
(* Iran *)

\* The loop reads settings and overrides before it asks for the lock.
Evaluate ==
  /\ pass.pc = "idle" /\ "iran" \notin ran
  /\ pass' = [pc |-> "apply", open |-> IsOpen("iran")]
  /\ UNCHANGED <<sched, weekly, row, wire, copy, phase, task, notices, clocks, edits, late>>

\* apply_market_schedule_transition; no two transitions share an instant.
ApplyTransition ==
  /\ pass.pc = "apply" /\ LockFree("iran")
  /\ pass' = [pass EXCEPT !.pc = "idle"]
  /\ Ran("iran")
  /\ \/ /\ row # NoRow /\ row.open = pass.open
        /\ UNCHANGED <<row, wire, phase, late>>
     \/ /\ row # NoRow => row.open # pass.open /\ row.at < now
        /\ row' = [open |-> pass.open, at |-> now]
        /\ wire' = wire \cup {row'}
        /\ IF row # NoRow /\ ~pass.open THEN ExpireLocal("iran")
           ELSE UNCHANGED <<phase, late>>
  /\ UNCHANGED <<sched, weekly, copy, task, notices, now, lastOpen, edits>>

\* A trade committed on one of the offers: the whole close is rolled back.
RollBack ==
  /\ case.conflicts /\ pass.pc = "apply" /\ ~pass.open
  /\ \E o \in IranOffers : phase[o] = "active"
  /\ pass' = [pass EXCEPT !.pc = "idle"]
  /\ UNCHANGED <<sched, weekly, row, wire, copy, phase, task, notices, clocks, edits, late>>

---------------------------------------------------------------------------
(* The foreign server *)

\* market_runtime_state arrives; an older transition is ignored.
Receive(m) ==
  /\ m \in wire /\ task["receiver"].pc = "idle"
  /\ copy # NoRow => copy.at <= m.at
  /\ copy' = m
  /\ task' = [task EXCEPT !["receiver"].pc = "begin"]
  /\ UNCHANGED <<sched, weekly, row, wire, phase, pass, notices, clocks, edits, late>>

\* reconcile_market_runtime_side_effects_for_current_state reads the row
ReadState(r) ==
  /\ IF r = "loop" THEN task[r].pc = "idle" /\ "foreign" \notin ran
     ELSE task[r].pc = "begin"
  /\ task' = [task EXCEPT ![r] =
                [pc |-> IF copy = NoRow THEN "autonomy" ELSE "settle",
                 st |-> copy, again |-> r = "loop"]]
  /\ UNCHANGED <<sched, weekly, row, wire, copy, phase, pass, notices, clocks, edits, late>>

\* A closed market expires the local offers, under the lock.
Settle(r) ==
  /\ task[r].pc = "settle"
  /\ IF task[r].st.open THEN UNCHANGED <<phase, late>>
     ELSE LockFree("foreign") /\ ExpireLocal("foreign")
  /\ task' = [task EXCEPT ![r].pc = "notice"]
  /\ UNCHANGED <<sched, weekly, row, wire, copy, pass, notices, clocks, edits>>

\* The close is rolled back by a trade and the pass ends with the error.
SettleRollBack(r) ==
  /\ case.conflicts /\ task[r].pc = "settle" /\ ~task[r].st.open
  /\ \E o \in ForeignOffers : phase[o] = "active"
  /\ task' = [task EXCEPT ![r] = Idle]
  /\ UNCHANGED <<sched, weekly, row, wire, copy, phase, pass, notices, clocks, edits, late>>

IsStale(k) == now > k.at + case.stale

\* reconcile_market_channel_notice_for_state: the receipt of a transition
Notice(r) ==
  /\ task[r].pc = "notice"
  /\ LET k == task[r].st
     IN receipt' =
          [receipt EXCEPT ![k] =
             IF @ \notin {"none", "pending", "handed"} THEN @
             ELSE IF IsStale(k) THEN "dropped"
             ELSE IF @ = "none" THEN "pending" ELSE @]
  /\ IF task[r].again
     THEN task' = [task EXCEPT ![r].pc = "autonomy"] /\ UNCHANGED ran
     ELSE /\ task' = [task EXCEPT ![r] = Idle]
          /\ IF r = "loop" THEN Ran("foreign") ELSE UNCHANGED ran
  /\ UNCHANGED <<sched, weekly, row, wire, copy, phase, pass, channel, now, lastOpen,
                 edits, late>>

\* Mutant: any row that contradicts the schedule counts as Iran's answer.
AnsweredByAnyRow(open, at) == copy # NoRow

\* Iran's row already has this transition, or a later one.
Answered(open, at) ==
  /\ copy # NoRow
  /\ IF copy.open = open THEN copy.at >= at ELSE copy.at > at

\* reconcile_foreign_market_schedule_autonomy
Autonomy ==
  /\ task["loop"].pc = "autonomy"
  /\ LET at == TransitionAt("foreign")
     IN IF at = None \/ now < at + case.grace \/ Answered(IsOpen("foreign"), at)
        THEN /\ task' = [task EXCEPT !["loop"] = Idle] /\ Ran("foreign")
        ELSE /\ task' = [task EXCEPT !["loop"] =
                           [pc |-> "settle", again |-> FALSE,
                            st |-> [open |-> IsOpen("foreign"), at |-> at]]]
             /\ UNCHANGED ran
  /\ UNCHANGED <<sched, weekly, row, wire, copy, phase, pass, notices, now, lastOpen,
                 edits, late>>

---------------------------------------------------------------------------
(* The notice in the delivery queue *)

\* handoff_next_due_market_channel_notice
Handoff(k) ==
  /\ receipt[k] = "pending"
  /\ receipt' = [receipt EXCEPT ![k] = IF IsStale(k) THEN "dropped" ELSE "handed"]
  /\ UNCHANGED <<sched, weekly, row, wire, copy, phase, pass, task, channel, clocks,
                 edits, late>>

\* Mutant: only the deadline is looked at before the send.
CurrentByDeadline(k) == ~IsStale(k)

\* validate_market_telegram_delivery_freshness: the notice names the
\* transition of the local row, and its deadline has not passed.
Current(k) == k = copy /\ ~IsStale(k)

Deliver(k) ==
  /\ receipt[k] = "handed" /\ copy # NoRow
  /\ \E ok \in IF Current(k) /\ case.refusals THEN BOOLEAN ELSE {Current(k)} :
       /\ receipt' = [receipt EXCEPT ![k] = IF ok THEN "sent" ELSE "dropped"]
       /\ channel' = IF ok THEN Append(channel, k) ELSE channel
  /\ UNCHANGED <<sched, weekly, row, wire, copy, phase, pass, task, clocks, edits, late>>

---------------------------------------------------------------------------
(* The schedule and the clock *)

EditSchedule(S, W) ==
  /\ edits < case.edits /\ <<S, W>> # <<sched["iran"], weekly["iran"]>>
  /\ edits' = edits + 1
  /\ sched' = [sched EXCEPT !["iran"] = S]
  /\ weekly' = [weekly EXCEPT !["iran"] = W]
  /\ lastOpen' = [lastOpen EXCEPT !["iran"] = IF now \in S THEN now ELSE @]
  /\ UNCHANGED <<row, wire, copy, phase, pass, task, notices, now, ran, late>>

SyncSchedule ==
  /\ <<sched["foreign"], weekly["foreign"]>> # <<sched["iran"], weekly["iran"]>>
  /\ sched' = [sched EXCEPT !["foreign"] = sched["iran"]]
  /\ weekly' = [weekly EXCEPT !["foreign"] = weekly["iran"]]
  /\ lastOpen' = [lastOpen EXCEPT !["foreign"] =
                    IF now \in sched["iran"] THEN now ELSE @]
  /\ UNCHANGED <<row, wire, copy, phase, pass, task, notices, now, ran, edits, late>>

Tick ==
  /\ now < case.end
  /\ case.timely => /\ ran = Servers /\ task["receiver"] = Idle
               /\ \A o \in Offers : phase[o] # "fenced"
  /\ now' = now + 1 /\ ran' = {}
  /\ lastOpen' = [s \in Servers |-> IF now' \in sched[s] THEN now' ELSE lastOpen[s]]
  /\ UNCHANGED <<sched, weekly, row, wire, copy, phase, pass, task, notices, edits, late>>

Step ==
  \/ \E o \in Offers : Fence(o) \/ Refuse(o) \/ Commit(o)
  \/ Evaluate \/ ApplyTransition \/ RollBack
  \/ \E m \in wire : Receive(m)
  \/ \E r \in {"loop", "receiver"} :
       ReadState(r) \/ Settle(r) \/ SettleRollBack(r) \/ Notice(r)
  \/ Autonomy
  \/ \E k \in Rows : Handoff(k) \/ Deliver(k)
  \/ \E S \in case.timetables, W \in case.weeklies : EditSchedule(S, W)
  \/ SyncSchedule \/ Tick

Next == Step /\ UNCHANGED case

Spec == Init /\ [][Next]_vars

---------------------------------------------------------------------------
(* What is stored; and the foreign row is always one that Iran wrote: its  *)
(* autonomy acts on the Telegram side only.                                *)
TypeOK ==
  /\ now \in Time /\ sched \in [Servers -> case.timetables]
  /\ weekly \in [Servers -> case.weeklies]
  /\ row \in Rows \cup {NoRow} /\ wire \subseteq Rows
  /\ copy \in wire \cup {NoRow}
  /\ phase \in [Offers -> {"new", "fenced", "active", "expired", "refused"}]
  /\ receipt \in [Rows -> {"none", "pending", "handed", "sent", "dropped"}]
  /\ late \subseteq Offers

(* Create against close: whichever takes the lock first, no offer whose    *)
(* admission was decided before a close of its server is active after it.  *)
(* Both loops, the receiver and the rolled-back closes race with it.       *)
CloseIsFinal == \A o \in late : phase[o] # "active"

(* The channel tells the transitions in the order in which they happened,  *)
(* and each once, however late or often Iran's row arrives and whatever    *)
(* the foreign server did on its own in between.                           *)
NoticesInOrder ==
  \A i, j \in 1..Len(channel) : i < j => channel[i].at < channel[j].at

(* When the grace of the foreign server's last closing ends, its loop sees *)
(* the ticks since as they were: no midnight lies between, or the day      *)
(* before it had no override that matters.                                 *)
Recalled ==
  LET due == lastOpen["foreign"] + 1 + case.grace
  IN \A c \in lastOpen["foreign"]..due :
       SeenOpen("foreign", due, c) <=> c \in sched["foreign"]

(* Iran's row of the last closing has arrived and was dealt with.          *)
Told ==
  copy # NoRow /\ copy.at > lastOpen["foreign"] /\ task["receiver"].pc = "idle"

(* When time is up no offer stays active: on Iran after one loop pass; on  *)
(* the foreign server once Iran's row came, and without a link to Iran     *)
(* after the grace, if the loop still sees the day that closed as it was   *)
(* (Recalled: after midnight it has lost that day's override, takes an     *)
(* older transition for the last one and Iran's opening for a newer        *)
(* answer).  Provided the loops keep up, no close is rolled back and       *)
(* nobody edits the schedule.                                              *)
BoundedClose ==
  case.timely /\ ~case.conflicts /\ case.edits = 0 =>
    \A o \in Offers :
      (IF Home(o) = "iran" THEN now > lastOpen["iran"] + 1
       ELSE Told \/ (Recalled /\ now > lastOpen["foreign"] + 1 + case.grace))
        => phase[o] # "active"
=============================================================================
