---------------------------- MODULE MarketProofs ----------------------------
(***************************************************************************)
(* The channel tells the openings and closings of the market in order and  *)
(* each once, and no offer slips past a close: for any schedules, offers,  *)
(* graces and deadlines, with Iran's row late, repeated and out of order.  *)
(* The schedule names the next and the last change of its timetable        *)
(* exactly, for any hours, holidays and overrides.                         *)
(***************************************************************************)
EXTENDS MarketTransition, MarketSchedule, WellFoundedInduction, TLAPS

-----------------------------------------------------------------------------
(* The inductive invariant *)

Typed ==
  /\ case \in Cases /\ now \in Time /\ pass.open \in BOOLEAN
  /\ wire \subseteq Rows /\ row \in wire \cup {NoRow} /\ copy \in wire \cup {NoRow}
  /\ DOMAIN receipt = Rows
  /\ channel \in Seq(Rows)

\* Iran's row is the newest of those it sent, and no two of them share an instant.
WireInTime ==
  /\ row = NoRow => wire = {}
  /\ row # NoRow => \A m \in wire : m.at <= row.at
  /\ \A m, n \in wire : m.at = n.at => m = n

\* What was told is settled, was a row of Iran, and is not newer than the copy.
ToldIsSettled ==
  \A i \in 1..Len(channel) :
    /\ receipt[channel[i]] = "sent"
    /\ channel[i] \in wire
    /\ copy # NoRow /\ channel[i].at <= copy.at

NoneLate == late = {}

MarketInv == Typed /\ WireInTime /\ ToldIsSettled /\ NoticesInOrder /\ NoneLate

-----------------------------------------------------------------------------
(* Steps *)

\* Rows have their time, and NoRow is none.
LEMMA RowTimes == /\ \A m \in Rows : m.at \in Nat /\ m # NoRow
                  /\ \A t \in Time : t \in Nat
BY MarketAssumption DEF Rows, Time

\* What was told stays when neither the rows of Iran nor the channel changes and the
\* copy does not go back.
LEMMA KeepStep ==
  ASSUME MarketInv, Typed', row' = row, wire' = wire, channel' = channel, late' = late,
         \A k \in Rows : receipt[k] = "sent" => receipt'[k] = "sent",
         \/ copy' = copy
         \/ copy' # NoRow /\ (copy # NoRow => copy.at <= copy'.at)
  PROVE  MarketInv'
<1>1. Typed /\ WireInTime /\ ToldIsSettled /\ NoticesInOrder /\ NoneLate
  BY DEF MarketInv
<1>2. WireInTime' /\ NoticesInOrder' /\ NoneLate'
  BY <1>1 DEF WireInTime, NoticesInOrder, NoneLate
<1>3. ToldIsSettled'
  <2> SUFFICES ASSUME NEW i \in 1..Len(channel)
               PROVE  /\ receipt'[channel[i]] = "sent" /\ channel[i] \in wire
                      /\ copy' # NoRow /\ channel[i].at <= copy'.at
    BY DEF ToldIsSettled
  <2>1. /\ receipt[channel[i]] = "sent" /\ channel[i] \in wire
        /\ copy # NoRow /\ channel[i].at <= copy.at
    BY <1>1 DEF ToldIsSettled
  <2>2. channel[i] \in Rows /\ copy \in Rows
    BY <1>1, <2>1 DEF Typed
  <2>3. copy' # NoRow /\ copy' \in Rows /\ copy.at <= copy'.at
    BY <2>1, <2>2, RowTimes DEF Typed
  <2> QED
    BY <2>1, <2>2, <2>3, RowTimes
<1> QED
  BY <1>2, <1>3 DEF MarketInv

\* Nothing is there at first but perhaps a first row.
LEMMA MarketStart == Init => MarketInv
<1> SUFFICES ASSUME Init PROVE MarketInv
  OBVIOUS
<1>1. PICK S : row \in {[open |-> 0 \in S, at |-> 0]} \cup {NoRow}
  BY DEF Init
<1>2. row # NoRow => row \in Rows
  <2>1. (0 \in S) \in BOOLEAN /\ 0 \in Time
    BY MarketAssumption DEF Time
  <2>2. \A b \in BOOLEAN, t \in Time : [open |-> b, at |-> t] \in Rows
    BY DEF Rows
  <2>3. [open |-> 0 \in S, at |-> 0] \in Rows
    BY <2>1, <2>2, Zenon
  <2> QED
    BY <1>1, <2>3, Zenon
<1>3. Typed
  BY <1>2, MarketAssumption DEF Init, Typed, Time
<1>4. WireInTime
  BY <1>2, RowTimes DEF Init, WireInTime
<1>5. ToldIsSettled /\ NoticesInOrder /\ NoneLate
  BY DEF Init, ToldIsSettled, NoticesInOrder, NoneLate
<1> QED
  BY <1>3, <1>4, <1>5 DEF MarketInv

\* Iran's transitions: a new row is newer than all it sent.
LEMMA TransitionStep ==
  ASSUME MarketInv, ApplyTransition, UNCHANGED case
  PROVE  MarketInv'
<1>1. Typed /\ WireInTime /\ ToldIsSettled /\ NoticesInOrder /\ NoneLate
  BY DEF MarketInv
<1>2. /\ now' = now /\ copy' = copy /\ receipt' = receipt /\ channel' = channel
      /\ pass' = [pass EXCEPT !.pc = "idle"] /\ LockFree("iran")
  BY DEF ApplyTransition, notices
<1>3. pass'.open \in BOOLEAN
  BY <1>1, <1>2 DEF Typed
<1>4. NoneLate'
  <2>1. ~(\E o \in Offers : Home(o) = "iran" /\ phase[o] = "fenced")
    BY <1>2 DEF LockFree
  <2> QED
    BY <1>1, <2>1 DEF ApplyTransition, ExpireLocal, NoneLate
<1>5. CASE row' = row /\ wire' = wire
  <2>1. Typed'
    BY <1>1, <1>2, <1>3, <1>5 DEF Typed
  <2> QED
    BY <1>1, <1>2, <1>4, <1>5, <2>1, KeepStep DEF NoneLate
<1>6. CASE /\ row # NoRow => row.open # pass.open /\ row.at < now
           /\ row' = [open |-> pass.open, at |-> now]
           /\ wire' = wire \cup {row'}
  <2>1. row' \in Rows /\ row'.at = now /\ row' # NoRow
    BY <1>1, <1>6, RowTimes DEF Typed, Rows
  <2>2. Typed'
    BY <1>1, <1>2, <1>3, <1>6, <2>1 DEF Typed
  <2>3. \A m \in wire : m.at < now
    <3> SUFFICES ASSUME NEW m \in wire PROVE m.at < now
      OBVIOUS
    <3>1. row # NoRow /\ m.at <= row.at /\ row.at < now
      BY <1>1, <1>6 DEF WireInTime
    <3>2. m \in Rows /\ row \in Rows /\ now \in Time
      BY <1>1, <3>1 DEF Typed
    <3> QED
      BY <3>1, <3>2, RowTimes
  <2>4. /\ \A m \in wire : m.at \in Nat
        /\ now \in Nat
    BY <1>1, RowTimes DEF Typed
  <2>5. WireInTime'
    BY <1>1, <1>6, <2>1, <2>3, <2>4 DEF WireInTime
  <2>6. ToldIsSettled' /\ NoticesInOrder'
    BY <1>1, <1>2, <1>6 DEF ToldIsSettled, NoticesInOrder
  <2> QED
    BY <1>4, <2>2, <2>5, <2>6 DEF MarketInv
<1> QED
  BY <1>5, <1>6 DEF ApplyTransition

\* A notice is sent: it names the copy, which is newer than all that was told.
LEMMA DeliverStep ==
  ASSUME MarketInv, NEW k \in Rows, Deliver(k), UNCHANGED case
  PROVE  MarketInv'
<1>1. Typed /\ WireInTime /\ ToldIsSettled /\ NoticesInOrder /\ NoneLate
  BY DEF MarketInv
<1>2. /\ row' = row /\ wire' = wire /\ copy' = copy /\ now' = now /\ pass' = pass /\ late' = late
      /\ receipt[k] = "handed"
  BY DEF Deliver, clocks
<1>3. PICK ok \in BOOLEAN :
        /\ ok => Current(k)
        /\ receipt' = [receipt EXCEPT ![k] = IF ok THEN "sent" ELSE "dropped"]
        /\ channel' = IF ok THEN Append(channel, k) ELSE channel
  <2>1. Current(k) \in BOOLEAN
    BY DEF Current
  <2> QED
    BY <2>1 DEF Deliver
<1>4. /\ DOMAIN receipt' = Rows
      /\ \A m \in Rows : receipt[m] = "sent" => receipt'[m] = "sent"
  BY <1>1, <1>2, <1>3 DEF Typed
<1>5. CASE ~ok
  <2>1. Typed' /\ channel' = channel
    BY <1>1, <1>2, <1>3, <1>4, <1>5 DEF Typed
  <2> QED
    BY <1>2, <1>4, <2>1, KeepStep
<1>6. CASE ok
  <2>1. /\ k = copy /\ channel' = Append(channel, k) /\ receipt'[k] = "sent"
    BY <1>1, <1>3, <1>6 DEF Current, Typed
  <2>2. /\ channel' \in Seq(Rows) /\ Len(channel') = Len(channel) + 1 /\ Len(channel) \in Nat
        /\ channel'[Len(channel) + 1] = k
        /\ \A i \in 1..Len(channel) : channel'[i] = channel[i]
    BY <1>1, <2>1 DEF Typed
  <2>3. Typed'
    BY <1>1, <1>2, <1>4, <2>2 DEF Typed
  <2>4. k \in wire /\ k # NoRow /\ k.at \in Nat
    BY <1>1, <2>1, RowTimes DEF Typed
  <2>5. \A i \in 1..Len(channel) : channel[i].at < k.at
    <3> SUFFICES ASSUME NEW i \in 1..Len(channel) PROVE channel[i].at < k.at
      OBVIOUS
    <3>1. receipt[channel[i]] = "sent" /\ channel[i] \in wire /\ channel[i].at <= k.at
      BY <1>1, <2>1 DEF ToldIsSettled
    <3>2. channel[i].at # k.at
      BY <1>1, <1>2, <2>4, <3>1 DEF WireInTime
    <3>3. channel[i].at \in Nat
      BY <1>1, <3>1, RowTimes DEF Typed
    <3> QED
      BY <2>4, <3>1, <3>2, <3>3
  <2>6. \A i \in 1..Len(channel') : i \in 1..Len(channel) \/ i = Len(channel) + 1
    BY <2>2
  <2>7. ToldIsSettled'
    <3> SUFFICES ASSUME NEW i \in 1..Len(channel')
                 PROVE  /\ receipt'[channel'[i]] = "sent" /\ channel'[i] \in wire
                        /\ copy # NoRow /\ channel'[i].at <= copy.at
      BY <1>2 DEF ToldIsSettled
    <3>1. CASE i = Len(channel) + 1
      BY <2>1, <2>2, <2>4, <3>1
    <3>2. CASE i \in 1..Len(channel)
      <4>1. receipt[channel[i]] = "sent" /\ channel[i] \in wire /\ channel[i] \in Rows
        BY <1>1, <3>2 DEF ToldIsSettled, Typed
      <4>2. channel[i].at <= copy.at
        BY <1>1, <3>2 DEF ToldIsSettled
      <4> QED
        BY <1>4, <2>1, <2>2, <2>4, <3>2, <4>1, <4>2
    <3> QED
      BY <2>6, <3>1, <3>2
  <2>8. NoticesInOrder'
    <3> SUFFICES ASSUME NEW i \in 1..Len(channel'), NEW j \in 1..Len(channel'), i < j
                 PROVE  channel'[i].at < channel'[j].at
      BY DEF NoticesInOrder
    <3>1. i \in 1..Len(channel)
      BY <2>2
    <3>2. CASE j = Len(channel) + 1
      BY <2>2, <2>5, <3>1, <3>2
    <3>3. CASE j \in 1..Len(channel)
      BY <1>1, <2>2, <3>1, <3>3 DEF NoticesInOrder
    <3> QED
      BY <2>6, <3>2, <3>3
  <2>9. WireInTime' /\ NoneLate'
    BY <1>1, <1>2 DEF WireInTime, NoneLate
  <2> QED
    BY <2>3, <2>7, <2>8, <2>9 DEF MarketInv
<1> QED
  BY <1>5, <1>6

\* Iran's row arrives, unless it is older than the copy.
LEMMA ReceiveStep ==
  ASSUME MarketInv, NEW m \in wire, Receive(m), UNCHANGED case
  PROVE  MarketInv'
<1>1. Typed
  BY DEF MarketInv
<1>2. /\ row' = row /\ wire' = wire /\ channel' = channel /\ late' = late
      /\ receipt' = receipt /\ now' = now /\ pass' = pass /\ copy' = m
      /\ copy # NoRow => copy.at <= m.at
  BY DEF Receive, notices, clocks
<1>3. Typed' /\ m # NoRow
  BY <1>1, <1>2, RowTimes DEF Typed
<1> QED
  BY <1>2, <1>3, KeepStep

\* Steps that change neither rows, copy nor channel: receipts move on until they are
\* settled, and a close finds no offer under way.
LEMMA OtherSteps ==
  ASSUME MarketInv, UNCHANGED case,
         \/ \E o \in Offers : Fence(o) \/ Refuse(o) \/ Commit(o)
         \/ Evaluate \/ RollBack
         \/ \E r \in {"loop", "receiver"} :
              ReadState(r) \/ Settle(r) \/ SettleRollBack(r) \/ Notice(r)
         \/ Autonomy
         \/ \E k \in Rows : Handoff(k)
         \/ \E S \in case.timetables, W \in case.weeklies : EditSchedule(S, W)
         \/ SyncSchedule \/ Tick
  PROVE  MarketInv'
<1>1. Typed /\ NoneLate
  BY DEF MarketInv
<1>2. /\ row' = row /\ wire' = wire /\ channel' = channel /\ copy' = copy
  BY DEF Fence, Refuse, Commit, Evaluate, RollBack, ReadState, Settle, SettleRollBack, Notice,
         Autonomy, Handoff, EditSchedule, SyncSchedule, Tick, notices
<1>3. now' \in Time
  <2>1. CASE now' = now
    BY <1>1, <2>1 DEF Typed
  <2>2. CASE Tick
    <3>1. case.end \in 0..MaxTime
      BY <1>1, MarketAssumption DEF Typed, CaseType
    <3> QED
      BY <1>1, <2>2, <3>1, MarketAssumption DEF Typed, Tick, Time
  <2> QED
    BY <2>1, <2>2
       DEF Fence, Refuse, Commit, Evaluate, RollBack, ReadState, Settle, SettleRollBack, Notice,
           Autonomy, Handoff, EditSchedule, SyncSchedule, clocks
<1>4. pass'.open \in BOOLEAN
  <2>1. CASE pass' = pass
    BY <1>1, <2>1 DEF Typed
  <2>2. CASE pass' = [pass EXCEPT !.pc = "idle"]
    BY <1>1, <2>2 DEF Typed
  <2>3. CASE Evaluate
    BY <2>3 DEF Evaluate, IsOpen
  <2> QED
    BY <2>1, <2>2, <2>3
       DEF Fence, Refuse, Commit, RollBack, ReadState, Settle, SettleRollBack, Notice,
           Autonomy, Handoff, EditSchedule, SyncSchedule, Tick
<1>5. /\ DOMAIN receipt' = Rows
      /\ \A k \in Rows : receipt[k] = "sent" => receipt'[k] = "sent"
  <2>1. CASE receipt' = receipt
    BY <1>1, <2>1 DEF Typed
  <2>2. CASE \E r \in {"loop", "receiver"} : Notice(r)
    BY <1>1, <2>2 DEF Typed, Notice
  <2>3. CASE \E k \in Rows : Handoff(k)
    BY <1>1, <2>3 DEF Typed, Handoff
  <2> QED
    BY <2>1, <2>2, <2>3
       DEF Fence, Refuse, Commit, Evaluate, RollBack, ReadState, Settle, SettleRollBack,
           Autonomy, EditSchedule, SyncSchedule, Tick, notices
<1>6. late' = late
  <2>1. CASE \E r \in {"loop", "receiver"} : Settle(r)
    BY <1>1, <2>1 DEF Settle, ExpireLocal, LockFree
  <2> QED
    BY <2>1
       DEF Fence, Refuse, Commit, Evaluate, RollBack, ReadState, SettleRollBack, Notice,
           Autonomy, Handoff, EditSchedule, SyncSchedule, Tick
<1>7. Typed'
  BY <1>1, <1>2, <1>3, <1>4, <1>5 DEF Typed
<1> QED
  BY <1>2, <1>5, <1>6, <1>7, KeepStep

\* Every step keeps the invariant.
LEMMA MarketStep == MarketInv /\ [Next]_vars => MarketInv'
<1> SUFFICES ASSUME MarketInv, [Next]_vars PROVE MarketInv'
  OBVIOUS
<1>1. CASE Next
  BY <1>1, TransitionStep, DeliverStep, ReceiveStep, OtherSteps DEF Next, Step
<1>2. CASE UNCHANGED vars
  BY <1>2 DEF vars, MarketInv, Typed, WireInTime, ToldIsSettled, NoticesInOrder, NoneLate
<1> QED
  BY <1>1, <1>2

\* The invariant holds in every reachable state.
LEMMA MarketInvariant == Spec => []MarketInv
BY MarketStart, MarketStep, PTL DEF Spec

-----------------------------------------------------------------------------
(* Theorems *)

\* The channel tells the transitions in the order in which they happened and each
\* once, however Iran's row travels and whatever the foreign server does on its own
\* (telegram_delivery_market_freshness.py, market_transition_service.py).
THEOREM NoticesAreOrdered == Spec => []NoticesInOrder
<1>1. MarketInv => NoticesInOrder
  BY DEF MarketInv
<1> QED
  BY <1>1, MarketInvariant, PTL

\* No offer whose admission was decided before a close of its server is active
\* after it: a close never finds an admission between its fence and its commit
\* (acquire_market_offer_admission_fence).
THEOREM ClosedMarketStaysClosed == Spec => []CloseIsFinal
<1>1. MarketInv => CloseIsFinal
  BY DEF MarketInv, NoneLate, CloseIsFinal
<1> QED
  BY <1>1, MarketInvariant, PTL

\* The schedules, the offers and the receipts, each of its kind.
Kinds ==
  /\ sched \in [Servers -> case.timetables] /\ weekly \in [Servers -> case.weeklies]
  /\ phase \in [Offers -> {"new", "fenced", "active", "expired", "refused"}]
  /\ receipt \in [Rows -> {"none", "pending", "handed", "sent", "dropped"}]

\* Every step keeps each of its kind.
LEMMA KindsStep == Kinds /\ [Next]_vars => Kinds'
<1> SUFFICES ASSUME Kinds, [Next]_vars PROVE Kinds'
  OBVIOUS
<1>1. case' = case
  BY DEF Next, vars
<1>2. sched' \in [Servers -> case.timetables] /\ weekly' \in [Servers -> case.weeklies]
  <2>1. CASE \E S \in case.timetables, W \in case.weeklies : EditSchedule(S, W)
    BY <2>1 DEF EditSchedule, Kinds, Servers
  <2>2. CASE SyncSchedule
    BY <2>2 DEF SyncSchedule, Kinds, Servers
  <2>3. CASE sched' = sched /\ weekly' = weekly
    BY <2>3 DEF Kinds
  <2> QED
    BY <2>1, <2>2, <2>3
       DEF Next, Step, vars, Fence, Refuse, Commit, Evaluate, ApplyTransition, RollBack,
           Receive, ReadState, Settle, SettleRollBack, Notice, Autonomy, Handoff, Deliver, Tick
<1>3. phase' \in [Offers -> {"new", "fenced", "active", "expired", "refused"}]
  <2>1. CASE \E o \in Offers : Fence(o) \/ Refuse(o) \/ Commit(o)
    BY <2>1 DEF Fence, Refuse, Commit, Kinds
  <2>2. CASE \E s \in Servers : ExpireLocal(s)
    BY <2>2 DEF ExpireLocal, Kinds
  <2>3. CASE phase' = phase
    BY <2>3 DEF Kinds
  <2> QED
    BY <2>1, <2>2, <2>3
       DEF Next, Step, vars, Evaluate, ApplyTransition, RollBack, Receive, ReadState, Settle,
           SettleRollBack, Notice, Autonomy, Handoff, Deliver, EditSchedule, SyncSchedule, Tick,
           Servers
<1>4. receipt' \in [Rows -> {"none", "pending", "handed", "sent", "dropped"}]
  <2>1. CASE \E r \in {"loop", "receiver"} : Notice(r)
    BY <2>1 DEF Notice, Kinds
  <2>2. CASE \E k \in Rows : Handoff(k) \/ Deliver(k)
    BY <2>2 DEF Handoff, Deliver, Kinds
  <2>3. CASE receipt' = receipt
    BY <2>3 DEF Kinds
  <2> QED
    BY <2>1, <2>2, <2>3
       DEF Next, Step, vars, notices, Fence, Refuse, Commit, Evaluate, ApplyTransition,
           RollBack, Receive, ReadState, Settle, SettleRollBack, Autonomy, EditSchedule,
           SyncSchedule, Tick
<1> QED
  BY <1>1, <1>2, <1>3, <1>4 DEF Kinds

\* Every variable keeps its kind, and the foreign server's row is always one that Iran
\* wrote: what the foreign server does on its own acts on the Telegram side only
\* (reconcile_foreign_market_schedule_autonomy).
THEOREM MarketTypeCorrect == Spec => []TypeOK
<1>1. Init => Kinds
  BY DEF Init, Kinds
<1>2. MarketInv /\ Kinds => TypeOK
  BY DEF MarketInv, Typed, NoneLate, Kinds, TypeOK
<1> QED
  BY <1>1, <1>2, KindsStep, MarketInvariant, PTL DEF Spec

-----------------------------------------------------------------------------
(* A close is bounded in time *)

\* The loops keep up, no close is rolled back, nobody edits the schedule.
Paced == case.timely /\ ~case.conflicts /\ case.edits = 0

\* Some offer of s is on sale.
OnSale(s) == \E o \in Offers : Home(o) = s /\ phase[o] = "active"

\* The tasks of the foreign server are records of this shape.
TaskTable(f) ==
  /\ DOMAIN f = {"loop", "receiver"}
  /\ \A r \in DOMAIN f : DOMAIN f[r] = {"pc", "st", "again"}

PaceTyped ==
  /\ phase \in [Offers -> {"new", "fenced", "active", "expired", "refused"}]
  /\ TaskTable(task)
  /\ pass.pc \in {"idle", "apply"}
  /\ DOMAIN sched = Servers /\ sched["foreign"] = sched["iran"]
  /\ DOMAIN weekly = Servers /\ weekly["foreign"] = weekly["iran"] /\ edits = 0

\* lastOpen is what it says, and there was an open tick before the first offer.
LastOpenSound ==
  /\ lastOpen \in [Servers -> Nat]
  /\ \A s \in Servers :
       /\ lastOpen[s] <= now
       /\ \A t \in Time : lastOpen[s] < t /\ t <= now => t \notin sched[s]
       /\ OnSale(s) => lastOpen[s] \in sched[s]
  /\ \A o \in Offers : phase[o] = "fenced" => IsOpen(Home(o))

\* Iran's rows follow the schedule.
RowsFollow == \A m \in wire : m.at <= now /\ (m.open <=> m.at \in sched["iran"])

\* Iran: an offer on sale in a closed tick is one of the last open tick, and the
\* pass of this tick is still to come and will find the row open.
IranPaced ==
  /\ pass.pc = "apply" => "iran" \notin ran /\ (pass.open <=> IsOpen("iran"))
  /\ "iran" \in ran => row # NoRow /\ (row.open <=> IsOpen("iran"))
  /\ OnSale("iran") /\ ~IsOpen("iran") =>
       /\ "iran" \notin ran /\ row # NoRow /\ row.open
       /\ now = lastOpen["iran"] + 1

\* The receiver is going to close.
ReceiverCloses ==
  \/ task["receiver"].pc = "begin" /\ copy # NoRow /\ ~copy.open
  \/ task["receiver"].pc = "settle" /\ ~task["receiver"].st.open

\* Foreign: an offer on sale in a closed tick is within the grace, if the loop will
\* know by then since when it is closed; a row of this closing, and such a pass after
\* the grace, leave it to the receiver at most.
ForeignPaced ==
  /\ "foreign" \in ran => task["loop"].pc = "idle"
  /\ task["loop"].pc \in {"settle", "notice"} /\ ~task["loop"].again /\ ~IsOpen("foreign") =>
       IF task["loop"].pc = "settle" THEN ~task["loop"].st.open ELSE ~OnSale("foreign")
  /\ OnSale("foreign") /\ ~IsOpen("foreign") =>
       /\ Recalled => now <= lastOpen["foreign"] + 1 + case.grace
       /\ copy # NoRow /\ copy.at > lastOpen["foreign"] => ReceiverCloses
       /\ Recalled /\ now = lastOpen["foreign"] + 1 + case.grace /\ "foreign" \in ran =>
            ReceiverCloses

InPace == PaceTyped /\ LastOpenSound /\ RowsFollow /\ IranPaced /\ ForeignPaced

PaceInv == Paced => InPace

\* What the loop will know of the last closing changes with the schedule only.
LEMMA RecalledKept ==
  ASSUME UNCHANGED <<sched, weekly, lastOpen, case>> PROVE Recalled' <=> Recalled
BY DEF Recalled, SeenOpen

\* In an open tick the last open tick is this one.
LEMMA OpenNow ==
  ASSUME Typed, LastOpenSound, NEW s \in Servers, IsOpen(s)
  PROVE  lastOpen[s] = now
<1>1. lastOpen[s] \in Nat /\ lastOpen[s] <= now /\ now \in Time /\ now \in Nat
  BY RowTimes DEF LastOpenSound, Typed
<1>2. ~(lastOpen[s] < now)
  BY <1>1 DEF LastOpenSound, IsOpen
<1> QED
  BY <1>1, <1>2

\* What is last open and what is on sale, when the clock and the schedule stand still
\* and only an open market gets new offers.
LEMMA SoundKept ==
  ASSUME Typed, LastOpenSound, UNCHANGED <<now, sched, lastOpen>>,
         \A s \in Servers : OnSale(s)' => OnSale(s) \/ IsOpen(s),
         \A o \in Offers : phase'[o] = "fenced" => IsOpen(Home(o))
  PROVE  LastOpenSound'
<1>1. \A s \in Servers : IsOpen(s) => lastOpen[s] \in sched[s]
  BY OpenNow DEF IsOpen
<1> QED
  BY <1>1 DEF LastOpenSound, IsOpen

\* Iran, when neither its row nor its pass changes.
LEMMA IranKept ==
  ASSUME IranPaced, UNCHANGED <<now, sched, lastOpen, row, pass>>,
         OnSale("iran")' => OnSale("iran") \/ IsOpen("iran"),
         "iran" \in ran' <=> "iran" \in ran
  PROVE  IranPaced'
BY DEF IranPaced, IsOpen

\* The foreign server, when neither its copy nor its tasks change.
LEMMA ForeignKept ==
  ASSUME ForeignPaced, UNCHANGED <<now, sched, weekly, lastOpen, copy, task, case>>,
         OnSale("foreign")' => OnSale("foreign") \/ IsOpen("foreign"),
         "foreign" \in ran' <=> "foreign" \in ran
  PROVE  ForeignPaced'
BY RecalledKept DEF ForeignPaced, ReceiverCloses, IsOpen

\* Admission of an offer.
LEMMA PacedAdmission ==
  ASSUME Typed, InPace, UNCHANGED case, NEW o \in Offers, Fence(o) \/ Refuse(o) \/ Commit(o)
  PROVE  InPace'
<1>1. PaceTyped /\ LastOpenSound /\ RowsFollow /\ IranPaced /\ ForeignPaced
  BY DEF InPace
<1>2. UNCHANGED <<now, sched, weekly, lastOpen, row, wire, copy, pass, task, ran, edits>>
  BY DEF Fence, Refuse, Commit, clocks
<1>3. PICK p \in {"fenced", "active", "refused"} : phase' = [phase EXCEPT ![o] = p]
  BY DEF Fence, Refuse, Commit
<1>4. p # "refused" => IsOpen(Home(o))
  BY <1>1, <1>3 DEF Fence, Refuse, Commit, PaceTyped, LastOpenSound
<1>5. PaceTyped'
  BY <1>1, <1>2, <1>3 DEF PaceTyped
<1>6. \A s \in Servers : OnSale(s)' => OnSale(s) \/ IsOpen(s)
  BY <1>1, <1>3, <1>4 DEF OnSale, PaceTyped
<1>7. \A q \in Offers : phase'[q] = "fenced" => IsOpen(Home(q))
  BY <1>1, <1>3, <1>4 DEF PaceTyped, LastOpenSound
<1>8. LastOpenSound'
  BY <1>1, <1>2, <1>6, <1>7, SoundKept
<1>9. IranPaced' /\ ForeignPaced'
  BY <1>1, <1>2, <1>6, IranKept, ForeignKept DEF Servers
<1> QED
  BY <1>1, <1>2, <1>5, <1>8, <1>9 DEF InPace, RowsFollow

\* A close at s ends every sale of s and touches no other.
LEMMA CloseEffect ==
  ASSUME PaceTyped, NEW s \in Servers, ExpireLocal(s)
  PROVE  /\ ~OnSale(s)'
         /\ \A q \in Servers : OnSale(q)' => OnSale(q)
         /\ \A o \in Offers : phase'[o] = "fenced" => phase[o] = "fenced"
         /\ phase' \in [Offers -> {"new", "fenced", "active", "expired", "refused"}]
BY DEF PaceTyped, ExpireLocal, OnSale

\* Iran's loop evaluates.
LEMMA PacedEvaluate ==
  ASSUME Typed, InPace, UNCHANGED case, Evaluate
  PROVE  InPace'
<1>1. PaceTyped /\ LastOpenSound /\ RowsFollow /\ IranPaced /\ ForeignPaced
  BY DEF InPace
<1>2. /\ UNCHANGED <<now, sched, weekly, lastOpen, row, wire, copy, phase, task, ran, edits>>
      /\ "iran" \notin ran /\ pass' = [pc |-> "apply", open |-> IsOpen("iran")]
  BY DEF Evaluate, clocks
<1>3. pass'.pc = "apply" /\ (pass'.open <=> IsOpen("iran"))
  BY <1>2
<1>4. PaceTyped'
  BY <1>1, <1>2, <1>3 DEF PaceTyped
<1>5. OnSale("iran")' = OnSale("iran") /\ OnSale("foreign")' = OnSale("foreign")
  BY <1>2 DEF OnSale
<1>6. IranPaced'
  BY <1>1, <1>2, <1>3, <1>5 DEF IranPaced, IsOpen
<1>7. LastOpenSound' /\ ForeignPaced'
  BY <1>1, <1>2, <1>5, ForeignKept DEF LastOpenSound, OnSale, IsOpen
<1> QED
  BY <1>1, <1>2, <1>4, <1>6, <1>7 DEF InPace, RowsFollow

\* Iran's loop applies: in a closed tick it finds the row open or nothing on sale.
LEMMA PacedTransition ==
  ASSUME Typed, Paced, InPace, UNCHANGED case, ApplyTransition
  PROVE  InPace'
<1>1. PaceTyped /\ LastOpenSound /\ RowsFollow /\ IranPaced /\ ForeignPaced
  BY DEF InPace
<1>2. /\ UNCHANGED <<now, sched, weekly, lastOpen, copy, task, edits>>
      /\ pass.pc = "apply" /\ pass' = [pass EXCEPT !.pc = "idle"]
      /\ ran' = ran \cup {"iran"}
  BY DEF ApplyTransition, Ran, Paced
<1>3. pass'.pc = "idle"
  BY <1>2
<1>4. (pass.open <=> IsOpen("iran")) /\ pass.open \in BOOLEAN
  BY <1>1, <1>2 DEF IranPaced, Typed
<1>5. /\ \A q \in Servers : OnSale(q)' => OnSale(q)
      /\ \A o \in Offers : phase'[o] = "fenced" => phase[o] = "fenced"
      /\ phase' \in [Offers -> {"new", "fenced", "active", "expired", "refused"}]
  <2>1. CASE phase' = phase
    BY <1>1, <2>1 DEF PaceTyped, OnSale
  <2>2. CASE ExpireLocal("iran")
    BY <1>1, <2>2, CloseEffect DEF Servers
  <2> QED
    BY <2>1, <2>2 DEF ApplyTransition
<1>6. PaceTyped'
  BY <1>1, <1>2, <1>3, <1>5 DEF PaceTyped
<1>7. LastOpenSound'
  BY <1>1, <1>2, <1>5, SoundKept DEF LastOpenSound
<1>8. ForeignPaced'
  BY <1>1, <1>2, <1>5, ForeignKept DEF Servers
<1>9. /\ row' # NoRow /\ (row'.open <=> IsOpen("iran"))
      /\ wire' = wire \/ (wire' = wire \cup {row'} /\ row' = [open |-> pass.open, at |-> now])
  <2>1. CASE row # NoRow /\ row.open = pass.open /\ row' = row /\ wire' = wire
    BY <1>4, <2>1
  <2>2. CASE row' = [open |-> pass.open, at |-> now] /\ wire' = wire \cup {row'}
    <3>1. row' \in Rows /\ row'.open = pass.open
      BY <1>4, <2>2 DEF Rows, Typed
    <3> QED
      BY <1>4, <2>2, <3>1, RowTimes
  <2> QED
    BY <2>1, <2>2 DEF ApplyTransition
<1>10. RowsFollow'
  <2>1. ASSUME row' = [open |-> pass.open, at |-> now]
        PROVE  row'.at = now /\ (row'.open <=> now \in sched["iran"])
    BY <1>4, <2>1 DEF IsOpen
  <2>2. now <= now
    BY RowTimes DEF Typed
  <2>3. SUFFICES ASSUME NEW m \in wire' PROVE m.at <= now /\ (m.open <=> m.at \in sched["iran"])
    BY <1>2 DEF RowsFollow
  <2>4. CASE m \in wire
    BY <1>1, <2>4 DEF RowsFollow
  <2>5. CASE m \notin wire
    BY <1>9, <2>1, <2>2, <2>3, <2>5
  <2> QED
    BY <2>4, <2>5
<1>11. OnSale("iran")' => IsOpen("iran")
  <2> SUFFICES ASSUME OnSale("iran")', ~IsOpen("iran") PROVE FALSE
    OBVIOUS
  <2>1. OnSale("iran") /\ ~pass.open
    BY <1>4, <1>5 DEF Servers
  <2>2. row # NoRow /\ row.open
    BY <1>1, <2>1 DEF IranPaced
  <2>3. ~(row.open = pass.open)
    BY <2>1, <2>2
  <2>4. ExpireLocal("iran")
    BY <2>1, <2>2, <2>3 DEF ApplyTransition
  <2> QED
    BY <1>1, <2>4, CloseEffect DEF Servers
<1>12. IranPaced'
  BY <1>2, <1>3, <1>9, <1>11 DEF IranPaced, IsOpen
<1> QED
  BY <1>6, <1>7, <1>8, <1>10, <1>12 DEF InPace

\* Steps of the foreign server leave Iran alone.
LEMMA IranAlone ==
  ASSUME Typed, InPace,
         UNCHANGED <<now, sched, weekly, lastOpen, row, wire, pass, edits>>,
         "iran" \in ran' <=> "iran" \in ran,
         \A q \in Servers : OnSale(q)' => OnSale(q),
         \A o \in Offers : phase'[o] = "fenced" => phase[o] = "fenced"
  PROVE  LastOpenSound' /\ RowsFollow' /\ IranPaced'
<1>1. LastOpenSound'
  BY SoundKept DEF InPace, LastOpenSound
<1>2. IranPaced'
  BY IranKept DEF InPace, Servers
<1> QED
  BY <1>1, <1>2 DEF InPace, RowsFollow

\* A task becomes another one; the other stays.
LEMMA NewTask ==
  ASSUME TaskTable(task), NEW r \in {"loop", "receiver"}, NEW e,
         DOMAIN e = {"pc", "st", "again"}, task' = [task EXCEPT ![r] = e]
  PROVE  /\ TaskTable(task') /\ task'[r] = e
         /\ \A q \in {"loop", "receiver"} : q # r => task'[q] = task[q]
BY DEF TaskTable

\* A task moves on; the other stays.
LEMMA MovedTask ==
  ASSUME TaskTable(task), NEW r \in {"loop", "receiver"}, NEW c,
         task' = [task EXCEPT ![r].pc = c]
  PROVE  /\ TaskTable(task') /\ task'[r].pc = c
         /\ task'[r].st = task[r].st /\ task'[r].again = task[r].again
         /\ \A q \in {"loop", "receiver"} : q # r => task'[q] = task[q]
<1>1. PICK e : e = [task[r] EXCEPT !.pc = c]
  OBVIOUS
<1>2. /\ DOMAIN e = {"pc", "st", "again"} /\ e.pc = c
      /\ e.st = task[r].st /\ e.again = task[r].again
  BY <1>1 DEF TaskTable
<1>3. task' = [task EXCEPT ![r] = e]
  BY <1>1
<1> QED
  BY <1>2, <1>3, NewTask

\* A row arrives: if it is of this closing, the receiver is going to close.
LEMMA PacedReceive ==
  ASSUME Typed, InPace, UNCHANGED case, NEW m \in wire, Receive(m)
  PROVE  InPace'
<1>1. PaceTyped /\ LastOpenSound /\ RowsFollow /\ IranPaced /\ ForeignPaced
  BY DEF InPace
<1>2. /\ UNCHANGED <<now, sched, weekly, lastOpen, row, wire, phase, pass, ran, edits>>
      /\ copy' = m /\ task["receiver"].pc = "idle"
      /\ task' = [task EXCEPT !["receiver"].pc = "begin"]
  BY DEF Receive, clocks
<1>3. /\ TaskTable(task') /\ task'["receiver"].pc = "begin"
      /\ task'["loop"] = task["loop"]
  BY <1>1, <1>2, MovedTask DEF PaceTyped
<1>4. PaceTyped'
  BY <1>1, <1>2, <1>3 DEF PaceTyped
<1>5. OnSale("foreign")' = OnSale("foreign") /\ OnSale("iran")' = OnSale("iran")
  BY <1>2 DEF OnSale
<1>6. LastOpenSound' /\ RowsFollow' /\ IranPaced'
  BY <1>2, <1>5, IranAlone DEF Servers
<1>7. ~ReceiverCloses
  BY <1>2 DEF ReceiverCloses
<1>8. m # NoRow /\ m.at <= now /\ (m.open <=> m.at \in sched["iran"]) /\ m.at \in Time
  BY <1>1, RowTimes DEF RowsFollow, Typed, Rows
<1>9. m.at > lastOpen["foreign"] => ReceiverCloses'
  <2> SUFFICES ASSUME m.at > lastOpen["foreign"] PROVE ReceiverCloses'
    OBVIOUS
  <2>1. lastOpen["foreign"] \in Nat /\ m.at \in Nat
    BY <1>1, <1>8, RowTimes DEF LastOpenSound, Servers
  <2>2. m.at \notin sched["foreign"]
    BY <1>1, <1>8, <2>1 DEF LastOpenSound, Servers
  <2>3. ~m.open
    BY <1>1, <1>8, <2>2 DEF PaceTyped
  <2> QED
    BY <1>2, <1>3, <1>8, <2>3 DEF ReceiverCloses
<1>10. ForeignPaced'
  <2>1. OnSale("foreign") /\ ~IsOpen("foreign") =>
          /\ Recalled => now <= lastOpen["foreign"] + 1 + case.grace
          /\ ~(Recalled /\ now = lastOpen["foreign"] + 1 + case.grace /\ "foreign" \in ran)
    BY <1>1, <1>7 DEF ForeignPaced
  <2> QED
    BY <1>1, <1>2, <1>3, <1>5, <1>9, <2>1, RecalledKept DEF ForeignPaced, IsOpen
<1> QED
  BY <1>4, <1>6, <1>10 DEF InPace

\* A task reads the copy.
LEMMA PacedRead ==
  ASSUME Typed, InPace, UNCHANGED case, NEW r \in {"loop", "receiver"}, ReadState(r)
  PROVE  InPace'
<1>1. PaceTyped /\ LastOpenSound /\ RowsFollow /\ IranPaced /\ ForeignPaced
  BY DEF InPace
<1>2. UNCHANGED <<now, sched, weekly, lastOpen, row, wire, phase, pass, ran, edits, copy>>
  BY DEF ReadState, clocks
<1>3. PICK e : e = [pc |-> IF copy = NoRow THEN "autonomy" ELSE "settle",
                    st |-> copy, again |-> r = "loop"]
  OBVIOUS
<1>4. /\ e.pc = IF copy = NoRow THEN "autonomy" ELSE "settle"
      /\ e.st = copy /\ (e.again <=> r = "loop") /\ DOMAIN e = {"pc", "st", "again"}
  BY <1>3
<1>5. /\ TaskTable(task') /\ task'[r] = e
      /\ \A q \in {"loop", "receiver"} : q # r => task'[q] = task[q]
  <2>1. task' = [task EXCEPT ![r] = e]
    BY <1>3 DEF ReadState
  <2> QED
    BY <1>1, <1>4, <2>1, NewTask DEF PaceTyped
<1>6. PaceTyped'
  BY <1>1, <1>2, <1>4, <1>5 DEF PaceTyped
<1>7. OnSale("foreign")' = OnSale("foreign") /\ OnSale("iran")' = OnSale("iran")
  BY <1>2 DEF OnSale
<1>8. LastOpenSound' /\ RowsFollow' /\ IranPaced'
  BY <1>2, <1>7, IranAlone DEF Servers
<1>9. ReceiverCloses => ReceiverCloses'
  <2>1. CASE r = "loop"
    BY <1>1, <1>2, <1>5, <2>1 DEF ReceiverCloses, PaceTyped
  <2>2. CASE r = "receiver"
    <3>1. task["receiver"].pc = "begin" /\ task'["receiver"] = e
      BY <1>1, <1>5, <2>2 DEF ReadState, PaceTyped
    <3> QED
      BY <1>4, <3>1 DEF ReceiverCloses
  <2> QED
    BY <2>1, <2>2
<1>10. /\ "foreign" \in ran' => task'["loop"].pc = "idle"
       /\ task'["loop"] = task["loop"] \/ task'["loop"].again
  <2>1. CASE r = "loop"
    BY <1>1, <1>2, <1>4, <1>5, <2>1 DEF ReadState, PaceTyped
  <2>2. CASE r = "receiver"
    BY <1>1, <1>2, <1>5, <2>2 DEF ForeignPaced, PaceTyped
  <2> QED
    BY <2>1, <2>2
<1>11. ForeignPaced'
  BY <1>1, <1>2, <1>7, <1>9, <1>10, RecalledKept DEF ForeignPaced, IsOpen
<1> QED
  BY <1>6, <1>8, <1>11 DEF InPace

\* A task settles: one that was going to close has closed.
LEMMA PacedSettle ==
  ASSUME Typed, InPace, UNCHANGED case, NEW r \in {"loop", "receiver"}, Settle(r)
  PROVE  InPace'
<1>1. PaceTyped /\ LastOpenSound /\ RowsFollow /\ IranPaced /\ ForeignPaced
  BY DEF InPace
<1>2. /\ UNCHANGED <<now, sched, weekly, lastOpen, row, wire, pass, ran, edits, copy>>
      /\ task[r].pc = "settle" /\ task' = [task EXCEPT ![r].pc = "notice"]
  BY DEF Settle, clocks
<1>3. /\ TaskTable(task') /\ task'[r].pc = "notice"
      /\ task'[r].st = task[r].st /\ task'[r].again = task[r].again
      /\ \A q \in {"loop", "receiver"} : q # r => task'[q] = task[q]
  BY <1>1, <1>2, MovedTask DEF PaceTyped
<1>4. /\ \A q \in Servers : OnSale(q)' => OnSale(q)
      /\ \A o \in Offers : phase'[o] = "fenced" => phase[o] = "fenced"
      /\ phase' \in [Offers -> {"new", "fenced", "active", "expired", "refused"}]
      /\ ~task[r].st.open => ~OnSale("foreign")'
  <2>1. CASE task[r].st.open
    BY <1>1, <2>1 DEF Settle, PaceTyped, OnSale
  <2>2. CASE ~task[r].st.open
    BY <1>1, <2>2, CloseEffect DEF Settle, Servers
  <2> QED
    BY <2>1, <2>2
<1>5. PaceTyped'
  BY <1>1, <1>2, <1>3, <1>4 DEF PaceTyped
<1>6. LastOpenSound' /\ RowsFollow' /\ IranPaced'
  BY <1>2, <1>4, IranAlone
<1>7. OnSale("foreign")' /\ ReceiverCloses => ReceiverCloses'
  BY <1>2, <1>3, <1>4 DEF ReceiverCloses
<1>8. OnSale("foreign")' => OnSale("foreign")
  BY <1>4 DEF Servers
<1>9. "foreign" \in ran' => task'["loop"].pc = "idle"
  BY <1>1, <1>2, <1>3 DEF ForeignPaced
<1>10. task'["loop"].pc \in {"settle", "notice"} /\ ~task'["loop"].again /\ ~IsOpen("foreign") =>
         IF task'["loop"].pc = "settle" THEN ~task'["loop"].st.open ELSE ~OnSale("foreign")'
  <2>1. CASE r = "receiver"
    BY <1>1, <1>3, <1>8, <2>1 DEF ForeignPaced
  <2>2. CASE r = "loop"
    BY <1>1, <1>2, <1>3, <1>4, <2>2 DEF ForeignPaced
  <2> QED
    BY <2>1, <2>2
<1>11. ForeignPaced'
  BY <1>1, <1>2, <1>7, <1>8, <1>9, <1>10, RecalledKept DEF ForeignPaced, IsOpen
<1> QED
  BY <1>5, <1>6, <1>11 DEF InPace

\* A task is done with the receipt: a pass that ends here has closed.
LEMMA PacedNotice ==
  ASSUME Typed, Paced, InPace, UNCHANGED case, NEW r \in {"loop", "receiver"}, Notice(r)
  PROVE  InPace'
<1>1. PaceTyped /\ LastOpenSound /\ RowsFollow /\ IranPaced /\ ForeignPaced
  BY DEF InPace
<1>2. /\ UNCHANGED <<now, sched, weekly, lastOpen, row, wire, phase, pass, edits, copy>>
      /\ task[r].pc = "notice"
  BY DEF Notice
<1>3. OnSale("foreign")' = OnSale("foreign") /\ OnSale("iran")' = OnSale("iran")
  BY <1>2 DEF OnSale
<1>4. /\ TaskTable(task') /\ task'[r].pc \in {"autonomy", "idle"}
      /\ \A q \in {"loop", "receiver"} : q # r => task'[q] = task[q]
      /\ "foreign" \in ran' => "foreign" \in ran \/ (r = "loop" /\ ~task[r].again)
      /\ "foreign" \in ran' /\ r = "loop" => task'[r].pc = "idle"
      /\ "iran" \in ran' <=> "iran" \in ran
  <2>1. CASE task[r].again
    <3>1. task' = [task EXCEPT ![r].pc = "autonomy"] /\ ran' = ran
      BY <2>1 DEF Notice
    <3>2. r = "loop" => "foreign" \notin ran
      BY <1>1, <1>2 DEF ForeignPaced
    <3> QED
      BY <1>1, <3>1, <3>2, MovedTask DEF PaceTyped
  <2>2. CASE ~task[r].again
    <3>1. /\ task' = [task EXCEPT ![r] = Idle]
          /\ ran' = IF r = "loop" THEN ran \cup {"foreign"} ELSE ran
      BY <2>2 DEF Notice, Ran, Paced
    <3>2. DOMAIN Idle = {"pc", "st", "again"} /\ Idle.pc = "idle"
      BY DEF Idle
    <3> QED
      BY <1>1, <2>2, <3>1, <3>2, NewTask DEF PaceTyped
  <2> QED
    BY <2>1, <2>2
<1>5. PaceTyped'
  BY <1>1, <1>2, <1>4 DEF PaceTyped
<1>6. LastOpenSound' /\ RowsFollow' /\ IranPaced'
  BY <1>2, <1>3, <1>4, IranAlone DEF Servers
<1>7. ReceiverCloses => ReceiverCloses'
  BY <1>2, <1>4 DEF ReceiverCloses
<1>8. "foreign" \in ran' => task'["loop"].pc = "idle"
  BY <1>1, <1>2, <1>4 DEF ForeignPaced
<1>9. task'["loop"].pc \in {"settle", "notice"} => task'["loop"] = task["loop"]
  BY <1>4
<1>10. "foreign" \in ran' /\ OnSale("foreign") /\ ~IsOpen("foreign") => "foreign" \in ran
  BY <1>1, <1>2, <1>4 DEF ForeignPaced
<1>11. ForeignPaced'
  BY <1>1, <1>2, <1>3, <1>7, <1>8, <1>9, <1>10, RecalledKept DEF ForeignPaced, IsOpen
<1> QED
  BY <1>5, <1>6, <1>11 DEF InPace

\* In a closed tick after an open one, the transition is the tick after the last open one,
\* if the ticks since are seen as they were.
LEMMA ClosedSince ==
  ASSUME Typed, LastOpenSound, NEW s \in Servers, ~IsOpen(s), lastOpen[s] \in sched[s],
         \A c \in lastOpen[s]..now : SeenOpen(s, now, c) <=> c \in sched[s]
  PROVE  TransitionAt(s) = lastOpen[s] + 1 /\ lastOpen[s] + 1 \in Time
<1>1. /\ now \in Nat /\ lastOpen[s] \in Nat /\ lastOpen[s] <= now
      /\ \A t \in Nat : t <= now => t \in Time
      /\ \A t \in Time : lastOpen[s] < t /\ t <= now => t \notin sched[s]
  BY MarketAssumption DEF Typed, LastOpenSound, Time
<1>2. lastOpen[s] # now
  BY DEF IsOpen
<1> DEFINE C == {c \in 1..now : SeenOpen(s, now, c) = IsOpen(s)
                               /\ SeenOpen(s, now, c - 1) # IsOpen(s)}
<1>3. /\ C \subseteq 1..now
      /\ \A c \in 1..now : c \in C <=> ~SeenOpen(s, now, c) /\ SeenOpen(s, now, c - 1)
  <2>1. \A c : /\ (SeenOpen(s, now, c) = IsOpen(s)) <=> ~SeenOpen(s, now, c)
               /\ (SeenOpen(s, now, c - 1) # IsOpen(s)) <=> SeenOpen(s, now, c - 1)
    BY DEF IsOpen, SeenOpen
  <2> QED
    BY <2>1, Zenon
<1>7. C # {} => TransitionAt(s) = CHOOSE c \in C : \A d \in C : d <= c
  BY DEF TransitionAt
<1> HIDE DEF C
<1>4. lastOpen[s] + 1 \in C
  <2>1. PICK c : c = lastOpen[s] + 1
    OBVIOUS
  <2>2. c \in 1..now /\ c - 1 = lastOpen[s]
    BY <1>1, <1>2, <2>1
  <2>3. ~SeenOpen(s, now, c)
    <3>1. c \notin sched[s] /\ c \in lastOpen[s]..now
      BY <1>1, <2>1, <2>2
    <3> QED
      BY <3>1
  <2>4. SeenOpen(s, now, c - 1)
    <3>1. c - 1 \in lastOpen[s]..now /\ c - 1 \in sched[s]
      BY <1>1, <2>2
    <3> QED
      BY <3>1
  <2> QED
    BY <1>3, <2>1, <2>2, <2>3, <2>4
<1>5. \A d \in C : d <= lastOpen[s] + 1
  <2> SUFFICES ASSUME NEW d \in C, lastOpen[s] < d - 1 PROVE FALSE
    <3>1. \A d \in C : d \in Nat
      BY <1>1, <1>3
    <3> QED
      BY <1>1, <3>1
  <2>1. d \in 1..now /\ SeenOpen(s, now, d - 1)
    BY <1>3
  <2>2. d - 1 \in Nat /\ d - 1 <= now /\ d - 1 \in lastOpen[s]..now
    BY <1>1, <2>1
  <2>3. d - 1 \in sched[s]
    BY <2>1, <2>2
  <2> QED
    BY <1>1, <2>2, <2>3
<1>6. \A c \in C : (\A d \in C : d <= c) <=> c = lastOpen[s] + 1
  BY <1>1, <1>3, <1>4, <1>5
<1> QED
  BY <1>1, <1>2, <1>4, <1>6, <1>7

\* The foreign loop on its own: after the grace it closes, or the receiver does.
LEMMA PacedAutonomy ==
  ASSUME Typed, Paced, InPace, UNCHANGED case, Autonomy
  PROVE  InPace'
<1>1. PaceTyped /\ LastOpenSound /\ RowsFollow /\ IranPaced /\ ForeignPaced
  BY DEF InPace
<1>2. /\ UNCHANGED <<now, sched, weekly, lastOpen, row, wire, phase, pass, edits, copy>>
      /\ task["loop"].pc = "autonomy"
  BY DEF Autonomy
<1>3. OnSale("foreign")' = OnSale("foreign") /\ OnSale("iran")' = OnSale("iran")
  BY <1>2 DEF OnSale
<1>4. PICK at : at = TransitionAt("foreign")
  OBVIOUS
<1>5. PICK st : st = [open |-> IsOpen("foreign"), at |-> at]
  OBVIOUS
<1>6. PICK e : e = [pc |-> "settle", again |-> FALSE, st |-> st]
  OBVIOUS
<1>7. /\ DOMAIN e = {"pc", "st", "again"} /\ e.pc = "settle" /\ e.st = st
      /\ (st.open <=> IsOpen("foreign"))
  BY <1>5, <1>6
<1>8. DOMAIN Idle = {"pc", "st", "again"} /\ Idle.pc = "idle"
  BY DEF Idle
<1>9. \/ /\ at = None \/ now < at + case.grace \/ Answered(IsOpen("foreign"), at)
         /\ task' = [task EXCEPT !["loop"] = Idle] /\ ran' = ran \cup {"foreign"}
      \/ task' = [task EXCEPT !["loop"] = e] /\ ran' = ran
  BY <1>4, <1>5, <1>6 DEF Autonomy, Ran, Paced
<1>10. /\ TaskTable(task') /\ task'["receiver"] = task["receiver"]
       /\ task'["loop"] \in {e, Idle}
       /\ "foreign" \in ran' => task'["loop"] = Idle
       /\ "iran" \in ran' <=> "iran" \in ran
  <2>1. "foreign" \notin ran
    BY <1>1, <1>2 DEF ForeignPaced
  <2> QED
    BY <1>1, <1>7, <1>8, <1>9, <2>1, NewTask DEF PaceTyped
<1>11. PaceTyped'
  BY <1>1, <1>2, <1>10 DEF PaceTyped
<1>12. LastOpenSound' /\ RowsFollow' /\ IranPaced'
  BY <1>2, <1>3, <1>10, IranAlone DEF Servers
<1>13. ReceiverCloses' <=> ReceiverCloses
  BY <1>2, <1>10 DEF ReceiverCloses
<1>14. ASSUME "foreign" \in ran', OnSale("foreign"), ~IsOpen("foreign"),
              now = lastOpen["foreign"] + 1 + case.grace, Recalled
       PROVE  ReceiverCloses
  <2>1. lastOpen["foreign"] \in sched["foreign"]
    BY <1>1, <1>14 DEF LastOpenSound, Servers
  <2>2. at = lastOpen["foreign"] + 1 /\ at \in Time
    <3>1. \A c \in lastOpen["foreign"]..now : SeenOpen("foreign", now, c) <=> c \in sched["foreign"]
      BY <1>14 DEF Recalled
    <3> QED
      BY <1>1, <1>4, <1>14, <2>1, <3>1, ClosedSince DEF Servers
  <2>3. at # None /\ at \in Nat /\ lastOpen["foreign"] \in Nat
    BY <1>1, <2>2, MarketAssumption, RowTimes DEF LastOpenSound, Servers
  <2>4. case.grace \in Nat /\ now \in Nat
    BY MarketAssumption, RowTimes DEF Typed, CaseType
  <2>5. "foreign" \notin ran
    BY <1>1, <1>2 DEF ForeignPaced
  <2>6. Answered(IsOpen("foreign"), at)
    BY <1>9, <1>14, <2>2, <2>3, <2>4, <2>5
  <2>7. copy # NoRow /\ copy.at \in Nat /\ copy.at >= at
    <3>1. copy # NoRow /\ (copy.at >= at \/ copy.at > at)
      BY <2>6 DEF Answered
    <3>2. copy.at \in Nat
      BY <3>1, RowTimes DEF Typed
    <3> QED
      BY <2>3, <3>1, <3>2
  <2>8. copy.at > lastOpen["foreign"]
    BY <2>2, <2>3, <2>7
  <2> QED
    BY <1>1, <1>14, <2>7, <2>8 DEF ForeignPaced
<1>15. /\ "foreign" \in ran' => task'["loop"].pc = "idle"
       /\ task'["loop"].pc \in {"settle", "notice"} /\ ~IsOpen("foreign") =>
            task'["loop"].pc = "settle" /\ ~task'["loop"].st.open
  BY <1>7, <1>8, <1>10
<1>16. ForeignPaced'
  BY <1>1, <1>2, <1>3, <1>13, <1>14, <1>15, RecalledKept DEF ForeignPaced, IsOpen
<1> QED
  BY <1>11, <1>12, <1>16 DEF InPace

\* A tick passes: both loops made their pass and the receiver is idle.
LEMMA PacedTick ==
  ASSUME Typed, Paced, InPace, UNCHANGED case, Tick
  PROVE  InPace'
<1>1. PaceTyped /\ LastOpenSound /\ RowsFollow /\ IranPaced /\ ForeignPaced
  BY DEF InPace
<1>2. /\ UNCHANGED <<sched, weekly, row, wire, phase, pass, task, edits, copy>>
      /\ ran = Servers /\ ran' = {} /\ task["receiver"] = Idle /\ now' = now + 1
      /\ \A o \in Offers : phase[o] # "fenced"
      /\ lastOpen' = [s \in Servers |-> IF now' \in sched[s] THEN now' ELSE lastOpen[s]]
  BY DEF Tick, Paced
<1>3. /\ now \in Nat /\ case.grace \in Nat
      /\ \A s \in Servers : lastOpen[s] \in Nat /\ lastOpen[s] <= now
  BY <1>1, MarketAssumption, RowTimes DEF Typed, CaseType, LastOpenSound
<1>4. \A s \in Servers : OnSale(s)' = OnSale(s)
  BY <1>2 DEF OnSale
<1>5. PaceTyped'
  BY <1>1, <1>2 DEF PaceTyped
<1>6. RowsFollow'
  <2>1. \A m \in wire : m.at \in Nat
    BY RowTimes DEF Typed
  <2> QED
    BY <1>1, <1>2, <1>3, <2>1 DEF RowsFollow
<1>7. LastOpenSound'
  <2>1. lastOpen' \in [Servers -> Nat]
    BY <1>1, <1>2, <1>3
  <2>2. \A o \in Offers : phase'[o] = "fenced" => IsOpen(Home(o))'
    BY <1>2
  <2>3. ASSUME NEW s \in Servers
        PROVE  /\ lastOpen'[s] <= now'
               /\ \A t \in Time : lastOpen'[s] < t /\ t <= now' => t \notin sched[s]
               /\ OnSale(s) => lastOpen'[s] \in sched[s]
    <3>1. CASE now' \in sched[s]
      BY <1>2, <1>3, <3>1, RowTimes
    <3>2. CASE now' \notin sched[s]
      <4>1. lastOpen'[s] = lastOpen[s]
        BY <1>2, <3>2
      <4>2. \A t \in Time : t <= now' => t = now' \/ t <= now
        BY <1>2, <1>3, RowTimes
      <4> QED
        BY <1>1, <1>2, <1>3, <3>2, <4>1, <4>2 DEF LastOpenSound
    <3> QED
      BY <3>1, <3>2
  <2> QED
    BY <1>2, <1>4, <2>1, <2>2, <2>3 DEF LastOpenSound
<1>8. ASSUME NEW s \in Servers, now' \notin sched[s]
      PROVE  lastOpen'[s] = lastOpen[s] /\ (IsOpen(s) => lastOpen[s] = now)
  BY <1>1, <1>2, <1>8, OpenNow
<1>9. IranPaced'
  <2>1. "iran" \notin ran' /\ pass'.pc # "apply"
    BY <1>1, <1>2 DEF IranPaced, Servers
  <2>2. ASSUME OnSale("iran"), now' \notin sched["iran"]
        PROVE  row # NoRow /\ row.open /\ now' = lastOpen'["iran"] + 1
    <3>1. "iran" \in ran
      BY <1>2 DEF Servers
    <3>2. IsOpen("iran")
      BY <1>1, <2>2, <3>1 DEF IranPaced
    <3>3. row # NoRow /\ row.open
      BY <1>1, <3>1, <3>2 DEF IranPaced
    <3>4. lastOpen'["iran"] = now
      BY <1>8, <2>2, <3>2 DEF Servers
    <3> QED
      BY <1>2, <3>3, <3>4
  <2> QED
    BY <1>2, <1>4, <2>1, <2>2 DEF IranPaced, IsOpen, Servers
<1>10. ForeignPaced'
  <2>1. "foreign" \notin ran' /\ "foreign" \in ran /\ task'["loop"].pc = "idle"
    BY <1>1, <1>2 DEF ForeignPaced, Servers
  <2>2. ~ReceiverCloses
    BY <1>2 DEF ReceiverCloses, Idle
  <2>3. copy # NoRow => copy.at \in Nat /\ copy.at <= now
    BY <1>1, RowTimes DEF RowsFollow, Typed
  <2>4. ASSUME OnSale("foreign"), now' \notin sched["foreign"]
        PROVE  /\ Recalled' => now' <= lastOpen'["foreign"] + 1 + case.grace
               /\ ~(copy # NoRow /\ copy.at > lastOpen'["foreign"])
    <3>1. CASE IsOpen("foreign")
      <4>1. lastOpen'["foreign"] = now
        BY <1>8, <2>4, <3>1 DEF Servers
      <4> QED
        BY <1>2, <1>3, <2>3, <4>1
    <3>2. CASE ~IsOpen("foreign")
      <4>1. lastOpen'["foreign"] = lastOpen["foreign"] /\ lastOpen["foreign"] \in Nat
        BY <1>3, <1>8, <2>4 DEF Servers
      <4>2. /\ Recalled => now <= lastOpen["foreign"] + 1 + case.grace
            /\ Recalled => now # lastOpen["foreign"] + 1 + case.grace
            /\ ~(copy # NoRow /\ copy.at > lastOpen["foreign"])
        BY <1>1, <2>1, <2>2, <2>4, <3>2 DEF ForeignPaced
      <4>3. Recalled' => Recalled
        BY <1>2, <4>1 DEF Recalled, SeenOpen
      <4> QED
        BY <1>2, <1>3, <4>1, <4>2, <4>3
    <3> QED
      BY <3>1, <3>2
  <2> QED
    BY <1>2, <1>4, <2>1, <2>4 DEF ForeignPaced, IsOpen, Servers
<1> QED
  BY <1>5, <1>6, <1>7, <1>9, <1>10 DEF InPace

\* Nothing is on sale at the start.
LEMMA PaceStart == Init => PaceInv
<1> SUFFICES ASSUME Init PROVE InPace
  BY DEF PaceInv
<1>1. PICK S, W :
               /\ sched = [s \in Servers |-> S] /\ weekly = [s \in Servers |-> W]
               /\ row \in {[open |-> 0 \in S, at |-> 0]} \cup {NoRow}
  BY DEF Init
<1>2. PaceTyped
  BY <1>1 DEF Init, PaceTyped, TaskTable, Idle, Servers
<1>3. ~OnSale("iran") /\ ~OnSale("foreign")
  BY DEF Init, OnSale
<1>4. LastOpenSound
  <2>1. \A t \in Time : t \in Nat
    BY RowTimes
  <2> QED
    BY <1>1, <1>3, <2>1 DEF Init, LastOpenSound, Servers
<1>5. RowsFollow
  <2> SUFFICES ASSUME NEW m \in wire
               PROVE  m.at <= now /\ (m.open <=> m.at \in sched["iran"])
    BY DEF RowsFollow
  <2>1. m = [open |-> 0 \in S, at |-> 0]
    BY <1>1 DEF Init
  <2>2. m.at = 0 /\ (m.open <=> 0 \in S)
    BY <2>1
  <2> QED
    BY <1>1, <2>2 DEF Init, Servers
<1>6. IranPaced /\ ForeignPaced
  BY <1>3 DEF Init, IranPaced, ForeignPaced, Idle
<1> QED
  BY <1>2, <1>4, <1>5, <1>6 DEF InPace

\* The invariant holds in every reachable state.
LEMMA PaceInvariant == Spec => []PaceInv
<1>1. MarketInv /\ PaceInv /\ [Next]_vars => PaceInv'
  <2> SUFFICES ASSUME MarketInv, PaceInv, [Next]_vars PROVE PaceInv'
    OBVIOUS
  <2>1. Typed /\ UNCHANGED case
    BY DEF MarketInv, Next, vars
  <2>2. Paced' <=> Paced
    BY <2>1 DEF Paced
  <2> SUFFICES ASSUME Paced PROVE InPace'
    BY <2>2 DEF PaceInv
  <2>3. InPace
    BY DEF PaceInv
  <2>4. CASE UNCHANGED vars \/ \E k \in Rows : Handoff(k) \/ Deliver(k)
    <3>1. UNCHANGED <<now, sched, weekly, row, wire, copy, phase, pass, task, ran, edits,
                     lastOpen, case>>
      BY <2>1, <2>4 DEF vars, Handoff, Deliver, clocks
    <3> QED
      BY <2>3, <3>1, RecalledKept
      DEF InPace, PaceTyped, LastOpenSound, RowsFollow, IranPaced, ForeignPaced, ReceiverCloses,
          OnSale, IsOpen
  <2>5. CASE \E r \in {"loop", "receiver"} : ReadState(r) \/ Settle(r) \/ Notice(r)
    BY <2>1, <2>3, <2>5, PacedRead, PacedSettle, PacedNotice
  <2>6. CASE (\E o \in Offers : Fence(o) \/ Refuse(o) \/ Commit(o)) \/ \E m \in wire : Receive(m)
    BY <2>1, <2>3, <2>6, PacedAdmission, PacedReceive
  <2>7. CASE Evaluate \/ ApplyTransition \/ Autonomy \/ Tick
    BY <2>1, <2>3, <2>7, PacedEvaluate, PacedTransition, PacedAutonomy, PacedTick
  <2>8. ~RollBack /\ \A r \in {"loop", "receiver"} : ~SettleRollBack(r)
    BY DEF Paced, RollBack, SettleRollBack
  <2>9. ~SyncSchedule /\ \A S, W : ~EditSchedule(S, W)
    BY <2>3 DEF Paced, InPace, PaceTyped, SyncSchedule, EditSchedule
  <2> QED
    BY <2>4, <2>5, <2>6, <2>7, <2>8, <2>9 DEF Next, Step
<1> QED
  BY <1>1, PaceStart, MarketInvariant, PTL DEF Spec

\* When the market has closed no offer stays active: on Iran after one pass of its
\* loop; on the foreign server as soon as Iran's row was dealt with, and without it
\* after the grace, however receiver and loop interleave, if the loop still sees the
\* day that closed with its override (market_transition_service.py, the foreign
\* autonomy and load_market_schedule_overrides_window); for loops that keep up, no
\* rolled-back close and a schedule nobody edits.
THEOREM CloseIsBounded == Spec => []BoundedClose
<1>1. MarketInv /\ PaceInv => BoundedClose
  <2> SUFFICES ASSUME Typed, InPace, NEW o \in Offers, phase[o] = "active",
                      IF Home(o) = "iran" THEN now > lastOpen["iran"] + 1
                      ELSE Told \/ (Recalled /\ now > lastOpen["foreign"] + 1 + case.grace)
               PROVE  FALSE
    BY DEF MarketInv, PaceInv, Paced, BoundedClose
  <2>1. Home(o) \in Servers /\ OnSale(Home(o))
    BY DEF Home, Servers, OnSale
  <2>2. now \in Nat /\ case.grace \in Nat /\ lastOpen[Home(o)] \in Nat
    BY <2>1, MarketAssumption, RowTimes DEF Typed, CaseType, InPace, LastOpenSound
  <2>3. IsOpen(Home(o)) => lastOpen[Home(o)] = now
    BY <2>1, OpenNow DEF InPace
  <2>4. CASE Home(o) = "iran"
    BY <2>1, <2>2, <2>3, <2>4 DEF InPace, IranPaced
  <2>5. CASE Home(o) = "foreign" /\ Told
    <3>1. copy # NoRow /\ copy.at > lastOpen["foreign"] /\ ~ReceiverCloses
      BY <2>5 DEF Told, ReceiverCloses
    <3>2. copy.at \in Nat /\ copy.at <= now
      BY <3>1, RowTimes DEF Typed, InPace, RowsFollow
    <3>3. ~IsOpen("foreign")
      BY <2>2, <2>3, <2>5, <3>1, <3>2
    <3> QED
      BY <2>1, <2>5, <3>1, <3>3 DEF InPace, ForeignPaced
  <2>6. CASE Home(o) = "foreign" /\ Recalled /\ now > lastOpen["foreign"] + 1 + case.grace
    BY <2>1, <2>2, <2>3, <2>6 DEF InPace, ForeignPaced
  <2> QED
    BY <2>1, <2>4, <2>5, <2>6 DEF Servers
<1> QED
  BY <1>1, MarketInvariant, PaceInvariant, PTL

-----------------------------------------------------------------------------
(* The schedule: when the market changes next, and when it changed last.   *)

\* Days of DayLength instants follow one another without gap or overlap.
LEMMA DayTimes ==
  ASSUME NEW a \in Int, NEW b \in Int, a <= b
  PROVE  a * DayLength \in Int /\ a * DayLength <= b * DayLength
BY ScheduleAssumption

\* A date and a time of day name one instant.
LEMMA InstantOf ==
  ASSUME NEW d \in Int, NEW h \in Hours
  PROVE  /\ d * DayLength + h \in Int
         /\ Today(d * DayLength + h) = d
         /\ (d * DayLength + h) % DayLength = h
BY ScheduleAssumption DEF Today, Hours

\* Every instant has a date and a time of day.
LEMMA DateOf ==
  ASSUME NEW t \in Int
  PROVE  /\ Today(t) \in Int /\ t % DayLength \in Hours
         /\ t = Today(t) * DayLength + (t % DayLength)
BY ScheduleAssumption DEF Today, Hours

\* The clock of the days never runs backwards.
LEMMA DatesInOrder ==
  ASSUME NEW t \in Int, NEW u \in Int, t <= u
  PROVE  Today(t) <= Today(u)
BY ScheduleAssumption DEF Today


\* Overrides as they are stored or loaded
Overrides == [Days -> Rules \cup {Unset}]

\* The day of an instant is searched without leaving the calendar.
LEMMA ClockDay ==
  ASSUME ScheduleTypeOK
  PROVE  /\ clock \in Int /\ Today(clock) \in FirstDay..LastDay
         /\ Today(clock) - SearchDays \in Days \ {0}
         /\ Today(clock) + SearchDays \in Days
<1>1. /\ clock \in Int /\ FirstDay * DayLength <= clock
      /\ clock <= LastDay * DayLength + (DayLength - 1)
      /\ FirstDay \in Int /\ LastDay \in Int /\ DayLength - 1 \in Hours /\ 0 \in Hours
  BY ScheduleAssumption DEF ScheduleTypeOK, FirstDay, Hours
<1>2. /\ Today(LastDay * DayLength + (DayLength - 1)) = LastDay
      /\ LastDay * DayLength + (DayLength - 1) \in Int
  BY <1>1, InstantOf
<1>3. Today(FirstDay * DayLength) = FirstDay /\ FirstDay * DayLength \in Int
  <2>1. FirstDay * DayLength \in Int /\ FirstDay * DayLength + 0 = FirstDay * DayLength
    BY <1>1, ScheduleAssumption
  <2>2. Today(FirstDay * DayLength + 0) = FirstDay
    BY <1>1, InstantOf
  <2> QED
    BY <2>1, <2>2
<1>4. Today(clock) \in Int /\ FirstDay <= Today(clock) /\ Today(clock) <= LastDay
  BY <1>1, <1>2, <1>3, DatesInOrder, DateOf
<1> QED
  BY <1>1, <1>4, ScheduleAssumption DEF FirstDay, Days

\* The rule of a day is one of the stored ones, the settings' hours or none.
LEMMA RuleOfDay ==
  ASSUME ScheduleTypeOK, NEW ov \in Overrides, NEW d \in Days
  PROVE  DayRule(d, ov) \in Rules
BY DEF ScheduleTypeOK, Overrides, DayRule, Rules

\* What a rule is.
LEMMA RuleKinds ==
  ASSUME NEW rule \in Rules
  PROVE  \/ rule.kind = "open"
         \/ rule.kind = "closed"
         \/ /\ rule.kind = "hours" /\ rule.open \in Hours /\ rule.close \in Hours
            /\ rule.open < rule.close
BY DEF Rules, Windows, Closed, AllDay

\* The candidates of a day are instants of that day.
LEMMA CandidatesOfDay ==
  ASSUME ScheduleTypeOK, NEW ov \in Overrides, NEW d \in Days, NEW c \in DayCandidates(d, ov)
  PROVE  \E h \in Hours : c = d * DayLength + h
<1>1. d \in Int /\ 0 \in Hours /\ d * DayLength \in Int /\ d * DayLength = d * DayLength + 0
  BY ScheduleAssumption DEF Days, Hours
<1>2. PICK rule \in Rules : rule = DayRule(d, ov)
  BY RuleOfDay
<1>3. \/ c = d * DayLength
      \/ rule.kind = "hours" /\ c \in {d * DayLength + rule.open, d * DayLength + rule.close}
  BY <1>2 DEF DayCandidates
<1> QED
  BY <1>1, <1>2, <1>3, RuleKinds

\* A time of day before its own: the same rule holds, unless it is midnight.
LEMMA InstantBefore ==
  ASSUME NEW t \in Int, t % DayLength # 0
  PROVE  Today(t - 1) = Today(t) /\ (t - 1) % DayLength = (t % DayLength) - 1
<1>1. /\ Today(t) \in Int /\ t % DayLength \in Hours
      /\ t = Today(t) * DayLength + (t % DayLength)
  BY DateOf
<1>2. PICK h \in Hours : h = (t % DayLength) - 1
  BY <1>1, ScheduleAssumption DEF Hours
<1>3. t - 1 = Today(t) * DayLength + h
  BY <1>1, <1>2, ScheduleAssumption DEF Hours
<1> QED
  BY <1>1, <1>2, <1>3, InstantOf

\* A change is one of truth values.
LEMMA ChangesSaid ==
  ASSUME NEW t, NEW ov
  PROVE  Changes(t, ov) <=> ~(IsMarketOpenAt(t - 1, ov) <=> IsMarketOpenAt(t, ov))
BY DEF Changes, IsMarketOpenAt, IsOpenForRule

\* The market changes only at a midnight or at an opening or closing hour.
LEMMA ChangeIsCandidate ==
  ASSUME ScheduleTypeOK, enabled, NEW ov \in Overrides, NEW t \in Int, Today(t) \in Days,
         Changes(t, ov)
  PROVE  t \in DayCandidates(Today(t), ov)
<1>1. /\ Today(t) \in Int /\ t % DayLength \in Hours
      /\ t = Today(t) * DayLength + (t % DayLength)
  BY DateOf
<1>2. CASE t % DayLength = 0
  BY <1>1, <1>2, ScheduleAssumption DEF DayCandidates
<1>3. CASE t % DayLength # 0
  <2>1. PICK rule \in Rules : rule = DayRule(Today(t), ov)
    BY RuleOfDay
  <2>2. PICK h \in Hours : h = t % DayLength
    BY <1>1
  <2>3. Today(t - 1) = Today(t) /\ (t - 1) % DayLength = h - 1
    BY <1>3, <2>2, InstantBefore
  <2>4. /\ IsMarketOpenAt(t, ov) <=> \/ rule.kind = "open"
                                     \/ rule.kind = "hours" /\ h >= rule.open /\ h < rule.close
        /\ IsMarketOpenAt(t - 1, ov) <=> \/ rule.kind = "open"
                                         \/ /\ rule.kind = "hours"
                                            /\ h - 1 >= rule.open /\ h - 1 < rule.close
    BY <2>1, <2>2, <2>3 DEF IsMarketOpenAt, IsOpenForRule
  <2>5. rule.kind = "hours" /\ (h = rule.open \/ h = rule.close)
    <3>1. ~(IsMarketOpenAt(t - 1, ov) <=> IsMarketOpenAt(t, ov))
      BY ChangesSaid
    <3>2. h \in Int
      BY ScheduleAssumption DEF Hours
    <3>3. rule.kind = "hours" => rule.open \in Int /\ rule.close \in Int /\ rule.open < rule.close
      BY RuleKinds, ScheduleAssumption DEF Hours
    <3> QED
      BY <2>4, <3>1, <3>2, <3>3
  <2> QED
    BY <1>1, <2>1, <2>2, <2>5 DEF DayCandidates
<1> QED
  BY <1>2, <1>3

\* The timetable has the instants at which the service says the market is open.
LEMMA TimetableIsService ==
  ASSUME ScheduleTypeOK, NEW ov \in Overrides, NEW t \in Int, Today(t) \in Days
  PROVE  t \in Timetable(ov) <=> IsMarketOpenAt(t, ov)
<1>1. /\ Today(t) \in Int /\ t % DayLength \in Hours
      /\ t = Today(t) * DayLength + (t % DayLength)
  BY DateOf
<1>2. t \in 0..((LastDay + SearchDays + 1) * DayLength - 1)
  <2>1. 0 <= Today(t) /\ Today(t) <= LastDay + SearchDays /\ LastDay + SearchDays \in Int
    BY <1>1, ScheduleAssumption DEF Days
  <2>2. 0 * DayLength <= Today(t) * DayLength
        /\ Today(t) * DayLength <= (LastDay + SearchDays) * DayLength
        /\ Today(t) * DayLength \in Int /\ (LastDay + SearchDays) * DayLength \in Int
    BY <1>1, <2>1, DayTimes
  <2>3. (LastDay + SearchDays + 1) * DayLength = (LastDay + SearchDays) * DayLength + DayLength
    BY ScheduleAssumption
  <2> QED
    BY <1>1, <2>2, <2>3, ScheduleAssumption DEF Hours
<1>3. PICK rule \in Rules : rule = DayRule(Today(t), ov)
  BY RuleOfDay
<1>4. PICK h \in Hours : h = t % DayLength
  BY <1>1
<1>5. t - Today(t) * DayLength = h
  BY <1>1, <1>4, ScheduleAssumption DEF Hours
<1>6. /\ rule = IF ov[t \div DayLength] # Unset THEN ov[t \div DayLength]
                ELSE IF (t \div DayLength) % WeekLength \in holidays THEN Closed ELSE hours
      /\ t - (t \div DayLength) * DayLength = h
  BY <1>3, <1>5 DEF DayRule, Today
<1>7. t \in Timetable(ov) <=>
        \/ ~enabled
        \/ CASE rule.kind = "open" -> TRUE
             [] rule.kind = "closed" -> FALSE
             [] OTHER -> rule.open <= h /\ h < rule.close
  BY <1>2, <1>6 DEF Timetable
<1>8. IsMarketOpenAt(t, ov) <=>
        \/ ~enabled
        \/ rule.kind = "open"
        \/ rule.kind = "hours" /\ h >= rule.open /\ h < rule.close
  BY <1>3, <1>4 DEF IsMarketOpenAt, IsOpenForRule
<1> QED
  BY <1>7, <1>8, RuleKinds DEF Hours


\* A nonempty set of numbers from some number on has a least one.
LEMMA LeastOne ==
  ASSUME NEW a \in Int, NEW S \in SUBSET Int, S # {}, \A u \in S : a <= u
  PROVE  \E m \in S : \A u \in S : m <= u
<1> DEFINE T == {u - a : u \in S}
           R == OpToRel(<, Nat)
<1>0. \A u \in S : u - a \in T
  OBVIOUS
<1>1. T \subseteq Nat /\ T # {}
  <2>1. T \subseteq Nat
    OBVIOUS
  <2> QED
    BY <1>0, <2>1
<1>2. IsWellFoundedOn(R, Nat)
  BY NatLessThanWellFounded
<1> HIDE DEF R
<1>3. PICK n \in T : \A y \in T : ~ (<<y, n>> \in R)
  BY <1>1, <1>2, WFMin
<1>4. \A y \in T : ~(y < n)
  BY <1>1, <1>3 DEF R, OpToRel
<1>5. PICK m \in S : n = m - a
  OBVIOUS
<1>6. \A u \in S : ~(u - a < m - a)
  BY <1>0, <1>4, <1>5
<1> QED
  BY <1>6

\* A nonempty set of numbers up to some number has a greatest one.
LEMMA GreatestOne ==
  ASSUME NEW b \in Int, NEW S \in SUBSET Int, S # {}, \A u \in S : u <= b
  PROVE  \E m \in S : \A u \in S : u <= m
<1> DEFINE T == {0 - u : u \in S}
<1>0. \A u \in S : 0 - u \in T
  OBVIOUS
<1>1. T \in SUBSET Int /\ T # {} /\ 0 - b \in Int /\ \A u \in T : 0 - b <= u
  <2>1. T \in SUBSET Int /\ 0 - b \in Int /\ \A u \in T : 0 - b <= u
    OBVIOUS
  <2> QED
    BY <1>0, <2>1
<1>2. PICK n \in T : \A u \in T : n <= u
  BY <1>1, LeastOne
<1>3. PICK m \in S : n = 0 - m
  OBVIOUS
<1>4. \A u \in S : 0 - m <= 0 - u
  BY <1>0, <1>2, <1>3
<1> QED
  BY <1>4

\* What the market's state is given as
LEMMA StoredOverrides ==
  ASSUME ScheduleTypeOK
  PROVE  override \in Overrides /\ Loaded(clock) \in Overrides
BY DEF ScheduleTypeOK, Overrides, Loaded

\* A service that is switched off never changes.
LEMMA OffNeverChanges ==
  ASSUME ~enabled, NEW t, NEW ov
  PROVE  ~Changes(t, ov)
BY ChangesSaid DEF IsMarketOpenAt

\* An instant whose day and whose previous instant's day are in the calendar changes
\* in the timetable exactly when it changes for the service.
LEMMA ChangeIsChange ==
  ASSUME ScheduleTypeOK, NEW ov \in Overrides, NEW t \in Int,
         Today(t) \in Days, Today(t - 1) \in Days
  PROVE  ((t \in Timetable(ov)) # ((t - 1) \in Timetable(ov))) <=> Changes(t, ov)
<1>1. t \in Timetable(ov) <=> IsMarketOpenAt(t, ov)
  BY TimetableIsService
<1>2. (t - 1) \in Timetable(ov) <=> IsMarketOpenAt(t - 1, ov)
  BY TimetableIsService
<1>3. Changes(t, ov) <=> ~(IsMarketOpenAt(t - 1, ov) <=> IsMarketOpenAt(t, ov))
  BY ChangesSaid
<1>4. ((t \in Timetable(ov)) # ((t - 1) \in Timetable(ov)))
        <=> ~((t \in Timetable(ov)) <=> ((t - 1) \in Timetable(ov)))
  OBVIOUS
<1> QED
  BY <1>1, <1>2, <1>3, <1>4

\* From today on the loaded overrides are the stored ones.
LEMMA LoadedIsStored ==
  ASSUME ScheduleTypeOK, NEW t \in Int, Today(t) \in Today(clock)..(Today(clock) + SearchDays)
  PROVE  IsMarketOpenAt(t, Loaded(clock)) <=> IsMarketOpenAt(t, override)
<1>1. Today(t) \in Days
  BY ClockDay, ScheduleAssumption DEF Days, FirstDay
<1>2. Loaded(clock)[Today(t)] = override[Today(t)]
  BY <1>1 DEF Loaded
<1> QED
  BY <1>2 DEF IsMarketOpenAt, DayRule

\* The days between two dates are the instants from the first one's midnight up to
\* the last one's end.
LEMMA DaysBetween ==
  ASSUME NEW a \in Int, NEW b \in Int, NEW t \in Int
  PROVE  Today(t) \in a..b <=> t >= a * DayLength /\ t <= (b + 1) * DayLength - 1
<1>1. PICK d \in Int, h \in Hours : t = d * DayLength + h /\ d = Today(t)
  BY DateOf
<1>2. h \in Int /\ 0 <= h /\ h < DayLength /\ DayLength \in Int
  BY ScheduleAssumption DEF Hours
<1>3. d * DayLength \in Int /\ a * DayLength \in Int /\ (b + 1) * DayLength \in Int
  BY <1>2
<1>4. a <= d => a * DayLength <= d * DayLength
  BY DayTimes
<1>5. d < a => d * DayLength + DayLength <= a * DayLength
  <2>1. d + 1 \in Int /\ (d < a => d + 1 <= a) /\ (d + 1) * DayLength = d * DayLength + DayLength
    BY <1>2
  <2> QED
    BY <2>1, DayTimes
<1>6. d <= b => d * DayLength + DayLength <= (b + 1) * DayLength
  <2>1. /\ d + 1 \in Int /\ b + 1 \in Int /\ (d <= b => d + 1 <= b + 1)
        /\ (d + 1) * DayLength = d * DayLength + DayLength
    BY <1>2
  <2> QED
    BY <2>1, DayTimes
<1>7. b < d => (b + 1) * DayLength <= d * DayLength
  <2>1. b + 1 \in Int /\ (b < d => b + 1 <= d)
    OBVIOUS
  <2> QED
    BY <2>1, DayTimes
<1>8. (d \in a..b) <=> a <= d /\ d <= b
  OBVIOUS
<1> HIDE DEF Today
<1>9. CASE a <= d /\ d <= b
  BY <1>1, <1>2, <1>3, <1>4, <1>6, <1>8, <1>9
<1>10. CASE d < a
  BY <1>1, <1>2, <1>3, <1>5, <1>8, <1>10
<1>11. CASE b < d
  BY <1>1, <1>2, <1>3, <1>7, <1>8, <1>11
<1> QED
  BY <1>9, <1>10, <1>11


\* The candidates the next transition is looked for among are the changes of the
\* stored timetable in the searched days.
LEMMA NextCandidates ==
  ASSUME ScheduleTypeOK, enabled
  PROVE  {c \in UNION {DayCandidates(d, Loaded(clock)) :
                         d \in Today(clock)..(Today(clock) + SearchDays)} :
            c > clock /\ Changes(c, Loaded(clock))}
         = ChangeIn(clock + 1, (Today(clock) + SearchDays + 1) * DayLength - 1,
                    Timetable(override))
<1> DEFINE A == {c \in UNION {DayCandidates(d, Loaded(clock)) :
                                d \in Today(clock)..(Today(clock) + SearchDays)} :
                   c > clock /\ Changes(c, Loaded(clock))}
<1>1. PICK a \in Int, b \in Int, k \in Int :
        /\ a = Today(clock) /\ b = Today(clock) + SearchDays /\ k = clock
        /\ a \in Days /\ b \in Days /\ a <= b
  BY ClockDay, ScheduleAssumption DEF Days, FirstDay
<1>2. PICK ov \in Overrides : ov = Loaded(clock)
  BY StoredOverrides
<1>3. a..b \subseteq Days
  BY <1>1, ScheduleAssumption DEF Days
\* after the clock both the instant and the one before are in the searched days
<1>4. ASSUME NEW t \in Int, t > k, Today(t) <= b
      PROVE  /\ Today(t) \in a..b /\ Today(t - 1) \in a..b
             /\ Changes(t, ov) <=> ((t \in Timetable(override)) # ((t - 1) \in Timetable(override)))
  <2>1. t - 1 \in Int /\ k <= t - 1 /\ t - 1 <= t /\ k <= t
    BY <1>4
  <2>2. /\ Today(t) \in Int /\ Today(t - 1) \in Int
        /\ a <= Today(t - 1) /\ Today(t - 1) <= Today(t) /\ a <= Today(t)
    BY <1>1, <2>1, DatesInOrder, DateOf
  <2>3. Today(t) \in a..b /\ Today(t - 1) \in a..b
    BY <1>4, <2>2
  <2>4. /\ IsMarketOpenAt(t, ov) <=> IsMarketOpenAt(t, override)
        /\ IsMarketOpenAt(t - 1, ov) <=> IsMarketOpenAt(t - 1, override)
    BY <1>1, <1>2, <2>1, <2>3, LoadedIsStored
  <2>5. Changes(t, ov) <=> Changes(t, override)
    BY <2>4, ChangesSaid
  <2>6. ((t \in Timetable(override)) # ((t - 1) \in Timetable(override))) <=> Changes(t, override)
    BY <1>3, <2>3, StoredOverrides, ChangeIsChange
  <2> QED
    BY <2>3, <2>5, <2>6
<1>5. \A t \in Int : t > k => (Today(t) <= b <=> t <= (b + 1) * DayLength - 1)
  <2> SUFFICES ASSUME NEW t \in Int, t > k
               PROVE  Today(t) <= b <=> t <= (b + 1) * DayLength - 1
    OBVIOUS
  <2>1. a <= Today(t) /\ Today(t) \in Int
    BY <1>1, DatesInOrder, DateOf
  <2>2. k >= a * DayLength /\ a * DayLength \in Int
    BY <1>1, DaysBetween, ScheduleAssumption
  <2>3. Today(t) \in a..b <=> t >= a * DayLength /\ t <= (b + 1) * DayLength - 1
    BY DaysBetween
  <2>4. Today(t) \in a..b <=> Today(t) <= b
    BY <2>1
  <2>5. t >= a * DayLength
    BY <2>2
  <2> QED
    BY <2>3, <2>4, <2>5
<1>6. PICK e \in Int : e = (b + 1) * DayLength - 1 /\ e = (Today(clock) + SearchDays + 1) * DayLength - 1
  BY <1>1, ScheduleAssumption
<1>7. ASSUME NEW c \in A
      PROVE  c \in ChangeIn(clock + 1, e, Timetable(override))
  <2>1. PICK d \in a..b : c \in DayCandidates(d, ov)
    BY <1>1, <1>2
  <2>2. c > k /\ Changes(c, ov)
    BY <1>1, <1>2
  <2>3. PICK h \in Hours : c = d * DayLength + h
    BY <1>3, <2>1, CandidatesOfDay
  <2>4. c \in Int /\ Today(c) = d /\ d <= b
    BY <2>1, <2>3, InstantOf
  <2>5. c <= e /\ (c \in Timetable(override)) # ((c - 1) \in Timetable(override))
    BY <1>4, <1>5, <1>6, <2>2, <2>4
  <2> QED
    BY <1>1, <2>2, <2>4, <2>5 DEF ChangeIn
<1>8. ASSUME NEW c \in ChangeIn(clock + 1, e, Timetable(override))
      PROVE  c \in A
  <2>1. /\ c \in Int /\ c > k /\ c <= e
        /\ (c \in Timetable(override)) # ((c - 1) \in Timetable(override))
    BY <1>1 DEF ChangeIn
  <2>2. Today(c) \in a..b /\ Changes(c, ov)
    BY <1>4, <1>5, <1>6, <2>1
  <2>3. c \in DayCandidates(Today(c), ov)
    BY <1>3, <2>1, <2>2, ChangeIsCandidate
  <2> QED
    BY <1>1, <1>2, <2>1, <2>2, <2>3
<1> QED
  BY <1>6, <1>7, <1>8

\* The candidates the current transition is looked for among are the changes of the
\* timetable as it is loaded, in the searched days up to now.
LEMMA CurrentCandidates ==
  ASSUME ScheduleTypeOK, enabled
  PROVE  {c \in UNION {DayCandidates(d, Loaded(clock)) :
                         d \in (Today(clock) - SearchDays)..Today(clock)} :
            c <= clock /\ Changes(c, Loaded(clock))}
         = ChangeIn((Today(clock) - SearchDays) * DayLength, clock, Timetable(Loaded(clock)))
<1> DEFINE A == {c \in UNION {DayCandidates(d, Loaded(clock)) :
                                d \in (Today(clock) - SearchDays)..Today(clock)} :
                   c <= clock /\ Changes(c, Loaded(clock))}
<1>1. PICK a \in Int, b \in Int, k \in Int :
        /\ a = Today(clock) - SearchDays /\ b = Today(clock) /\ k = clock
        /\ a \in Days /\ a > 0 /\ b \in Days /\ a <= b
  BY ClockDay, ScheduleAssumption DEF Days, FirstDay
<1>2. PICK ov \in Overrides : ov = Loaded(clock)
  BY StoredOverrides
<1>3. (a - 1)..b \subseteq Days
  BY <1>1, ScheduleAssumption DEF Days
<1>4. a * DayLength \in Int /\ k <= (b + 1) * DayLength - 1 /\ (b + 1) * DayLength \in Int
  <2>1. Today(k) \in b..b
    BY <1>1
  <2>2. k <= (b + 1) * DayLength - 1
    BY <2>1, DaysBetween
  <2> QED
    BY <2>2, ScheduleAssumption
<1>5. \A t \in Int : t <= k => (Today(t) \in a..b <=> t >= a * DayLength)
  <2> SUFFICES ASSUME NEW t \in Int, t <= k
               PROVE  Today(t) \in a..b <=> t >= a * DayLength
    OBVIOUS
  <2>1. Today(t) \in a..b <=> t >= a * DayLength /\ t <= (b + 1) * DayLength - 1
    BY DaysBetween
  <2> QED
    BY <1>4, <2>1
<1>6. ASSUME NEW t \in Int, t <= k, Today(t) \in a..b
      PROVE  Changes(t, ov) <=> ((t \in Timetable(ov)) # ((t - 1) \in Timetable(ov)))
  <2>1. t - 1 \in Int /\ t - 1 <= t /\ t - DayLength \in Int /\ t - DayLength <= t - 1
    BY ScheduleAssumption
  <2>2. Today(t - DayLength) = Today(t) - 1 /\ Today(t) \in Int
    <3>1. PICK d \in Int, h \in Hours : t = d * DayLength + h /\ d = Today(t)
      BY DateOf
    <3>2. d - 1 \in Int /\ (d - 1) * DayLength = d * DayLength - DayLength
      BY ScheduleAssumption
    <3>3. (d - 1) * DayLength + h = t - DayLength
      BY <3>1, <3>2, ScheduleAssumption DEF Hours
    <3>4. Today((d - 1) * DayLength + h) = d - 1
      BY <3>2, InstantOf
    <3> QED
      BY <3>1, <3>3, <3>4
  <2>3. Today(t) - 1 <= Today(t - 1) /\ Today(t - 1) <= Today(t) /\ Today(t - 1) \in Int
    BY <2>1, <2>2, DatesInOrder, DateOf
  <2>4. Today(t) \in Days /\ Today(t - 1) \in Days
    BY <1>1, <1>3, <1>6, <2>2, <2>3
  <2> QED
    BY <2>4, ChangeIsChange
<1>7. ASSUME NEW c \in A
      PROVE  c \in ChangeIn((Today(clock) - SearchDays) * DayLength, clock, Timetable(Loaded(clock)))
  <2>1. PICK d \in a..b : c \in DayCandidates(d, ov)
    BY <1>1, <1>2
  <2>2. c <= k /\ Changes(c, ov)
    BY <1>1, <1>2
  <2>3. PICK h \in Hours : c = d * DayLength + h
    BY <1>1, <1>3, <2>1, CandidatesOfDay
  <2>4. c \in Int /\ Today(c) = d
    BY <2>1, <2>3, InstantOf
  <2>5. c >= a * DayLength /\ (c \in Timetable(ov)) # ((c - 1) \in Timetable(ov))
    BY <1>5, <1>6, <2>1, <2>2, <2>4
  <2> QED
    BY <1>1, <1>2, <1>4, <2>2, <2>4, <2>5 DEF ChangeIn
<1>8. ASSUME NEW c \in ChangeIn((Today(clock) - SearchDays) * DayLength, clock, Timetable(Loaded(clock)))
      PROVE  c \in A
  <2>1. /\ c \in Int /\ c <= k /\ c >= a * DayLength
        /\ (c \in Timetable(ov)) # ((c - 1) \in Timetable(ov))
    BY <1>1, <1>2, <1>4 DEF ChangeIn
  <2>2. Today(c) \in a..b /\ Changes(c, ov)
    BY <1>5, <1>6, <2>1
  <2>3. c \in DayCandidates(Today(c), ov)
    BY <1>1, <1>3, <2>1, <2>2, ChangeIsCandidate
  <2> QED
    BY <1>1, <1>2, <2>1, <2>2, <2>3
<1> QED
  BY <1>7, <1>8


\* Between two instants at which the market differs it has changed.
LEMMA ChangedBetween ==
  ASSUME NEW g \in Int, NEW k \in Int, g <= k, NEW ov,
         ~(IsMarketOpenAt(g, ov) <=> IsMarketOpenAt(k, ov))
  PROVE  \E m \in Int : g < m /\ m <= k /\ Changes(m, ov)
<1> DEFINE S == {u \in g..k : ~(IsMarketOpenAt(g, ov) <=> IsMarketOpenAt(u, ov))}
<1>1. S \in SUBSET Int /\ k \in S /\ \A u \in S : g <= u
  OBVIOUS
<1>2. PICK m \in S : \A u \in S : m <= u
  BY <1>1, LeastOne
<1>3. m \in Int /\ g < m /\ m <= k
  OBVIOUS
<1>4. m - 1 \in g..k /\ m - 1 \notin S
  BY <1>2, <1>3
<1> QED
  BY <1>3, <1>4, ChangesSaid

\* The greatest of a set of numbers is the one CHOOSE finds.
LEMMA GreatestIs ==
  ASSUME NEW S \in SUBSET Int, NEW g \in S, \A u \in S : u <= g
  PROVE  Greatest(S) = g /\ (CHOOSE t \in S : \A u \in S : u <= t) = g
<1>1. \A t \in S : (\A u \in S : u <= t) => t = g
  OBVIOUS
<1>2. (CHOOSE t \in S : \A u \in S : u <= t) = g
  BY <1>1
<1> QED
  BY <1>2 DEF Greatest

\* Whenever it is asked, the next transition is the first change ahead.
LEMMA NextIsFirstHere == ScheduleTypeOK => NextIsFirst
<1> SUFFICES ASSUME ScheduleTypeOK PROVE NextIsFirst
  OBVIOUS
<1> DEFINE B == ChangeIn(clock + 1, (Today(clock) + SearchDays + 1) * DayLength - 1,
                         Timetable(override))
<1>1. CASE enabled
  <2>1. NextTransitionAt(clock, Loaded(clock)) = Least(B)
    BY <1>1, NextCandidates DEF NextTransitionAt
  <2> HIDE DEF B
  <2>2. NextTransitionAt(clock, Loaded(clock)) =
          IF B = {} THEN Unset ELSE CHOOSE t \in B : \A u \in B : t <= u
    BY <2>1 DEF Least
  <2> QED
    BY <2>2 DEF NextIsFirst, B
<1>2. CASE ~enabled
  <2>1. NextTransitionAt(clock, Loaded(clock)) = Unset
    BY <1>2 DEF NextTransitionAt
  <2>2. ASSUME NEW t \in B PROVE FALSE
    <3>1. PICK a \in Int, b \in Int, k \in Int :
            /\ a = Today(clock) /\ b = Today(clock) + SearchDays /\ k = clock
            /\ a \in Days /\ b \in Days /\ a <= b /\ b + 1 = Today(clock) + SearchDays + 1
      BY ClockDay, ScheduleAssumption DEF Days, FirstDay
    <3>2. /\ t \in Int /\ t > k /\ t <= (b + 1) * DayLength - 1
          /\ (t \in Timetable(override)) # ((t - 1) \in Timetable(override))
          /\ a * DayLength \in Int /\ (b + 1) * DayLength \in Int
      BY <3>1, ScheduleAssumption DEF ChangeIn
    <3>3. k >= a * DayLength
      <4>1. Today(k) \in a..a
        BY <3>1
      <4> QED
        BY <4>1, DaysBetween
    <3>4. t - 1 \in Int /\ t >= a * DayLength /\ t - 1 >= a * DayLength
          /\ t - 1 <= (b + 1) * DayLength - 1
      BY <3>1, <3>2, <3>3
    <3>5. Today(t) \in a..b /\ Today(t - 1) \in a..b
      BY <3>2, <3>4, DaysBetween
    <3>6. Today(t) \in Days /\ Today(t - 1) \in Days
      BY <3>1, <3>5, ScheduleAssumption DEF Days
    <3> QED
      BY <1>2, <3>2, <3>6, StoredOverrides, ChangeIsChange, OffNeverChanges
  <2>3. B = {}
    BY <2>2
  <2> HIDE DEF B
  <2>4. NextTransitionAt(clock, Loaded(clock)) =
          IF B = {} THEN Unset ELSE CHOOSE t \in B : \A u \in B : t <= u
    BY <2>1, <2>3
  <2> QED
    BY <2>4 DEF NextIsFirst, B
<1> QED
  BY <1>1, <1>2

\* Whenever it is asked, the current transition is the last change seen.
LEMMA CurrentIsLastHere == ScheduleTypeOK => CurrentIsLastSeen
<1> SUFFICES ASSUME ScheduleTypeOK PROVE CurrentIsLastSeen
  OBVIOUS
<1> DEFINE B == ChangeIn((Today(clock) - SearchDays) * DayLength, clock, Timetable(Loaded(clock)))
<1>1. PICK a \in Int, b \in Int, k \in Int :
        /\ a = Today(clock) - SearchDays /\ b = Today(clock) /\ k = clock
        /\ a \in Days /\ a > 0 /\ b \in Days /\ a <= b
  BY ClockDay, ScheduleAssumption DEF Days, FirstDay
<1>2. B \in SUBSET Int /\ \A u \in B : u <= k
  BY <1>1 DEF ChangeIn
<1>3. CASE enabled
  <2> DEFINE A == {c \in UNION {DayCandidates(d, Loaded(clock)) :
                                  d \in (Today(clock) - SearchDays)..Today(clock)} :
                     /\ c <= clock /\ Changes(c, Loaded(clock))
                     /\ IsMarketOpenAt(c, Loaded(clock)) = IsMarketOpenAt(clock, Loaded(clock))}
  <2>1. B = {c \in UNION {DayCandidates(d, Loaded(clock)) :
                            d \in (Today(clock) - SearchDays)..Today(clock)} :
               c <= clock /\ Changes(c, Loaded(clock))}
    BY <1>3, CurrentCandidates
  <2>2. /\ A \subseteq B
        /\ \A c \in B : /\ Changes(c, Loaded(clock))
                        /\ IsMarketOpenAt(c, Loaded(clock)) = IsMarketOpenAt(clock, Loaded(clock))
                             => c \in A
    BY <2>1
  <2>3. CurrentTransitionAt(clock, Loaded(clock)) = Greatest(A)
    BY <1>3 DEF CurrentTransitionAt
  <2>4. \A c : IsMarketOpenAt(c, Loaded(clock)) \in BOOLEAN
    BY DEF IsMarketOpenAt, IsOpenForRule
  <2>5. \A c \in Int : c \in B <=> c \in B /\ Changes(c, Loaded(clock))
    BY <2>2
  <2>6. \A c \in Int : c >= a * DayLength /\ c <= k /\ Changes(c, Loaded(clock)) => c \in B
    <3> SUFFICES ASSUME NEW c \in Int, c >= a * DayLength, c <= k, Changes(c, Loaded(clock))
                 PROVE  c \in B
      OBVIOUS
    <3>1. Today(k) \in b..b
      BY <1>1
    <3>2. k <= (b + 1) * DayLength - 1 /\ (b + 1) * DayLength \in Int
      BY <3>1, DaysBetween, ScheduleAssumption
    <3>3. c <= (b + 1) * DayLength - 1
      BY <3>2
    <3>4. Today(c) \in a..b
      BY <3>3, DaysBetween
    <3>5. Today(c) \in Days
      BY <1>1, <3>4, ScheduleAssumption DEF Days
    <3>6. c \in DayCandidates(Today(c), Loaded(clock))
      BY <1>3, <3>5, StoredOverrides, ChangeIsCandidate
    <3> QED
      BY <1>1, <2>1, <3>4, <3>6
  <2>7. \A c \in B : c >= a * DayLength
    BY <1>1, ScheduleAssumption DEF ChangeIn
  <2> HIDE DEF A, B
  <2>8. CASE B = {}
    <3>1. A = {}
      BY <2>2, <2>8
    <3>2. CurrentTransitionAt(clock, Loaded(clock)) = Unset
      BY <2>3, <3>1 DEF Greatest
    <3> QED
      BY <2>8, <3>2 DEF CurrentIsLastSeen, B
  <2>9. CASE B # {}
    <3>1. PICK g \in B : \A u \in B : u <= g
      BY <1>2, <2>9, GreatestOne
    <3>2. g \in Int /\ g <= k /\ g >= a * DayLength
      BY <1>2, <2>7
    <3>3. IsMarketOpenAt(g, Loaded(clock)) <=> IsMarketOpenAt(k, Loaded(clock))
      <4> SUFFICES ASSUME ~(IsMarketOpenAt(g, Loaded(clock)) <=> IsMarketOpenAt(k, Loaded(clock)))
                   PROVE  FALSE
        OBVIOUS
      <4>1. PICK m \in Int : g < m /\ m <= k /\ Changes(m, Loaded(clock))
        BY <3>2, ChangedBetween
      <4>2. m >= a * DayLength
        BY <3>2, <4>1, ScheduleAssumption
      <4>3. m \in B
        BY <2>6, <4>1, <4>2
      <4> QED
        BY <3>1, <3>2, <4>1, <4>3
    <3>4. g \in A
      BY <1>1, <2>2, <2>4, <3>3
    <3>5. A \in SUBSET Int /\ \A u \in A : u <= g
      BY <1>2, <2>2, <3>1
    <3>6. Greatest(A) = g
      BY <3>4, <3>5, GreatestIs
    <3>7. (CHOOSE t \in B : \A u \in B : u <= t) = g
      BY <1>2, <3>1, GreatestIs
    <3>8. CurrentTransitionAt(clock, Loaded(clock)) =
            IF B = {} THEN Unset ELSE CHOOSE t \in B : \A u \in B : u <= t
      BY <2>3, <2>9, <3>6, <3>7
    <3> QED
      BY <3>8 DEF CurrentIsLastSeen, B
  <2> QED
    BY <2>8, <2>9
<1>4. CASE ~enabled
  <2>1. CurrentTransitionAt(clock, Loaded(clock)) = Unset
    BY <1>4 DEF CurrentTransitionAt
  <2>2. ASSUME NEW t \in B PROVE FALSE
    <3>1. /\ t \in Int /\ t <= k /\ t >= a * DayLength
          /\ (t \in Timetable(Loaded(clock))) # ((t - 1) \in Timetable(Loaded(clock)))
          /\ a * DayLength \in Int /\ (b + 1) * DayLength \in Int
      BY <1>1, ScheduleAssumption DEF ChangeIn
    <3>2. Today(k) \in b..b
      BY <1>1
    <3>3. k <= (b + 1) * DayLength - 1
      BY <3>2, DaysBetween
    <3>4. a - 1 \in Int /\ (a - 1) * DayLength = a * DayLength - DayLength
      BY ScheduleAssumption
    <3>5. /\ t - 1 \in Int /\ t >= (a - 1) * DayLength /\ t - 1 >= (a - 1) * DayLength
          /\ t <= (b + 1) * DayLength - 1 /\ t - 1 <= (b + 1) * DayLength - 1
      BY <3>1, <3>3, <3>4, ScheduleAssumption
    <3>6. Today(t) \in (a - 1)..b /\ Today(t - 1) \in (a - 1)..b
      BY <3>1, <3>4, <3>5, DaysBetween
    <3>7. Today(t) \in Days /\ Today(t - 1) \in Days
      BY <1>1, <3>6, ScheduleAssumption DEF Days
    <3> QED
      BY <1>4, <3>1, <3>7, StoredOverrides, ChangeIsChange, OffNeverChanges
  <2>3. B = {}
    BY <2>2
  <2> HIDE DEF B
  <2>4. CurrentTransitionAt(clock, Loaded(clock)) =
          IF B = {} THEN Unset ELSE CHOOSE t \in B : \A u \in B : u <= t
    BY <2>1, <2>3
  <2> QED
    BY <2>4 DEF CurrentIsLastSeen, B
<1> QED
  BY <1>3, <1>4

\* However the settings and the overrides are edited, the stored rules keep their form and
\* the clock stays in the calendar (market_schedule_service.py).
THEOREM ScheduleTyped == ScheduleSpec => []ScheduleTypeOK
<1>1. ScheduleInit => ScheduleTypeOK
  <2> SUFFICES ASSUME ScheduleInit PROVE ScheduleTypeOK
    OBVIOUS
  <2>1. /\ FirstDay * DayLength \in Int /\ FirstDay * DayLength <= LastDay * DayLength
        /\ (LastDay + 1) * DayLength = LastDay * DayLength + DayLength /\ LastDay * DayLength \in Int
    BY ScheduleAssumption, DayTimes DEF FirstDay
  <2>2. clock \in (FirstDay * DayLength)..((LastDay + 1) * DayLength - 1)
    BY <2>1, ScheduleAssumption DEF ScheduleInit
  <2> QED
    BY <2>2 DEF ScheduleInit, ScheduleTypeOK
<1>2. ScheduleTypeOK /\ [ScheduleNext]_scheduleVars => ScheduleTypeOK'
  <2> SUFFICES ASSUME ScheduleTypeOK, [ScheduleNext]_scheduleVars PROVE ScheduleTypeOK'
    OBVIOUS
  <2>1. CASE ClockTick
    <3>1. FirstDay * DayLength \in Int /\ (LastDay + 1) * DayLength \in Int
      BY ScheduleAssumption DEF FirstDay
    <3> QED
      BY <2>1, <3>1 DEF ClockTick, ScheduleTypeOK
  <2>2. ASSUME NEW e \in BOOLEAN, NEW w \in Windows, NEW h \in SUBSET (0..(WeekLength - 1)),
               UpdateSettings(e, w, h)
        PROVE  ScheduleTypeOK'
    BY <2>2 DEF UpdateSettings, ScheduleTypeOK
  <2>3. ASSUME NEW d \in Days, NEW rule \in Rules, CreateOverride(d, rule)
        PROVE  ScheduleTypeOK'
    BY <2>3 DEF CreateOverride, ScheduleTypeOK
  <2>4. ASSUME NEW d \in Days, NEW rule \in Rules, NEW date \in Days, UpdateOverride(d, date, rule)
        PROVE  ScheduleTypeOK'
    BY <2>4 DEF UpdateOverride, ScheduleTypeOK
  <2>5. ASSUME NEW d \in Days, DeleteOverride(d)
        PROVE  ScheduleTypeOK'
    BY <2>5 DEF DeleteOverride, ScheduleTypeOK
  <2>6. CASE UNCHANGED scheduleVars
    BY <2>6 DEF scheduleVars, ScheduleTypeOK
  <2> QED
    BY <2>1, <2>2, <2>3, <2>4, <2>5, <2>6 DEF ScheduleNext, Edit
<1> QED
  BY <1>1, <1>2, PTL DEF ScheduleSpec

\* evaluate_market_schedule names as next_transition_at the first instant at which the
\* stored timetable changes in the days it searches, whatever the hours, holidays and
\* overrides and however they were edited.
THEOREM NextTransitionIsFirst == ScheduleSpec => []NextIsFirst
BY ScheduleTyped, NextIsFirstHere, PTL

\* evaluate_market_schedule names as current_transition_at the last change of the
\* timetable it was given, although it keeps only candidates after which the market is
\* as it is now.
THEOREM CurrentTransitionIsLast == ScheduleSpec => []CurrentIsLastSeen
BY ScheduleTyped, CurrentIsLastHere, PTL
=============================================================================
