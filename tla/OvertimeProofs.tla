--------------------------- MODULE OvertimeProofs --------------------------
(***************************************************************************)
(* Theorems about OvertimeQueue, for any number of offers, requesters and  *)
(* sessions, any lifetimes, windows and clocks.                            *)
(***************************************************************************)
EXTENDS OvertimeQueue, SequenceTheorems, FiniteSetTheorems, WellFoundedInduction, TLAPS

OfferStatuses == {"active", "completed", "expired"}

\* The writes a session can hold
RowWrites == UNION {[D -> Row] : D \in SUBSET Nat}
OfferWrites == UNION {[O -> OfferStatuses] : O \in SUBSET Offers}

Ops == {"idle", "scanned", "create", "cancel", "reject", "approve", "refuse", "user",
        "deliver", "stale", "sweep", "reconcile", "expire"}

Sessions == [op : Ops, upd : RowWrites, ins : Seq(Row), offers : OfferWrites,
             rowLocks : SUBSET Nat, offerLocks : SUBSET Offers,
             userLocks : SUBSET Requesters, stale : BOOLEAN]

Typed ==
    /\ rows \in Seq(Row)
    /\ ostatus \in [Offers -> OfferStatuses]
    /\ tx \in [Tx -> Sessions]
    /\ sent \subseteq 1..MaxRows
    /\ now \in 0..MaxTime

\* A row's place in the queue is never beyond the number of rows
SequenceBounded ==
    /\ \A i \in DOMAIN rows : rows[i].seq <= Len(rows)
    /\ \A t \in Tx : \A k \in DOMAIN tx[t].ins : tx[t].ins[k].seq <= Len(rows) + 1

Inserting == {t \in Tx : tx[t].ins # <<>>}

RoomForInserts ==
    /\ Len(rows) + Cardinality(Inserting) <= MaxRows
    /\ \A t \in Tx : Len(tx[t].ins) <= 1

\* Pending writes are to rows the session has locked, a row is locked once
WritesAreLocked ==
    /\ \A t \in Tx : DOMAIN tx[t].upd \subseteq tx[t].rowLocks
    /\ \A t \in Tx : tx[t].rowLocks \subseteq DOMAIN rows
    /\ \A t, u \in Tx : t # u => tx[t].rowLocks \cap tx[u].rowLocks = {}

\* What a write may make of a row: only an open row changes, a request in front of
\* its owner keeps its deadline and is timed out only after it
MayBecome(old, new) ==
    /\ old.status \in Nonterminal
    /\ new.seq = old.seq
    /\ old.status = "presented" =>
          /\ new.status = "presented" => new.deadline = old.deadline
          /\ new.status = "decision_expired" => new.decided >= old.deadline

\* A session decides on the row as it is committed, until it commits itself
WritesAreCurrent ==
    \A t \in Tx :
        /\ \A i \in tx[t].rowLocks : rows[i].status \in Nonterminal
        /\ \A i \in DOMAIN tx[t].upd : MayBecome(rows[i], tx[t].upd[i])

OvertimeInv ==
    Typed /\ SequenceBounded /\ RoomForInserts /\ WritesAreLocked /\ WritesAreCurrent

-----------------------------------------------------------------------------
(* Numbers and sequences                                                   *)

\* A set of naturals with an upper bound has a maximum.
LEMMA MaxOfBounded ==
    ASSUME NEW n \in Nat, NEW S \in SUBSET (0..n), S # {}
    PROVE  Max(S) \in S /\ \A y \in S : Max(S) >= y
<1> DEFINE T == {n - x : x \in S}
           R == OpToRel(<, Nat)
<1>1. T \subseteq Nat
  OBVIOUS
<1>2. T # {}
  <2>1. PICK x \in S : TRUE
    OBVIOUS
  <2>2. n - x \in T
    OBVIOUS
  <2> QED
    BY <2>2
<1>3. IsWellFoundedOn(R, Nat)
  BY NatLessThanWellFounded
<1> HIDE DEF R
<1>4. PICK m \in T : \A y \in T : ~ (<<y, m>> \in R)
  BY <1>1, <1>2, <1>3, WFMin
<1>5. \A y \in T : ~(y < m)
  BY <1>1, <1>4 DEF R, OpToRel
<1>6. PICK x \in S : m = n - x
  OBVIOUS
<1>7. \A y \in S : x >= y
  BY <1>5, <1>6
<1> QED
  BY <1>7 DEF Max

\* Places in a sequence and in one that is longer by one at most.
LEMMA OneLonger ==
    ASSUME NEW n \in Nat, NEW m \in Nat, n <= m, m <= n + 1
    PROVE  /\ \A i \in 1..n : i \in 1..m
           /\ \A i \in 1..m : i \notin 1..n => m = n + 1 /\ i = m
OBVIOUS

\* Only an insert of one makes a sequence longer.
LEMMA OneMore ==
    ASSUME NEW n \in Nat, NEW k \in Nat, k <= 1, NEW i \in 1..(n + k), i \notin 1..n
    PROVE  k = 1
OBVIOUS

\* A sequence with other values at the same places is a sequence.
LEMMA SameLength ==
    ASSUME NEW S, NEW v \in Seq(S), NEW f \in [DOMAIN v -> S]
    PROVE  f \in Seq(S) /\ Len(f) = Len(v) /\ DOMAIN f = DOMAIN v
OBVIOUS

-----------------------------------------------------------------------------
(* Rows                                                                    *)

\* Closing a row, presenting it and giving it the seat yield rows of the same
\* requester in the same place of the queue.
LEMMA RowOps ==
    ASSUME NEW r \in Row, now \in 0..MaxTime
    PROVE  /\ \A s \in Terminal :
                 /\ Decide(r, s) \in Row
                 /\ Decide(r, s).status = s /\ Decide(r, s).seq = r.seq
                 /\ s \in CooldownTrigger => Decide(r, s).decided = now
           /\ Presented(r) \in Row /\ Presented(r).seq = r.seq
           /\ Seat(r) \in Row /\ Seat(r).seq = r.seq
<1> USE OvertimeAssumption DEF Row
<1>1. ASSUME NEW s \in Terminal
      PROVE  /\ Decide(r, s) \in Row
             /\ Decide(r, s).status = s /\ Decide(r, s).seq = r.seq
             /\ s \in CooldownTrigger => Decide(r, s).decided = now
  <2>1. (IF s \in CooldownTrigger THEN now ELSE 0) \in 0..MaxTime /\ 0 \in 0..MaxTime
        /\ 0 \in 0..(MaxTime + DecisionTicks)
    OBVIOUS
  <2> QED
    BY <2>1 DEF Decide
<1>2. Presented(r) \in Row /\ Presented(r).seq = r.seq
  <2>1. now + DecisionTicks \in 0..(MaxTime + DecisionTicks) /\ 0 \in 0..MaxTime
    OBVIOUS
  <2> QED
    BY <2>1 DEF Presented, Nonterminal, Occupying
<1>3. Seat(r) \in Row /\ Seat(r).seq = r.seq
  BY <1>2 DEF Seat, Nonterminal, Occupying
<1> QED
  BY <1>1, <1>2, <1>3

\* An open row may be closed by anything but a timeout, a queued one may get the
\* seat, an overdue one may be timed out.
LEMMA RowChanges ==
    ASSUME NEW r \in Row, now \in 0..MaxTime, r.status \in Nonterminal
    PROVE  /\ \A s \in Terminal \ {"decision_expired"} : MayBecome(r, Decide(r, s))
           /\ r.status = "queued" => MayBecome(r, Seat(r))
           /\ r.status = "delivering" => MayBecome(r, Presented(r))
           /\ Overdue(r) => /\ ClosedOverdue(r) \in Row
                            /\ MayBecome(r, ClosedOverdue(r))
                            /\ ClosedOverdue(r).status \in Terminal
<1>1. \A s \in Terminal \ {"decision_expired"} : MayBecome(r, Decide(r, s))
  BY RowOps DEF MayBecome, Terminal
<1>2. r.status = "queued" => MayBecome(r, Seat(r))
  BY RowOps DEF MayBecome
<1>3. r.status = "delivering" => MayBecome(r, Presented(r))
  BY RowOps DEF MayBecome
<1>4. ASSUME Overdue(r)
      PROVE  /\ ClosedOverdue(r) \in Row
             /\ MayBecome(r, ClosedOverdue(r))
             /\ ClosedOverdue(r).status \in Terminal
  <2>1. CASE r.status = "presented"
    <3>1. ClosedOverdue(r) = Decide(r, "decision_expired")
      BY <2>1 DEF ClosedOverdue
    <3>2. r.deadline <= now
      BY <1>4, <2>1 DEF Overdue
    <3>3. /\ Decide(r, "decision_expired") \in Row
          /\ Decide(r, "decision_expired").status = "decision_expired"
          /\ Decide(r, "decision_expired").seq = r.seq
          /\ Decide(r, "decision_expired").decided = now
      BY RowOps DEF Terminal, CooldownTrigger
    <3> QED
      BY <3>1, <3>2, <3>3, OvertimeAssumption DEF MayBecome, Terminal, Row
  <2>2. CASE r.status # "presented"
    BY <1>1, <2>2, RowOps DEF ClosedOverdue, Terminal
  <2> QED
    BY <2>1, <2>2
<1> QED
  BY <1>1, <1>2, <1>3, <1>4

-----------------------------------------------------------------------------
(* What a session sees and writes                                          *)

\* The rows with the changes of a session: one more at most, the committed ones
\* as they are or as they may become
GoodView(v) ==
    /\ v \in Seq(Row)
    /\ Len(rows) <= Len(v) /\ Len(v) <= Len(rows) + 1
    /\ \A i \in DOMAIN rows : v[i] = rows[i] \/ MayBecome(rows[i], v[i])
    /\ Len(v) = Len(rows) + 1 => v[Len(v)].seq <= Len(rows) + 1

QueuedAsCommitted(v) ==
    \A i \in DOMAIN rows : v[i].status = "queued" => v[i] = rows[i]

\* The committed rows with some of them changed are a view.
LEMMA ChangedView ==
    ASSUME Len(rows) \in Nat, NEW v \in Seq(Row), Len(v) = Len(rows),
           \A i \in DOMAIN rows : v[i] = rows[i] \/ MayBecome(rows[i], v[i])
    PROVE  GoodView(v)
<1>1. Len(rows) <= Len(v) /\ Len(v) <= Len(rows) + 1 /\ Len(v) # Len(rows) + 1
  OBVIOUS
<1> QED
  BY <1>1 DEF GoodView

\* The rows as committed are a view.
LEMMA CommittedView ==
    ASSUME Typed
    PROVE  GoodView(rows) /\ QueuedAsCommitted(rows)
BY DEF Typed, GoodView, QueuedAsCommitted

\* A promotion changes queued rows only.
LEMMA PromotedView ==
    ASSUME Typed, NEW v, GoodView(v), QueuedAsCommitted(v), NEW os, NEW ok
    PROVE  /\ GoodView(promote_next_for_owner(v, os, ok))
           /\ Len(promote_next_for_owner(v, os, ok)) = Len(v)
<1> DEFINE w == promote_next_for_owner(v, os, ok)
<1>1. /\ v \in Seq(Row) /\ now \in 0..MaxTime /\ DOMAIN v = 1..Len(v) /\ Len(v) \in Nat
      /\ rows \in Seq(Row) /\ DOMAIN rows = 1..Len(rows) /\ Len(rows) \in Nat
      /\ Len(rows) <= Len(v) /\ Len(v) <= Len(rows) + 1
  BY DEF Typed, GoodView
<1>2. \A i \in DOMAIN v : /\ v[i] \in Row /\ Seat(v[i]) \in Row /\ Seat(v[i]).seq = v[i].seq
                          /\ Decide(v[i], "invalidated") \in Row
                          /\ Decide(v[i], "invalidated").seq = v[i].seq
  BY <1>1, RowOps DEF Terminal
<1>3. w \in [DOMAIN v -> Row]
  BY <1>1, <1>2 DEF promote_next_for_owner
<1>4. \A i \in DOMAIN v :
         \/ w[i] = v[i]
         \/ /\ v[i].status = "queued"
            /\ w[i] = Seat(v[i]) \/ w[i] = Decide(v[i], "invalidated")
  BY <1>1 DEF promote_next_for_owner, WithStatus
<1>5. w \in Seq(Row) /\ Len(w) = Len(v)
  BY <1>1, <1>3, SameLength
<1> HIDE DEF w
<1>6. ASSUME NEW i \in DOMAIN rows
      PROVE  w[i] = rows[i] \/ MayBecome(rows[i], w[i])
  <2>1. i \in DOMAIN v
    BY <1>1, OneLonger
  <2>2. CASE w[i] = v[i]
    BY <2>2 DEF GoodView
  <2>3. CASE v[i].status = "queued" /\ w[i] = Seat(v[i])
    <3>1. v[i] = rows[i] /\ v[i] \in Row
      BY <1>2, <2>1, <2>3 DEF QueuedAsCommitted
    <3> QED
      BY <1>1, <2>3, <3>1, RowChanges DEF Nonterminal
  <2>4. CASE v[i].status = "queued" /\ w[i] = Decide(v[i], "invalidated")
    <3>1. v[i] = rows[i] /\ v[i] \in Row
      BY <1>2, <2>1, <2>4 DEF QueuedAsCommitted
    <3> QED
      BY <1>1, <2>4, <3>1, RowChanges DEF Nonterminal, Terminal
  <2> QED
    BY <1>4, <2>1, <2>2, <2>3, <2>4
<1>7. ASSUME Len(w) = Len(rows) + 1
      PROVE  w[Len(w)].seq <= Len(rows) + 1
  <2>1. Len(w) \in DOMAIN v /\ v[Len(w)].seq <= Len(rows) + 1
    BY <1>1, <1>5, <1>7 DEF GoodView
  <2> QED
    BY <1>2, <1>4, <2>1
<1>8. GoodView(w)
  BY <1>5, <1>6, <1>7 DEF GoodView
<1> QED
  BY <1>5, <1>8 DEF w

\* Closing open rows, by anything but a timeout.
LEMMA ClosedView ==
    ASSUME Typed, NEW R \in SUBSET DOMAIN rows, \A i \in R : rows[i].status \in Nonterminal,
           NEW s \in Terminal \ {"decision_expired"}
    PROVE  LET closed == [i \in DOMAIN rows |-> IF i \in R THEN Decide(rows[i], s) ELSE rows[i]]
           IN  GoodView(closed) /\ QueuedAsCommitted(closed) /\ Len(closed) = Len(rows)
<1> DEFINE closed == [i \in DOMAIN rows |-> IF i \in R THEN Decide(rows[i], s) ELSE rows[i]]
<1>1. rows \in Seq(Row) /\ now \in 0..MaxTime
  BY DEF Typed
<1>2. \A i \in DOMAIN rows : rows[i] \in Row /\ Decide(rows[i], s) \in Row
                            /\ Decide(rows[i], s).status = s
  BY <1>1, RowOps
<1>3. closed \in [DOMAIN rows -> Row]
  BY <1>2
<1>4. closed \in Seq(Row) /\ Len(closed) = Len(rows)
  BY <1>1, <1>3, SameLength
<1>5. \A i \in DOMAIN rows : closed[i] = rows[i] \/ MayBecome(rows[i], closed[i])
  BY <1>1, <1>2, RowChanges
<1>6. QueuedAsCommitted(closed)
  BY <1>2 DEF QueuedAsCommitted, Terminal
<1>7. GoodView(closed)
  <2>1. Len(rows) \in Nat
    BY <1>1
  <2> HIDE DEF closed
  <2> QED
    BY <1>4, <1>5, <2>1 DEF GoodView
<1> QED
  BY <1>4, <1>6, <1>7

-----------------------------------------------------------------------------
(* Opening a transaction                                                   *)

\* Inserting sessions are counted.
LEMMA InsertingCount ==
    ASSUME NEW S \in SUBSET Tx
    PROVE  /\ IsFiniteSet(S) /\ Cardinality(S) \in Nat
           /\ \A T \in SUBSET S : Cardinality(T) <= Cardinality(S) /\ Cardinality(T) \in Nat
           /\ \A t \in Tx : Cardinality(S \cup {t}) <= Cardinality(S) + 1
           /\ \A t \in S : Cardinality(S \ {t}) = Cardinality(S) - 1
<1>1. IsFiniteSet(Tx)
  BY OvertimeAssumption
<1>2. IsFiniteSet(S) /\ Cardinality(S) \in Nat
  BY <1>1, FS_Subset, FS_CardinalityType
<1>3. ASSUME NEW T \in SUBSET S
      PROVE  Cardinality(T) <= Cardinality(S) /\ Cardinality(T) \in Nat
  BY <1>2, FS_Subset, FS_CardinalityType
<1>4. ASSUME NEW t \in Tx PROVE Cardinality(S \cup {t}) <= Cardinality(S) + 1
  BY <1>2, FS_AddElement
<1>5. ASSUME NEW t \in S PROVE Cardinality(S \ {t}) = Cardinality(S) - 1
  BY <1>2, FS_RemoveElement
<1> QED
  BY <1>2, <1>3, <1>4, <1>5

\* A view with a row more is opened only while there is room for it
RoomFor(view) ==
    Len(view) = Len(rows) \/ Len(rows) + Cardinality(Inserting) < MaxRows

\* A transaction that opens with the writes of a view keeps the invariant.
LEMMA OpenStep ==
    ASSUME OvertimeInv, NEW t \in Tx, NEW op \in Ops, NEW view, GoodView(view),
           RoomFor(view),
           NEW O \in SUBSET Offers, NEW os \in [Offers -> OfferStatuses],
           NEW users \in SUBSET Requesters, Open(t, op, view, O, os, users)
    PROVE  OvertimeInv'
<1> DEFINE ch == Changed(view)
           n == Len(rows)
           ins == SubSeq(view, n + 1, Len(view))
           s == [op |-> op, upd |-> [i \in ch |-> view[i]], ins |-> ins,
                 offers |-> [o \in O |-> os[o]], rowLocks |-> ch, offerLocks |-> O,
                 userLocks |-> users, stale |-> FALSE]
<1>1. /\ tx' = [tx EXCEPT ![t] = s] /\ UNCHANGED <<rows, ostatus, sent, now>>
      /\ RowsFree(t, ch)
  BY DEF Open
<1>2. /\ rows \in Seq(Row) /\ DOMAIN rows = 1..n /\ n \in Nat
      /\ view \in Seq(Row) /\ DOMAIN view = 1..Len(view) /\ Len(view) \in Nat
      /\ n <= Len(view) /\ Len(view) <= n + 1
      /\ tx \in [Tx -> Sessions]
  BY DEF OvertimeInv, Typed, GoodView
<1>3. ch \subseteq DOMAIN rows /\ ch \subseteq Nat /\ ch \subseteq DOMAIN view
  <2>1. ch \subseteq DOMAIN rows
    BY DEF Changed
  <2>2. DOMAIN rows \subseteq Nat
    BY <1>2
  <2>3. DOMAIN rows \subseteq DOMAIN view
    BY <1>2, OneLonger
  <2> QED
    BY <2>1, <2>2, <2>3
<1>4. /\ ins \in Seq(Row) /\ Len(ins) = Len(view) - n
      /\ \A k \in DOMAIN ins : ins[k].seq <= n + 1
      /\ Len(view) = n => ins = <<>>
  <2>1. \A i \in (n + 1)..Len(view) : i \in 1..Len(view)
    BY <1>2
  <2>2. \A i \in (n + 1)..Len(view) : view[i] \in Row
    BY <1>2, <2>1
  <2>3. /\ ins \in Seq(Row) /\ Len(ins) = Len(view) - n
        /\ \A k \in 1..Len(ins) : ins[k] = view[n + k]
    <3> DEFINE m == Len(view)
    <3>1. m \in Nat /\ n \in Nat /\ n + 1 \in Int /\ n <= m /\ m <= n + 1
      BY <1>2
    <3> HIDE DEF m, n
    <3>2. /\ ins \in Seq(Row)
          /\ Len(ins) = IF n + 1 <= m THEN m - (n + 1) + 1 ELSE 0
          /\ \A k \in 1..(m - (n + 1) + 1) : ins[k] = view[(n + 1) + k - 1]
      BY <2>2, <3>1, SubSeqProperties DEF m
    <3>3. (IF n + 1 <= m THEN m - (n + 1) + 1 ELSE 0) = m - n /\ m - (n + 1) + 1 = m - n
      BY <3>1
    <3>4. \A k \in 1..(m - n) : (n + 1) + k - 1 = n + k
      BY <3>1
    <3>5. Len(ins) = m - n /\ \A k \in 1..Len(ins) : ins[k] = view[n + k]
      BY <3>2, <3>3, <3>4
    <3> QED
      BY <3>2, <3>5 DEF m
  <2>4. \A k \in DOMAIN ins : ins[k].seq <= n + 1
    <3> SUFFICES ASSUME NEW k \in DOMAIN ins PROVE ins[k].seq <= n + 1
      OBVIOUS
    <3>1. k \in 1..Len(ins)
      BY <2>3
    <3>2. k \in 1..(Len(view) - n)
      BY <2>3, <3>1
    <3>3. k = 1 /\ Len(view) = n + 1
      <4> DEFINE m == Len(view)
      <4>1. m \in Nat /\ n \in Nat /\ n <= m /\ m <= n + 1 /\ k \in 1..(m - n)
        BY <1>2, <3>2
      <4> HIDE DEF m, n
      <4>2. k = 1 /\ m = n + 1
        BY <4>1
      <4> QED
        BY <4>2 DEF m
    <3>4. ins[1] = view[n + 1]
      BY <2>3, <3>1, <3>3
    <3> QED
      BY <3>3, <3>4 DEF GoodView
  <2>5. Len(view) = n => ins = <<>>
    BY <1>2, <2>3, EmptySeq
  <2> QED
    BY <2>3, <2>4, <2>5
<1> HIDE DEF ins
<1>5. s \in Sessions
  <2>1. [i \in ch |-> view[i]] \in [ch -> Row] /\ [o \in O |-> os[o]] \in [O -> OfferStatuses]
    <3>1. \A i \in ch : view[i] \in Row
      BY <1>2, <1>3
    <3> HIDE DEF ch
    <3> QED
      BY <3>1
  <2>2. [i \in ch |-> view[i]] \in RowWrites /\ [o \in O |-> os[o]] \in OfferWrites
    BY <1>3, <2>1 DEF RowWrites, OfferWrites
  <2> HIDE DEF ch
  <2> QED
    BY <1>3, <1>4, <2>2 DEF Sessions
<1>6. /\ \A u \in Tx : u # t => tx'[u] = tx[u]
      /\ tx'[t].ins = ins /\ tx'[t].rowLocks = ch /\ tx'[t].upd = [i \in ch |-> view[i]]
      /\ tx' \in [Tx -> Sessions]
  BY <1>1, <1>2, <1>5
<1> HIDE DEF s
<1>7. Typed'
  BY <1>1, <1>6 DEF OvertimeInv, Typed
<1>8. SequenceBounded'
  BY <1>1, <1>4, <1>6 DEF OvertimeInv, SequenceBounded
<1>9. RoomForInserts'
  <2>1. \A u \in Tx : Len(tx'[u].ins) <= 1
    <3> DEFINE m == Len(view)
               k == Len(ins)
    <3>1. n \in Nat /\ m \in Nat /\ m <= n + 1 /\ k = m - n
      BY <1>2, <1>4
    <3> HIDE DEF n, m, k
    <3>2. k <= 1
      BY <3>1
    <3>3. Len(ins) <= 1
      BY <3>2 DEF k
    <3> QED
      BY <1>6, <3>3 DEF OvertimeInv, RoomForInserts
  <2>2. Inserting \in SUBSET Tx /\ Inserting' \in SUBSET Tx /\ Inserting' \subseteq Inserting \cup {t}
    BY <1>6 DEF Inserting
  <2>3. /\ Cardinality(Inserting) \in Nat /\ Cardinality(Inserting') \in Nat
        /\ Cardinality(Inserting \cup {t}) <= Cardinality(Inserting) + 1
        /\ Cardinality(Inserting') <= Cardinality(Inserting \cup {t})
        /\ Cardinality(Inserting \cup {t}) \in Nat
    <3>1. Inserting \cup {t} \in SUBSET Tx
      BY <2>2
    <3> QED
      BY <2>2, <3>1, InsertingCount
  <2>4. CASE Len(view) = n
    <3>1. Inserting' \subseteq Inserting
      BY <1>4, <1>6, <2>4 DEF Inserting
    <3>2. Cardinality(Inserting') <= Cardinality(Inserting)
      BY <2>2, <3>1, InsertingCount
    <3> QED
      <4>1. n + Cardinality(Inserting) <= MaxRows /\ rows' = rows
        BY <1>1 DEF OvertimeInv, RoomForInserts
      <4>2. n + Cardinality(Inserting') <= MaxRows
        BY <1>2, <2>3, <3>2, <4>1, OvertimeAssumption
      <4> QED
        BY <2>1, <4>1, <4>2 DEF RoomForInserts
  <2>5. CASE n + Cardinality(Inserting) < MaxRows
    <3>1. n + Cardinality(Inserting') <= MaxRows /\ rows' = rows
      BY <1>1, <1>2, <2>3, <2>5, OvertimeAssumption
    <3> QED
      BY <2>1, <3>1 DEF RoomForInserts
  <2> QED
    BY <2>4, <2>5 DEF RoomFor
<1>10. WritesAreLocked'
  <2>1. \A u \in Tx : u # t => tx[u].rowLocks \cap ch = {}
    BY <1>1 DEF RowsFree, Others
  <2> QED
    BY <1>1, <1>3, <1>6, <2>1 DEF OvertimeInv, WritesAreLocked
<1>11. WritesAreCurrent'
  <2>1. \A i \in ch : MayBecome(rows[i], view[i]) /\ rows[i].status \in Nonterminal
    BY <1>3 DEF Changed, GoodView, MayBecome
  <2> QED
    BY <1>1, <1>6, <2>1 DEF OvertimeInv, WritesAreCurrent, MayBecome
<1> QED
  BY <1>7, <1>8, <1>9, <1>10, <1>11 DEF OvertimeInv

-----------------------------------------------------------------------------
(* The handlers                                                            *)

\* Rows are closed and the seat is offered to the queue.
LEMMA CloseStep ==
    ASSUME OvertimeInv, NEW t \in Tx, NEW op \in Ops,
           NEW R \in SUBSET DOMAIN rows, \A i \in R : rows[i].status \in Nonterminal,
           NEW s \in Terminal \ {"decision_expired"},
           NEW O \in SUBSET Offers, NEW os \in [Offers -> OfferStatuses],
           CloseAndPromote(t, op, R, s, O, os)
    PROVE  OvertimeInv'
<1> DEFINE closed == [i \in DOMAIN rows |-> IF i \in R THEN Decide(rows[i], s) ELSE rows[i]]
<1>1. PICK ok \in Reachable : Open(t, op, promote_next_for_owner(closed, os, ok), O, os, {})
  BY DEF CloseAndPromote
<1>2. Typed
  BY DEF OvertimeInv
<1>3. GoodView(closed) /\ QueuedAsCommitted(closed) /\ Len(closed) = Len(rows)
  BY <1>2, ClosedView
<1> HIDE DEF closed
<1>4. /\ GoodView(promote_next_for_owner(closed, os, ok))
      /\ Len(promote_next_for_owner(closed, os, ok)) = Len(rows)
  BY <1>2, <1>3, PromotedView
<1> QED
  BY <1>1, <1>4, OpenStep DEF RoomFor

\* Expiry closes the open rows of offers and offers the seat.
LEMMA ExpireStep ==
    ASSUME OvertimeInv, NEW t \in Tx, NEW R \in SUBSET DOMAIN rows,
           \A i \in R : rows[i].status \in Nonterminal,
           NEW O \in SUBSET Offers, NEW ok,
           Open(t, "expire", ExpiredView(Expired(O), R, ok), O, Expired(O), {})
    PROVE  OvertimeInv'
<1> DEFINE closed == [i \in DOMAIN rows |->
                        IF i \in R THEN Decide(rows[i], "invalidated") ELSE rows[i]]
<1>1. Typed
  BY DEF OvertimeInv
<1>2. Expired(O) \in [Offers -> OfferStatuses]
  BY <1>1 DEF Typed, Expired, OfferStatuses
<1>3. GoodView(closed) /\ QueuedAsCommitted(closed) /\ Len(closed) = Len(rows)
  <2>1. "invalidated" \in Terminal \ {"decision_expired"}
    BY DEF Terminal
  <2> QED
    BY <1>1, <2>1, ClosedView
<1>4. ExpiredView(Expired(O), R, ok) = IF R = {} THEN rows
                                       ELSE promote_next_for_owner(closed, Expired(O), ok)
  BY DEF ExpiredView
<1> HIDE DEF closed
<1>5. /\ GoodView(ExpiredView(Expired(O), R, ok))
      /\ Len(ExpiredView(Expired(O), R, ok)) = Len(rows)
  BY <1>1, <1>3, <1>4, PromotedView, CommittedView
<1> QED
  <2>1. "expire" \in Ops
    BY DEF Ops
  <2> QED
    BY <1>2, <1>5, <2>1, OpenStep DEF RoomFor

\* create_overtime_request: a row is inserted behind the queue.
LEMMA CreateStep ==
    ASSUME OvertimeInv, NEW t \in Tx, NEW o \in Offers, NEW q \in Requesters, Create(t, o, q)
    PROVE  OvertimeInv'
<1> DEFINE new(r) == [offer |-> o, requester |-> q, seq |-> _next_queue_sequence(rows),
                      status |-> "queued", received |-> r, deadline |-> 0, decided |-> 0]
<1>1. PICK received \in 0..now, ok \in Reachable :
        /\ Len(rows) + Cardinality(Inserting) < MaxRows
        /\ Open(t, "create", promote_next_for_owner(Append(rows, new(received)), ostatus, ok),
                {o}, ostatus, {q})
  BY DEF Create, Inserting
<1>2. Typed /\ rows \in Seq(Row) /\ Len(rows) \in Nat /\ DOMAIN rows = 1..Len(rows)
      /\ now \in 0..MaxTime /\ ostatus \in [Offers -> OfferStatuses]
  BY DEF OvertimeInv, Typed
<1>3. _next_queue_sequence(rows) \in 1..(Len(rows) + 1)
  <2> DEFINE S == {0} \cup {rows[i].seq : i \in DOMAIN rows}
  <2>1. \A i \in DOMAIN rows : rows[i].seq \in 0..Len(rows)
    <3> SUFFICES ASSUME NEW i \in DOMAIN rows PROVE rows[i].seq \in 0..Len(rows)
      OBVIOUS
    <3>1. rows[i].seq \in 1..MaxRows
      <4>1. rows[i] \in Row
        BY <1>2
      <4> QED
        BY <4>1 DEF Row
    <3>2. rows[i].seq <= Len(rows)
      BY DEF OvertimeInv, SequenceBounded
    <3> QED
      BY <1>2, <3>1, <3>2, OvertimeAssumption
  <2>2. S \in SUBSET (0..Len(rows)) /\ S # {}
    BY <1>2, <2>1
  <2>3. Max(S) \in S
    BY <1>2, <2>2, MaxOfBounded
  <2>4. Max(S) \in 0..Len(rows)
    BY <2>2, <2>3
  <2> HIDE DEF S
  <2>5. _next_queue_sequence(rows) = 1 + Max(S)
    BY DEF _next_queue_sequence, S
  <2> QED
    BY <1>2, <2>4, <2>5
<1>4. Cardinality(Inserting) \in Nat
  BY InsertingCount DEF Inserting
<1>5. _next_queue_sequence(rows) \in 1..MaxRows
  BY <1>1, <1>2, <1>3, <1>4, OvertimeAssumption
<1>6. /\ new(received) \in Row
      /\ new(received).seq \in 1..(Len(rows) + 1)
  <2>1. received \in 0..MaxTime /\ 0 \in 0..MaxTime /\ 0 \in 0..(MaxTime + DecisionTicks)
    BY <1>2, OvertimeAssumption
  <2> QED
    BY <1>3, <1>5, <2>1 DEF Row, Nonterminal
<1> DEFINE a == Append(rows, new(received))
<1> HIDE DEF new
<1>7. /\ a \in Seq(Row) /\ Len(a) = Len(rows) + 1 /\ a[Len(rows) + 1] = new(received)
      /\ \A i \in DOMAIN rows : a[i] = rows[i]
  BY <1>2, <1>6, AppendProperties
<1>8. GoodView(a) /\ QueuedAsCommitted(a)
  BY <1>2, <1>6, <1>7 DEF GoodView, QueuedAsCommitted
<1> HIDE DEF a
<1>9. GoodView(promote_next_for_owner(a, ostatus, ok))
  BY <1>2, <1>8, PromotedView
<1> QED
  <2>1. "create" \in Ops /\ {o} \in SUBSET Offers /\ {q} \in SUBSET Requesters
    BY DEF Ops
  <2>2. Open(t, "create", promote_next_for_owner(a, ostatus, ok), {o}, ostatus, {q})
    BY <1>1 DEF a
  <2> QED
    BY <1>1, <1>2, <1>9, <2>1, <2>2, OpenStep DEF RoomFor

\* The owner, the requester, an account that is closed, a delivery that fails.
LEMMA ClosingStep ==
    ASSUME OvertimeInv, NEW t \in Tx,
           \/ \E i \in DOMAIN rows :
                 Cancel(t, i) \/ Reject(t, i) \/ Approve(t, i) \/ DeliveryExpired(t, i)
           \/ \E q \in Requesters : RequesterClosed(t, q)
    PROVE  OvertimeInv'
<1>1. /\ rows \in Seq(Row) /\ ostatus \in [Offers -> OfferStatuses]
      /\ \A i \in DOMAIN rows : rows[i].offer \in Offers
  <2>1. rows \in Seq(Row) /\ ostatus \in [Offers -> OfferStatuses]
    BY DEF OvertimeInv, Typed
  <2>2. \A i \in DOMAIN rows : rows[i] \in Row
    BY <2>1
  <2> QED
    BY <2>1, <2>2 DEF Row
<1>2. {"cancelled", "rejected", "invalidated", "completed"} \subseteq Terminal \ {"decision_expired"}
  BY DEF Terminal
<1> DEFINE names == {"cancel", "reject", "approve", "refuse", "user", "stale"}
<1>3. names \subseteq Ops
  BY DEF Ops
<1>4. ASSUME NEW op \in names, NEW R \in SUBSET DOMAIN rows,
             \A i \in R : rows[i].status \in Nonterminal,
             NEW s \in {"cancelled", "rejected", "invalidated", "completed"},
             NEW O \in SUBSET Offers, NEW os \in [Offers -> OfferStatuses],
             CloseAndPromote(t, op, R, s, O, os)
      PROVE  OvertimeInv'
  <2>1. op \in Ops /\ s \in Terminal \ {"decision_expired"}
    BY <1>3, <1>2
  <2> QED
    BY <1>4, <2>1, CloseStep
<1>5. ASSUME NEW i \in DOMAIN rows, Cancel(t, i) PROVE OvertimeInv'
  <2>1. /\ rows[i].status \in Nonterminal
        /\ CloseAndPromote(t, "cancel", {i}, "cancelled", {}, ostatus)
    BY <1>5 DEF Cancel
  <2> QED
    BY <1>1, <1>4, <2>1
<1>6. ASSUME NEW i \in DOMAIN rows, Reject(t, i) PROVE OvertimeInv'
  <2>1. rows[i].status \in Nonterminal
    BY <1>6 DEF Reject, OwnerMayDecide, Nonterminal, Occupying
  <2>2. CloseAndPromote(t, "reject", {i}, "rejected", {}, ostatus)
    BY <1>6 DEF Reject
  <2> QED
    BY <1>1, <1>4, <2>1, <2>2
<1>7. ASSUME NEW i \in DOMAIN rows, DeliveryExpired(t, i) PROVE OvertimeInv'
  <2>1. rows[i].status \in Nonterminal
    BY <1>7 DEF DeliveryExpired, Nonterminal, Occupying
  <2>2. CloseAndPromote(t, "stale", {i}, "invalidated", {}, ostatus)
    BY <1>7 DEF DeliveryExpired
  <2> QED
    BY <1>1, <1>4, <2>1, <2>2
<1>8. ASSUME NEW i \in DOMAIN rows, Approve(t, i) PROVE OvertimeInv'
  <2>1. rows[i].status \in Nonterminal
    BY <1>8 DEF Approve, OwnerMayDecide, Nonterminal, Occupying
  <2>2. \A s \in {"completed", "expired", "active"} :
          [ostatus EXCEPT ![rows[i].offer] = s] \in [Offers -> OfferStatuses]
    BY <1>1 DEF OfferStatuses
  <2>3. {rows[i].offer} \in SUBSET Offers
    BY <1>1
  <2>4. \/ \E s \in {"completed", "expired", "active"} :
              CloseAndPromote(t, "approve", {i}, "completed", {rows[i].offer},
                              [ostatus EXCEPT ![rows[i].offer] = s])
        \/ CloseAndPromote(t, "refuse", {i}, "invalidated", {rows[i].offer}, ostatus)
    BY <1>8 DEF Approve
  <2>5. ASSUME NEW s \in {"completed", "expired", "active"},
               CloseAndPromote(t, "approve", {i}, "completed", {rows[i].offer},
                               [ostatus EXCEPT ![rows[i].offer] = s])
        PROVE  OvertimeInv'
    BY <1>4, <2>1, <2>2, <2>3, <2>5
  <2>6. CASE CloseAndPromote(t, "refuse", {i}, "invalidated", {rows[i].offer}, ostatus)
    BY <1>1, <1>4, <2>1, <2>3, <2>6
  <2> QED
    BY <2>4, <2>5, <2>6
<1>9. ASSUME NEW q \in Requesters, RequesterClosed(t, q) PROVE OvertimeInv'
  <2>1. /\ OpenOf(rows, q) \in SUBSET DOMAIN rows
        /\ \A i \in OpenOf(rows, q) : rows[i].status \in Nonterminal
    BY DEF OpenOf, WithStatus
  <2>2. CloseAndPromote(t, "user", OpenOf(rows, q), "invalidated", {}, ostatus)
    BY <1>9 DEF RequesterClosed
  <2> QED
    BY <1>1, <1>4, <2>1, <2>2
<1> QED
  BY <1>5, <1>6, <1>7, <1>8, <1>9

\* Telegram has the message: the request is in front of its owner.
LEMMA DeliverStep ==
    ASSUME OvertimeInv, NEW t \in Tx, NEW i \in DOMAIN rows, Deliver(t, i)
    PROVE  OvertimeInv'
<1> DEFINE view == [rows EXCEPT ![i] = Presented(rows[i])]
<1>1. /\ rows \in Seq(Row) /\ DOMAIN rows = 1..Len(rows) /\ now \in 0..MaxTime
      /\ ostatus \in [Offers -> OfferStatuses] /\ rows[i] \in Row
      /\ rows[i].status = "delivering"
  BY DEF OvertimeInv, Typed, Deliver
<1>2. Presented(rows[i]) \in Row /\ MayBecome(rows[i], Presented(rows[i]))
  BY <1>1, RowOps, RowChanges DEF Nonterminal, Occupying
<1>3. view \in Seq(Row) /\ Len(view) = Len(rows)
  BY <1>1, <1>2, ExceptSeq
<1>4. GoodView(view)
  <2>1. \A k \in DOMAIN rows : view[k] = rows[k] \/ MayBecome(rows[k], view[k])
    BY <1>1, <1>2
  <2>2. Len(rows) \in Nat
    BY <1>1
  <2> HIDE DEF view
  <2> QED
    BY <1>3, <2>1, <2>2 DEF GoodView
<1>5. Open(t, "deliver", view, {}, ostatus, {})
  BY DEF Deliver
<1> HIDE DEF view
<1> QED
  <2>1. "deliver" \in Ops /\ {} \in SUBSET Offers /\ {} \in SUBSET Requesters
    BY DEF Ops
  <2> QED
    BY <1>1, <1>3, <1>4, <1>5, <2>1, OpenStep DEF RoomFor

\* The sweep times out overdue rows and asks for a promotion over the rows as
\* they are committed.
LEMMA SweepStep ==
    ASSUME OvertimeInv, NEW t \in Tx, Sweep(t)
    PROVE  OvertimeInv'
<1> DEFINE due == {i \in DOMAIN rows : Overdue(rows[i]) /\ RowsFree(t, {i})}
           seen(ok) == IF due \cap WithStatus(rows, {"presented"}) = {} THEN rows
                       ELSE promote_next_for_owner(rows, ostatus, ok)
           view(ok) == [i \in DOMAIN rows |-> IF i \in due THEN ClosedOverdue(rows[i])
                                              ELSE seen(ok)[i]]
<1>1. PICK ok \in Reachable : Open(t, "sweep", view(ok), {}, ostatus, {})
  BY DEF Sweep
<1>2. /\ Typed /\ rows \in Seq(Row) /\ DOMAIN rows = 1..Len(rows) /\ Len(rows) \in Nat
      /\ now \in 0..MaxTime /\ ostatus \in [Offers -> OfferStatuses]
  BY DEF OvertimeInv, Typed
<1>3. GoodView(seen(ok)) /\ Len(seen(ok)) = Len(rows)
  BY <1>2, CommittedView, PromotedView
<1> HIDE DEF seen
<1>4. ASSUME NEW i \in due
      PROVE  ClosedOverdue(rows[i]) \in Row /\ MayBecome(rows[i], ClosedOverdue(rows[i]))
  <2>1. rows[i] \in Row /\ Overdue(rows[i]) /\ rows[i].status \in Nonterminal
    BY <1>2 DEF Overdue, Nonterminal, Occupying
  <2> QED
    BY <1>2, <2>1, RowChanges
<1>5. due \subseteq DOMAIN rows
  OBVIOUS
<1> HIDE DEF due
<1>6. \A i \in DOMAIN rows : seen(ok)[i] \in Row
  <2>1. seen(ok) \in Seq(Row) /\ DOMAIN seen(ok) = 1..Len(seen(ok))
    BY <1>3 DEF GoodView
  <2> QED
    BY <1>2, <1>3, <2>1
<1>7. view(ok) \in [DOMAIN rows -> Row]
  BY <1>4, <1>6
<1>8. view(ok) \in Seq(Row) /\ Len(view(ok)) = Len(rows)
  BY <1>2, <1>7, SameLength
<1>9. \A i \in DOMAIN rows : view(ok)[i] = rows[i] \/ MayBecome(rows[i], view(ok)[i])
  BY <1>3, <1>4 DEF GoodView
<1> HIDE DEF view
<1>10. GoodView(view(ok))
  BY <1>2, <1>8, <1>9, ChangedView
<1> QED
  <2>1. "sweep" \in Ops /\ {} \in SUBSET Offers /\ {} \in SUBSET Requesters
    BY DEF Ops
  <2> QED
    BY <1>1, <1>2, <1>8, <1>10, <2>1, OpenStep DEF RoomFor

\* The operator's reconciliation closes rows of dead offers and overdue rows, and
\* gives the seat to the head of the queue.
LEMMA ReconcileStep ==
    ASSUME OvertimeInv, NEW t \in Tx, Reconcile(t)
    PROVE  OvertimeInv'
<1> DEFINE bad == {i \in WithStatus(rows, Nonterminal) :
                     \/ ostatus[rows[i].offer] # "active"
                     \/ rows[i].status = "queued" /\ now >= Final[rows[i].offer]}
           due == {i \in DOMAIN rows : Overdue(rows[i])}
           queued == WithStatus(rows, {"queued"})
           head == {i \in queued : /\ bad # {} /\ WithStatus(rows, Occupying) = {}
                                   /\ \A j \in queued \ {i} : Before(rows, i, j)}
           view(ok) == [i \in DOMAIN rows |->
                          CASE i \in bad -> Decide(rows[i], "invalidated")
                            [] i \in due \ bad -> ClosedOverdue(rows[i])
                            [] i \in head -> IF ok THEN Seat(rows[i])
                                             ELSE Decide(rows[i], "invalidated")
                            [] OTHER -> rows[i]]
<1>1. PICK ok \in Reachable : Open(t, "reconcile", view(ok), {}, ostatus, {})
  BY DEF Reconcile
<1>2. /\ Typed /\ rows \in Seq(Row) /\ DOMAIN rows = 1..Len(rows) /\ Len(rows) \in Nat
      /\ now \in 0..MaxTime /\ ostatus \in [Offers -> OfferStatuses]
  BY DEF OvertimeInv, Typed
<1>3. \A i \in bad : i \in DOMAIN rows /\ rows[i].status \in Nonterminal
  BY DEF WithStatus
<1>4. \A i \in due : i \in DOMAIN rows /\ Overdue(rows[i]) /\ rows[i].status \in Nonterminal
  BY DEF Overdue, Nonterminal, Occupying
<1>5. \A i \in head : i \in DOMAIN rows /\ rows[i].status = "queued"
  BY DEF WithStatus
<1>6. \A i \in head : i \notin bad /\ i \notin due
  <2>1. ASSUME NEW i \in head PROVE i \notin bad
    <3>1. ostatus[rows[i].offer] = "active" /\ now < Final[rows[i].offer]
      BY DEF Reconcile, Promotable
    <3>2. rows[i] \in Row
      BY <1>2, <1>5
    <3>3. rows[i].offer \in Offers
      BY <3>2 DEF Row
    <3>4. now \in Int /\ Final[rows[i].offer] \in Int
      BY <1>2, <3>3, OvertimeAssumption
    <3>5. ~(now >= Final[rows[i].offer])
      BY <3>1, <3>4
    <3> QED
      BY <3>1, <3>5
  <2>2. ASSUME NEW i \in head PROVE i \notin due
    BY <1>5 DEF Overdue
  <2> QED
    BY <2>1, <2>2
<1> HIDE DEF bad, due, head, queued
<1>7. ASSUME NEW i \in DOMAIN rows
      PROVE  view(ok)[i] \in Row /\ (view(ok)[i] = rows[i] \/ MayBecome(rows[i], view(ok)[i]))
  <2>1. rows[i] \in Row /\ "invalidated" \in Terminal \ {"decision_expired"}
    BY <1>2 DEF Terminal
  <2>2. CASE i \in bad
    <3>1. view(ok)[i] = Decide(rows[i], "invalidated")
      BY <1>6, <2>2
    <3> QED
      BY <1>2, <1>3, <2>1, <2>2, <3>1, RowOps, RowChanges
  <2>3. CASE i \in due \ bad
    <3>1. view(ok)[i] = ClosedOverdue(rows[i])
      BY <1>6, <2>3
    <3> QED
      BY <1>2, <1>4, <2>1, <2>3, <3>1, RowChanges
  <2>4. CASE i \in head /\ i \notin bad /\ i \notin due
    <3>1. view(ok)[i] = Seat(rows[i]) \/ view(ok)[i] = Decide(rows[i], "invalidated")
      BY <2>4
    <3>2. rows[i].status \in Nonterminal
      BY <1>5, <2>4 DEF Nonterminal
    <3> QED
      BY <1>2, <1>5, <2>1, <2>4, <3>1, <3>2, RowOps, RowChanges
  <2>5. CASE i \notin bad /\ i \notin due /\ i \notin head
    <3>1. view(ok)[i] = rows[i]
      BY <2>5
    <3> QED
      BY <2>1, <3>1
  <2> QED
    BY <2>2, <2>3, <2>4, <2>5
<1>8. view(ok) \in [DOMAIN rows -> Row]
  <2>1. view(ok) = [i \in DOMAIN rows |-> view(ok)[i]]
    OBVIOUS
  <2> HIDE DEF view
  <2> QED
    BY <1>7, <2>1
<1> HIDE DEF view
<1>9. view(ok) \in Seq(Row) /\ Len(view(ok)) = Len(rows)
  BY <1>2, <1>8, SameLength
<1>10. GoodView(view(ok))
  <2>1. \A i \in DOMAIN rows : view(ok)[i] = rows[i] \/ MayBecome(rows[i], view(ok)[i])
    BY <1>7
  <2> QED
    BY <1>2, <1>9, <2>1, ChangedView
<1> QED
  <2>1. "reconcile" \in Ops /\ {} \in SUBSET Offers /\ {} \in SUBSET Requesters
    BY DEF Ops
  <2> QED
    BY <1>1, <1>2, <1>9, <1>10, <2>1, OpenStep DEF RoomFor

-----------------------------------------------------------------------------
(* Sessions that write nothing, and the end of a transaction               *)

\* A session with nothing open.
LEMMA IdleSession ==
    /\ Idle \in Sessions
    /\ Idle.ins = <<>> /\ DOMAIN Idle.upd = {} /\ Idle.rowLocks = {}
<1>1. <<>> \in [{} -> Row] /\ <<>> \in [{} -> OfferStatuses] /\ DOMAIN <<>> = {}
  OBVIOUS
<1>2. <<>> \in RowWrites /\ <<>> \in OfferWrites /\ <<>> \in Seq(Row)
  <2>1. {} \in SUBSET Nat /\ {} \in SUBSET Offers
    OBVIOUS
  <2>2. [{} -> Row] \in {[D -> Row] : D \in SUBSET Nat}
        /\ [{} -> OfferStatuses] \in {[O -> OfferStatuses] : O \in SUBSET Offers}
    BY <2>1
  <2>3. <<>> \in RowWrites
    BY <1>1, <2>2 DEF RowWrites
  <2>4. <<>> \in OfferWrites
    BY <1>1, <2>2 DEF OfferWrites
  <2> QED
    BY <2>3, <2>4, EmptySeq
<1>3. "idle" \in Ops /\ {} \in SUBSET Nat /\ {} \in SUBSET Offers /\ {} \in SUBSET Requesters
  BY DEF Ops
<1>4. /\ Idle.ins = <<>> /\ Idle.upd = <<>> /\ Idle.rowLocks = {}
  BY DEF Idle
<1> QED
  BY <1>1, <1>2, <1>3, <1>4 DEF Idle, Sessions

\* A session that holds locks on open rows and no writes.
LEMMA EmptySessionStep ==
    ASSUME OvertimeInv, NEW t \in Tx, NEW s \in Sessions, s.ins = <<>>, DOMAIN s.upd = {},
           s.rowLocks \subseteq DOMAIN rows,
           \A i \in s.rowLocks : rows[i].status \in Nonterminal,
           RowsFree(t, s.rowLocks), tx' = [tx EXCEPT ![t] = s],
           UNCHANGED <<rows, ostatus, sent, now>>
    PROVE  OvertimeInv'
<1>1. /\ tx \in [Tx -> Sessions] /\ tx' \in [Tx -> Sessions] /\ tx'[t] = s
      /\ \A u \in Tx : u # t => tx'[u] = tx[u]
  BY DEF OvertimeInv, Typed
<1>2. Typed'
  BY <1>1 DEF OvertimeInv, Typed
<1>3. SequenceBounded'
  BY <1>1 DEF OvertimeInv, SequenceBounded
<1>4. RoomForInserts'
  <2>1. Inserting \in SUBSET Tx /\ Inserting' \in SUBSET Inserting
    BY <1>1 DEF Inserting
  <2>2. /\ Cardinality(Inserting) \in Nat /\ Cardinality(Inserting') \in Nat
        /\ Cardinality(Inserting') <= Cardinality(Inserting)
    BY <2>1, InsertingCount
  <2>3. Len(rows) \in Nat
    BY DEF OvertimeInv, Typed
  <2>4. \A u \in Tx : Len(tx[u].ins)' <= 1
    BY <1>1, EmptySeq DEF OvertimeInv, RoomForInserts
  <2> QED
    BY <2>2, <2>3, <2>4, OvertimeAssumption DEF OvertimeInv, RoomForInserts
<1>5. WritesAreLocked'
  BY <1>1 DEF OvertimeInv, WritesAreLocked, RowsFree, Others
<1>6. WritesAreCurrent'
  BY <1>1 DEF OvertimeInv, WritesAreCurrent, MayBecome
<1> QED
  BY <1>2, <1>3, <1>4, <1>5, <1>6 DEF OvertimeInv

\* The scan for offers to expire and its retry, a rolled back transaction.
LEMMA QuietSessionStep ==
    ASSUME OvertimeInv, NEW t \in Tx, ExpiryScan(t) \/ ExpiryRetry(t) \/ Abort(t)
    PROVE  OvertimeInv'
<1>1. CASE ExpiryScan(t)
  <2> DEFINE O == {o \in Offers : Due(o)}
             open == WithStatus(rows, Nonterminal) \cap OnOffer(rows, O)
             f == [o \in O |-> "expired"]
             s == [Idle EXCEPT !.op = "scanned", !.offers = f, !.rowLocks = open]
  <2>1. /\ tx' = [tx EXCEPT ![t] = s] /\ RowsFree(t, open)
        /\ UNCHANGED <<rows, ostatus, sent, now>>
    BY <1>1 DEF ExpiryScan
  <2>2. open \subseteq DOMAIN rows /\ \A i \in open : rows[i].status \in Nonterminal
    BY DEF WithStatus
  <2>3. open \subseteq Nat
    BY <2>2 DEF OvertimeInv, Typed
  <2>4. f \in OfferWrites
    <3>1. O \in SUBSET Offers /\ f \in [O -> OfferStatuses]
      BY DEF OfferStatuses
    <3> QED
      BY <3>1 DEF OfferWrites
  <2> HIDE DEF open, f
  <2>5. s \in Sessions /\ s.ins = <<>> /\ DOMAIN s.upd = {} /\ s.rowLocks = open
    <3>1. "scanned" \in Ops
      BY DEF Ops
    <3>2. Idle \in Sessions /\ Idle.ins = <<>> /\ DOMAIN Idle.upd = {}
      BY IdleSession
    <3> QED
      BY <2>3, <2>4, <3>1, <3>2 DEF Sessions
  <2> HIDE DEF s
  <2> QED
    BY <2>1, <2>2, <2>5, EmptySessionStep
<1>2. CASE ExpiryRetry(t) \/ Abort(t)
  <2>1. tx' = [tx EXCEPT ![t] = Idle] /\ UNCHANGED <<rows, ostatus, sent, now>>
    BY <1>2 DEF ExpiryRetry, Abort
  <2>2. RowsFree(t, Idle.rowLocks)
    BY IdleSession DEF RowsFree
  <2> QED
    BY <2>1, <2>2, IdleSession, EmptySessionStep
<1> QED
  BY <1>1, <1>2

\* The owner's expiry, and the flush of the scan's.
LEMMA ExpiryStep ==
    ASSUME OvertimeInv, NEW t \in Tx,
           (\E o \in Offers : ExpireByOwner(t, o)) \/ ExpiryFlush(t)
    PROVE  OvertimeInv'
<1>1. ASSUME NEW o \in Offers, ExpireByOwner(t, o) PROVE OvertimeInv'
  <2> DEFINE open == WithStatus(rows, Nonterminal) \cap OnOffer(rows, {o})
  <2>1. PICK ok \in Reachable :
          Open(t, "expire", ExpiredView(Expired({o}), open, ok), {o}, Expired({o}), {})
    BY <1>1 DEF ExpireByOwner
  <2>2. open \in SUBSET DOMAIN rows /\ \A i \in open : rows[i].status \in Nonterminal
    BY DEF WithStatus
  <2> HIDE DEF open
  <2> QED
    BY <2>1, <2>2, ExpireStep
<1>2. CASE ExpiryFlush(t)
  <2> DEFINE O == DOMAIN tx[t].offers
             R == tx[t].rowLocks
  <2>1. PICK ok \in Reachable :
          Open(t, "expire", ExpiredView(Expired(O), R, ok), O, Expired(O), {})
    BY <1>2 DEF ExpiryFlush
  <2>2. R \in SUBSET DOMAIN rows /\ \A i \in R : rows[i].status \in Nonterminal
    BY DEF OvertimeInv, WritesAreLocked, WritesAreCurrent
  <2>3. O \in SUBSET Offers
    <3>1. tx[t].offers \in OfferWrites
      BY DEF OvertimeInv, Typed, Sessions
    <3> QED
      BY <3>1 DEF OfferWrites
  <2> HIDE DEF O, R
  <2> QED
    BY <2>1, <2>2, <2>3, ExpireStep
<1> QED
  BY <1>1, <1>2

\* A commit writes what the session decided on locked rows and appends its insert.
LEMMA CommittedRows ==
    ASSUME OvertimeInv, NEW t \in Tx
    PROVE  /\ AfterCommit(t) \in Seq(Row)
           /\ Len(AfterCommit(t)) = Len(rows) + Len(tx[t].ins)
           /\ \A i \in DOMAIN rows :
                 /\ i \in tx[t].rowLocks \/ AfterCommit(t)[i] = rows[i]
                 /\ AfterCommit(t)[i] = rows[i] \/ MayBecome(rows[i], AfterCommit(t)[i])
           /\ \A i \in DOMAIN AfterCommit(t) \ DOMAIN rows :
                 AfterCommit(t)[i].seq <= Len(rows) + 1
<1> DEFINE n == Len(rows)
           k == Len(tx[t].ins)
           c == AfterCommit(t)
<1>1. /\ rows \in Seq(Row) /\ n \in Nat /\ DOMAIN rows = 1..n
      /\ tx[t] \in Sessions
  BY DEF OvertimeInv, Typed
<1>2. /\ tx[t].ins \in Seq(Row) /\ k \in Nat /\ DOMAIN tx[t].ins = 1..k
  BY <1>1 DEF Sessions
<1>3. /\ \A i \in DOMAIN tx[t].upd : tx[t].upd[i] \in Row
      /\ DOMAIN tx[t].upd \subseteq tx[t].rowLocks /\ tx[t].rowLocks \subseteq DOMAIN rows
  <2>1. tx[t].upd \in RowWrites
    BY <1>1 DEF Sessions
  <2>2. PICK D \in SUBSET Nat : tx[t].upd \in [D -> Row]
    BY <2>1 DEF RowWrites
  <2>3. \A i \in DOMAIN tx[t].upd : tx[t].upd[i] \in Row
    BY <2>2
  <2> QED
    BY <2>3 DEF OvertimeInv, WritesAreLocked
<1>4. c = [i \in 1..(n + k) |-> IF i \in DOMAIN tx[t].upd THEN tx[t].upd[i]
                               ELSE IF i \in DOMAIN rows THEN rows[i] ELSE tx[t].ins[i - n]]
  BY DEF AfterCommit
<1>5. \A i \in 1..(n + k) : i \notin DOMAIN rows => i - n \in DOMAIN tx[t].ins
  BY <1>1, <1>2
<1>6. \A i \in 1..(n + k) :
        c[i] = IF i \in DOMAIN tx[t].upd THEN tx[t].upd[i]
               ELSE IF i \in DOMAIN rows THEN rows[i] ELSE tx[t].ins[i - n]
  BY <1>4
<1>7. \A i \in 1..(n + k) : c[i] \in Row
  BY <1>1, <1>2, <1>3, <1>5, <1>6
<1>8. c \in [1..(n + k) -> Row] /\ DOMAIN c = 1..(n + k)
  BY <1>4, <1>7
<1> HIDE DEF c
<1>9. c \in Seq(Row) /\ Len(c) = n + k
  BY <1>1, <1>2, <1>8
<1>10. ASSUME NEW i \in DOMAIN rows
       PROVE  /\ i \in tx[t].rowLocks \/ c[i] = rows[i]
              /\ c[i] = rows[i] \/ MayBecome(rows[i], c[i])
  <2>1. i \in 1..(n + k)
    BY <1>1, <1>2
  <2> QED
    BY <1>3, <1>6, <2>1 DEF OvertimeInv, WritesAreCurrent
<1>11. ASSUME NEW i \in DOMAIN c \ DOMAIN rows PROVE c[i].seq <= n + 1
  <2>1. c[i] = tx[t].ins[i - n] /\ i - n \in DOMAIN tx[t].ins
    BY <1>3, <1>5, <1>6, <1>8
  <2> QED
    BY <2>1 DEF OvertimeInv, SequenceBounded
<1> QED
  BY <1>9, <1>10, <1>11 DEF c

\* A commit keeps the invariant: it touches no row another session has locked.
LEMMA CommitStep ==
    ASSUME OvertimeInv, NEW t \in Tx, Commit(t)
    PROVE  OvertimeInv'
<1> DEFINE n == Len(rows)
<1>1. /\ rows' \in Seq(Row) /\ Len(rows') = n + Len(tx[t].ins)
      /\ \A i \in DOMAIN rows :
            /\ i \in tx[t].rowLocks \/ rows'[i] = rows[i]
            /\ rows'[i] = rows[i] \/ MayBecome(rows[i], rows'[i])
      /\ \A i \in DOMAIN rows' \ DOMAIN rows : rows'[i].seq <= n + 1
  BY CommittedRows DEF Commit
<1>2. /\ rows \in Seq(Row) /\ n \in Nat /\ DOMAIN rows = 1..n /\ tx \in [Tx -> Sessions]
      /\ \A u \in Tx : tx[u].ins \in Seq(Row) /\ Len(tx[u].ins) \in Nat /\ Len(tx[u].ins) <= 1
      /\ sent' = sent /\ now' = now
  BY DEF OvertimeInv, Typed, Sessions, RoomForInserts, Commit
<1>3. /\ tx'[t] = Idle
      /\ \A u \in Tx : u # t =>
            /\ tx'[u] \in Sessions
            /\ tx'[u].upd = tx[u].upd /\ tx'[u].ins = tx[u].ins
            /\ tx'[u].rowLocks = tx[u].rowLocks
  <2>1. \A u \in Tx : tx'[u] = IF u = t THEN Idle
                               ELSE IF tx[u].op = "scanned" /\ Touched(t) \cap DOMAIN tx[u].offers # {}
                                    THEN [tx[u] EXCEPT !.stale = TRUE] ELSE tx[u]
    BY DEF Commit
  <2>2. \A s \in Sessions : LET r == [s EXCEPT !.stale = TRUE]
                            IN  /\ r \in Sessions /\ r.upd = s.upd /\ r.ins = s.ins
                                /\ r.rowLocks = s.rowLocks
    BY DEF Sessions
  <2> QED
    BY <1>2, <2>1, <2>2
<1>4. tx' \in [Tx -> Sessions]
  <2>1. tx' = [u \in Tx |-> tx'[u]]
    BY DEF Commit
  <2> QED
    BY <1>3, <2>1, IdleSession
<1>5. Typed'
  <2>1. tx[t].offers \in OfferWrites
    BY <1>2 DEF Sessions
  <2>2. ostatus' \in [Offers -> OfferStatuses]
    BY <2>1 DEF OvertimeInv, Typed, Commit, OfferWrites
  <2> QED
    BY <1>1, <1>2, <1>4, <2>2 DEF OvertimeInv, Typed
<1>6. DOMAIN rows' = 1..Len(rows') /\ Len(rows') \in Nat /\ n <= Len(rows')
      /\ DOMAIN rows \subseteq DOMAIN rows'
  BY <1>1, <1>2
<1>7. SequenceBounded'
  <2>1. \A i \in DOMAIN rows : rows[i].seq <= n /\ rows[i].seq \in Nat /\ rows'[i].seq = rows[i].seq
    <3>1. \A i \in DOMAIN rows : rows[i] \in Row
      BY <1>2
    <3>2. \A i \in DOMAIN rows : rows[i].seq \in Nat
      BY <3>1, OvertimeAssumption DEF Row
    <3>3. \A i \in DOMAIN rows : rows'[i].seq = rows[i].seq
      BY <1>1 DEF MayBecome
    <3> QED
      BY <3>2, <3>3 DEF OvertimeInv, SequenceBounded
  <2>2. ASSUME NEW i \in DOMAIN rows' PROVE rows'[i].seq <= Len(rows')
    <3>1. CASE i \in DOMAIN rows
      BY <1>2, <1>6, <2>1, <3>1
    <3>2. CASE i \notin DOMAIN rows
      <4>1. Len(tx[t].ins) = 1
        <5>1. i \in 1..(n + Len(tx[t].ins)) /\ i \notin 1..n
          BY <1>1, <1>2, <1>6, <3>2
        <5>2. Len(tx[t].ins) \in Nat /\ Len(tx[t].ins) <= 1 /\ n \in Nat
          BY <1>2
        <5> HIDE DEF n
        <5> QED
          BY <5>1, <5>2, OneMore
      <4>2. rows'[i].seq <= n + 1 /\ rows'[i].seq \in Int
        <5>1. rows'[i] \in Row
          BY <1>1, <1>6
        <5>2. rows'[i].seq \in Int
          BY <5>1, OvertimeAssumption DEF Row
        <5> QED
          BY <1>1, <3>2, <5>2
      <4> QED
        BY <1>1, <1>2, <4>1, <4>2
    <3> QED
      BY <3>1, <3>2
  <2>3. ASSUME NEW u \in Tx, NEW k \in DOMAIN tx'[u].ins
        PROVE  tx'[u].ins[k].seq <= Len(rows') + 1
    <3>1. u # t
      BY <1>3, <2>3, IdleSession
    <3>2. tx'[u].ins = tx[u].ins
      BY <1>3, <3>1
    <3>3. tx[u].ins[k].seq <= n + 1 /\ tx[u].ins[k].seq \in Int
      <4>1. k \in DOMAIN tx[u].ins /\ tx[u].ins \in Seq(Row)
        BY <1>2, <3>2
      <4>2. tx[u].ins[k] \in Row
        BY <4>1
      <4>3. tx[u].ins[k].seq \in Int
        BY <4>2, OvertimeAssumption DEF Row
      <4> QED
        BY <4>1, <4>3 DEF OvertimeInv, SequenceBounded
    <3> QED
      BY <1>2, <1>6, <3>2, <3>3
  <2> QED
    BY <2>2, <2>3 DEF SequenceBounded
<1>8. RoomForInserts'
  <2>1. Inserting \in SUBSET Tx /\ Inserting' = Inserting \ {t}
    BY <1>3, IdleSession DEF Inserting
  <2>2. \A u \in Tx : Len(tx[u].ins)' <= 1
    BY <1>2, <1>3, IdleSession, EmptySeq
  <2>3. Cardinality(Inserting) \in Nat /\ Cardinality(Inserting') \in Nat
        /\ Cardinality(Inserting') <= Cardinality(Inserting)
    BY <2>1, InsertingCount
  <2>4. n + Cardinality(Inserting) <= MaxRows
    BY DEF OvertimeInv, RoomForInserts
  <2>5. CASE tx[t].ins = <<>>
    <3>1. Len(rows') = n
      BY <1>1, <1>2, <2>5
    <3> QED
      BY <1>2, <2>2, <2>3, <2>4, <3>1, OvertimeAssumption DEF RoomForInserts
  <2>6. CASE tx[t].ins # <<>>
    <3>1. Cardinality(Inserting') = Cardinality(Inserting) - 1
      BY <2>1, <2>6, InsertingCount DEF Inserting
    <3> QED
      BY <1>1, <1>2, <2>2, <2>3, <2>4, <3>1, OvertimeAssumption DEF RoomForInserts
  <2> QED
    BY <2>5, <2>6
<1>9. WritesAreLocked'
  BY <1>3, <1>6, IdleSession DEF OvertimeInv, WritesAreLocked
<1>10. WritesAreCurrent'
  <2>1. ASSUME NEW u \in Tx, u # t, NEW i \in tx[u].rowLocks PROVE rows'[i] = rows[i]
    BY <1>1, <2>1 DEF OvertimeInv, WritesAreLocked
  <2>2. ASSUME NEW u \in Tx, u # t
        PROVE  /\ \A i \in tx'[u].rowLocks : rows'[i].status \in Nonterminal
               /\ \A i \in DOMAIN tx'[u].upd : MayBecome(rows'[i], tx'[u].upd[i])
    BY <1>3, <2>1, <2>2 DEF OvertimeInv, WritesAreCurrent, WritesAreLocked
  <2> QED
    BY <1>3, <2>2, IdleSession DEF WritesAreCurrent
<1> QED
  BY <1>5, <1>7, <1>8, <1>9, <1>10 DEF OvertimeInv

\* The clock and the acceptance of a message by Telegram.
LEMMA OutsideStep ==
    ASSUME OvertimeInv, Tick \/ \E i \in DOMAIN rows : Dispatch(i)
    PROVE  OvertimeInv'
<1>1. UNCHANGED <<rows, ostatus, tx>> /\ sent' \subseteq 1..MaxRows /\ now' \in 0..MaxTime
  <2>1. CASE Tick
    BY <2>1, OvertimeAssumption DEF Tick, OvertimeInv, Typed
  <2>2. ASSUME NEW i \in DOMAIN rows, Dispatch(i)
        PROVE  UNCHANGED <<rows, ostatus, tx, now>> /\ sent' \subseteq 1..MaxRows
    <3>1. Cardinality(Inserting) \in Nat
      BY InsertingCount DEF Inserting
    <3>2. rows \in Seq(Row) /\ Len(rows) \in Nat /\ Len(rows) <= MaxRows
      BY <3>1, OvertimeAssumption DEF OvertimeInv, Typed, RoomForInserts
    <3>3. i \in 1..MaxRows
      BY <3>2, OvertimeAssumption
    <3> QED
      BY <2>2, <3>3 DEF Dispatch, OvertimeInv, Typed
  <2> QED
    BY <2>1, <2>2 DEF OvertimeInv, Typed
<1>2. Typed'
  BY <1>1 DEF OvertimeInv, Typed
<1>3. SequenceBounded' /\ RoomForInserts' /\ WritesAreLocked' /\ WritesAreCurrent'
  BY <1>1 DEF OvertimeInv, SequenceBounded, RoomForInserts, Inserting, WritesAreLocked,
              WritesAreCurrent, MayBecome
<1> QED
  BY <1>2, <1>3 DEF OvertimeInv

\* Every step keeps the invariant.
LEMMA OvertimeStep == OvertimeInv /\ [Next]_vars => OvertimeInv'
<1> SUFFICES ASSUME OvertimeInv, [Next]_vars PROVE OvertimeInv'
  OBVIOUS
<1>1. CASE UNCHANGED vars
  BY <1>1 DEF vars, OvertimeInv, Typed, SequenceBounded, RoomForInserts, Inserting,
              WritesAreLocked, WritesAreCurrent, MayBecome
<1>2. CASE Next
  BY <1>2, CreateStep, ClosingStep, DeliverStep, SweepStep, ReconcileStep,
     QuietSessionStep, ExpiryStep, CommitStep, OutsideStep DEF Next
<1> QED
  BY <1>1, <1>2

\* No rows, all offers open, no session.
LEMMA OvertimeStart == Init => OvertimeInv
<1> SUFFICES ASSUME Init PROVE OvertimeInv
  OBVIOUS
<1>1. rows = <<>> /\ rows \in Seq(Row) /\ Len(rows) = 0 /\ DOMAIN rows = {}
  BY EmptySeq DEF Init
<1>2. \A t \in Tx : tx[t] = Idle
  BY DEF Init
<1>3. Typed
  <2>1. tx \in [Tx -> Sessions]
    BY IdleSession DEF Init
  <2> QED
    BY <1>1, <2>1, OvertimeAssumption DEF Init, Typed, OfferStatuses
<1>4. SequenceBounded /\ WritesAreLocked /\ WritesAreCurrent
  BY <1>1, <1>2, IdleSession DEF SequenceBounded, WritesAreLocked, WritesAreCurrent
<1>5. RoomForInserts
  <2>1. Inserting = {}
    BY <1>2, IdleSession DEF Inserting
  <2>2. Cardinality(Inserting) = 0
    BY <2>1, FS_EmptySet
  <2> QED
    BY <1>1, <1>2, <2>2, IdleSession, EmptySeq, OvertimeAssumption DEF RoomForInserts
<1> QED
  BY <1>3, <1>4, <1>5 DEF OvertimeInv

LEMMA OvertimeInvariant == Spec => []OvertimeInv
BY OvertimeStart, OvertimeStep, PTL DEF Spec

-----------------------------------------------------------------------------
(* Theorems                                                                *)

\* Rows, pending writes and locks are well formed, and no more rows are created
\* than the bound allows.
THEOREM OvertimeTypeCorrect == Spec => []TypeOK
<1>1. OvertimeInv => TypeOK
  <2> SUFFICES ASSUME OvertimeInv PROVE TypeOK
    OBVIOUS
  <2>1. Cardinality(Inserting) \in Nat
    BY InsertingCount DEF Inserting
  <2>2. rows \in Seq(Row) /\ Len(rows) <= MaxRows
    BY <2>1, OvertimeAssumption DEF OvertimeInv, Typed, RoomForInserts
  <2>3. ASSUME NEW t \in Tx
        PROVE  /\ tx[t].rowLocks \subseteq DOMAIN rows
               /\ DOMAIN tx[t].upd \subseteq DOMAIN rows
               /\ \A i \in DOMAIN tx[t].upd : tx[t].upd[i] \in Row
               /\ \A i \in DOMAIN tx[t].ins : tx[t].ins[i] \in Row
               /\ tx[t].offerLocks \subseteq Offers
               /\ tx[t].userLocks \subseteq Requesters
    <3>1. tx[t] \in Sessions
      BY DEF OvertimeInv, Typed
    <3>2. /\ tx[t].upd \in RowWrites /\ tx[t].ins \in Seq(Row)
          /\ tx[t].offerLocks \subseteq Offers /\ tx[t].userLocks \subseteq Requesters
      BY <3>1 DEF Sessions
    <3> QED
      BY <3>2 DEF RowWrites, OvertimeInv, WritesAreLocked
  <2> QED
    BY <2>2, <2>3 DEF TypeOK, OvertimeInv, Typed, OfferStatuses
<1> QED
  BY <1>1, OvertimeInvariant, PTL

\* Only a commit changes rows, and only as the rows may become.
LEMMA RowsStep ==
    ASSUME OvertimeInv, [Next]_vars, NEW i \in DOMAIN rows
    PROVE  rows'[i] = rows[i] \/ MayBecome(rows[i], rows'[i])
<1>1. ASSUME NEW t \in Tx, Commit(t)
      PROVE  rows'[i] = rows[i] \/ MayBecome(rows[i], rows'[i])
  BY <1>1, CommittedRows DEF Commit
<1>2. CASE UNCHANGED vars
  BY <1>2 DEF vars
<1>3. CASE Next
  <2>1. CASE Tick \/ \E k \in DOMAIN rows : Dispatch(k)
    BY <2>1 DEF Tick, Dispatch
  <2>2. ASSUME NEW t \in Tx, NEW o \in Offers, NEW q \in Requesters, Create(t, o, q)
        PROVE  rows' = rows
    BY <2>2 DEF Create, Open
  <2>3. ASSUME NEW t \in Tx, NEW k \in DOMAIN rows,
               Cancel(t, k) \/ Reject(t, k) \/ Approve(t, k)
        PROVE  rows' = rows
    BY <2>3 DEF Cancel, Reject, Approve, CloseAndPromote, Open
  <2>4. ASSUME NEW t \in Tx, NEW k \in DOMAIN rows, Deliver(t, k) \/ DeliveryExpired(t, k)
        PROVE  rows' = rows
    BY <2>4 DEF Deliver, DeliveryExpired, CloseAndPromote, Open
  <2>5. ASSUME NEW t \in Tx, Sweep(t) \/ Reconcile(t)
        PROVE  rows' = rows
    BY <2>5 DEF Sweep, Reconcile, Open
  <2>6. ASSUME NEW t \in Tx, ExpiryScan(t) \/ ExpiryFlush(t) \/ ExpiryRetry(t) \/ Abort(t)
        PROVE  rows' = rows
    BY <2>6 DEF ExpiryScan, ExpiryFlush, ExpiryRetry, Abort, Open
  <2>7. ASSUME NEW t \in Tx, NEW q \in Requesters, RequesterClosed(t, q) PROVE rows' = rows
    BY <2>7 DEF RequesterClosed, CloseAndPromote, Open
  <2>8. ASSUME NEW t \in Tx, NEW o \in Offers, ExpireByOwner(t, o) PROVE rows' = rows
    BY <2>8 DEF ExpireByOwner, Open
  <2> QED
    BY <1>1, <1>3, <2>1, <2>2, <2>3, <2>4, <2>5, <2>6, <2>7, <2>8 DEF Next
<1> QED
  BY <1>2, <1>3

\* A decision stands: whoever closes a request row, no session that read it
\* earlier overwrites it.
THEOREM DecisionsStand == Spec => DecisionsAreFinal
<1>1. OvertimeInv /\ [Next]_vars =>
        [\A i \in DOMAIN rows : rows[i].status \in Terminal => rows'[i] = rows[i]]_vars
  BY RowsStep DEF MayBecome, Terminal, Nonterminal, Occupying
<1> QED
  BY <1>1, OvertimeInvariant, PTL DEF Spec, DecisionsAreFinal

\* The deadline of a request in front of its owner does not move, and the sweep
\* or the operator times it out only after it.
THEOREM WindowIsKept == Spec => DecisionWindowKept
<1>1. OvertimeInv /\ [Next]_vars =>
        [\A i \in DOMAIN rows :
           rows[i].status = "presented" =>
             /\ rows'[i].status = "presented" => rows'[i].deadline = rows[i].deadline
             /\ rows'[i].status = "decision_expired" =>
                    rows'[i].decided >= rows[i].deadline]_vars
  BY RowsStep DEF MayBecome
<1> QED
  BY <1>1, OvertimeInvariant, PTL DEF Spec, DecisionWindowKept
=============================================================================
