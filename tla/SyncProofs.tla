----------------------------- MODULE SyncProofs ----------------------------
(***************************************************************************)
(* Theorems about what the two servers exchange: OfferReplica, for any     *)
(* offers, any number of change_log rows, timeouts and refusals; and       *)
(* CounterSync, for any sessions, events and retries.                      *)
(***************************************************************************)
EXTENDS OfferReplica, CounterSync, SequenceTheorems, FiniteSetTheorems,
        WellFoundedInduction, TLAPS

-----------------------------------------------------------------------------
(* Offers: OfferReplica                                                     *)

LogRow == [offer : Offers, version : Nat \ {0}, status : {"active"} \cup Terminal]

Progress == [state : {"pending", "resting", "quarantined", "synced"},
             attempts : 0..MaxAttempts]

\* The foreign row that stores the post on top of row i
Posted(i) == [version |-> log[i].version + 1, status |-> log[i].status, change |-> i]

Typed ==
    /\ offer \in [Offers -> Row]
    /\ log \in Seq(LogRow)
    /\ Len(log) <= MaxRows
    /\ delivery \in Seq(Progress)
    /\ Len(delivery) = Len(log)
    /\ replica \in [Offers -> Row]
    /\ mark \in [Offers -> 0..MaxRows]
    /\ back \in [Offers -> Row]
    /\ returned \subseteq Offers
    /\ post \in [Senders -> SUBSET (1..MaxRows)]
    /\ lane \in [Senders -> {"none", "oldest", "newest", "all"}]
    /\ net \subseteq Requests
    /\ answer \in [Senders -> {"none", "success", "partial"}]
    /\ case \in Cases
    /\ failures \in 0..case.failures
    /\ refusals \in 0..case.refusals

\* The rows of an offer tell a history: versions grow, only the last may close it
History ==
    \A i, j \in Ids :
        log[i].offer = log[j].offer /\ i < j =>
            log[i].version < log[j].version /\ log[i].status = "active"

\* The offer with last row k is what that row says; or it is the foreign row, if that
\* came back and is no older: then k is the row it was written on, or is open too
OfferIs(o, k) ==
    \/ offer[o] = Content(k) /\ (o \in returned => back[o].change # k)
    \/ /\ o \in returned
       /\ offer[o] = back[o]
       /\ back[o].version >= log[k].version
       /\ log[k].status \in Terminal => back[o].change = k

OfferIsLastRow ==
    \A o \in Offers :
        \/ RowsOf(o) = {} /\ offer[o] = Absent
        \/ \E k \in RowsOf(o) : (\A j \in RowsOf(o) : j <= k) /\ OfferIs(o, k)

\* The foreign copy is what the row at the watermark says, with the post or without
ReplicaIsMark ==
    \A o \in Offers :
        \/ mark[o] = 0 /\ replica[o] = Absent /\ back[o] = Absent
        \/ /\ mark[o] \in RowsOf(o)
           /\ replica[o] = IF back[o].change = mark[o] THEN back[o] ELSE Content(mark[o])

\* The post was stored on top of a row that had been applied
BackIsPost ==
    \A o \in Offers :
        \/ back[o] = Absent /\ o \notin returned
        \/ /\ back[o].change \in RowsOf(o)
           /\ back[o].change <= mark[o]
           /\ back[o] = Posted(back[o].change)

\* A live request carries the rows its sender waits for, and has no answer yet
LiveIsWaited ==
    /\ \A d \in Senders : post[d] \subseteq Ids
    /\ \A d \in Senders : answer[d] # "none" => post[d] # {}
    /\ \A m \in net : m.rows \subseteq Ids
    /\ \A m \in net : m.live => /\ m.rows = post[m.by]
                                /\ m.rows # {}
                                /\ answer[m.by] = "none"

\* The peer says success, and a row is marked, only once its watermark has it
MarkCovers ==
    /\ \A d \in Senders : answer[d] = "success" =>
          \A i \in post[d] : mark[log[i].offer] >= i
    /\ \A i \in Ids : delivery[i].state = "synced" => mark[log[i].offer] >= i

ReplicaInv ==
    /\ Typed
    /\ History
    /\ OfferIsLastRow
    /\ ReplicaIsMark
    /\ BackIsPost
    /\ LiveIsWaited
    /\ MarkCovers

-----------------------------------------------------------------------------
(* The operators.                                                          *)

\* A set of row ids that is not empty has one last member.
LEMMA LastMember ==
    ASSUME NEW n \in Nat, NEW S \in SUBSET (1..n), S # {}
    PROVE  \E i \in S : Last(S) = {i} /\ \A j \in S : j <= i
<1> DEFINE T == {n - x : x \in S}
           R == OpToRel(<, Nat)
<1>1. T \subseteq Nat
  OBVIOUS
<1>2. T # {}
  <2>1. PICK x \in S : TRUE
    OBVIOUS
  <2>2. n - x \in T
    OBVIOUS
  <2> QED
    BY <2>2
<1>3. IsWellFoundedOn(R, Nat)
  BY NatLessThanWellFounded
<1> HIDE DEF R
<1>4. PICK m \in T : \A y \in T : ~ (<<y, m>> \in R)
  BY <1>1, <1>2, <1>3, WFMin
<1>5. \A y \in T : ~(y < m)
  BY <1>1, <1>4 DEF R, OpToRel
<1>6. PICK x \in S : m = n - x
  OBVIOUS
<1>7. \A y \in S : y <= x
  BY <1>5, <1>6
<1>8. \A y \in S : (\A z \in S : z <= y) => y = x
  BY <1>7
<1>9. Last(S) = {x}
  BY <1>7, <1>8, Zenon DEF Last
<1> QED
  BY <1>7, <1>9

\* What the change_log holds, row by row.
LEMMA LogFacts ==
    ASSUME Typed
    PROVE  /\ Len(log) \in Nat
           /\ Ids \subseteq 1..MaxRows
           /\ \A i \in Ids : /\ log[i] \in LogRow
                             /\ delivery[i] \in Progress
                             /\ log[i].offer \in Offers
                             /\ i \in RowsOf(log[i].offer)
                             /\ Content(i) \in Row
<1>1. /\ Len(log) \in Nat
      /\ Ids \subseteq 1..MaxRows
  BY ConstantsAssumption DEF Typed, Ids
<1>2. \A i \in Ids : log[i] \in LogRow /\ delivery[i] \in Progress
  BY DEF Typed, Ids
<1> QED
  BY <1>1, <1>2, ConstantsAssumption DEF RowsOf, LogRow, Content, Row, Status

\* The receiver's transaction, seen by one offer: the watermark and the foreign
\* copy move together to the newest row of the offer in the request, or stay.
LEMMA ReceiveEffect ==
    ASSUME Typed, History, ReplicaIsMark, BackIsPost, NEW o \in Offers, NEW rows \in SUBSET Ids
    PROVE  /\ Watermark(o, rows) \in 0..MaxRows
           /\ Applied(o, rows) \in Row
           /\ \A i \in rows : log[i].offer = o => Watermark(o, rows) >= i
           /\ \/ Watermark(o, rows) = mark[o] /\ Applied(o, rows) = replica[o]
              \/ /\ Watermark(o, rows) \in RowsOf(o)
                 /\ Watermark(o, rows) > mark[o]
                 /\ Applied(o, rows) = Content(Watermark(o, rows))
                 /\ Applied(o, rows).version >= replica[o].version
                 /\ replica[o].status \notin Terminal
<1>1. /\ mark[o] \in 0..MaxRows /\ replica[o] \in Row /\ MaxRows \in Nat
      /\ mark[o] \in Nat
      /\ Ids \subseteq 1..MaxRows
  BY ConstantsAssumption, LogFacts DEF Typed
<1>2. CASE Above(o, rows) = {}
  <2>1. Watermark(o, rows) = mark[o] /\ Applied(o, rows) = replica[o]
    BY <1>2 DEF Watermark, Applied
  <2>2. \A i \in rows : log[i].offer = o => mark[o] >= i
    <3> SUFFICES ASSUME NEW i \in rows, log[i].offer = o, ~(mark[o] >= i) PROVE FALSE
      OBVIOUS
    <3>1. i \in Nat /\ i \in RowsOf(o)
      BY <1>1 DEF RowsOf
    <3>2. i \in Above(o, rows)
      BY <1>1, <3>1 DEF Above
    <3> QED
      BY <1>2, <3>2
  <2> QED
    BY <1>1, <2>1, <2>2
<1>3. CASE Above(o, rows) # {}
  <2>1. Above(o, rows) \in SUBSET (1..MaxRows)
    BY <1>1 DEF Above
  <2>2. PICK k \in Above(o, rows) : Last(Above(o, rows)) = {k} /\ \A j \in Above(o, rows) : j <= k
    BY <1>1, <1>3, <2>1, LastMember
  <2>3. (CHOOSE i \in Last(Above(o, rows)) : TRUE) = k
    BY <2>2
  <2>4. Watermark(o, rows) = k
    BY <1>3, <2>3 DEF Watermark
  <2>5. /\ k \in RowsOf(o) /\ k \in Ids /\ k \in 1..MaxRows /\ k > mark[o]
        /\ log[k].offer = o /\ Content(k) \in Row
    BY <1>1, LogFacts DEF Above, RowsOf
  <2>6. log[k].version \in Nat \ {0}
    BY <2>5, LogFacts DEF LogRow
  <2>7. /\ replica[o].version <= log[k].version
        /\ replica[o].status \notin Terminal
    <3>1. CASE mark[o] = 0 /\ replica[o] = Absent
      BY <2>6, <3>1 DEF Absent, Terminal
    <3>2. CASE /\ mark[o] \in RowsOf(o)
               /\ replica[o] = IF back[o].change = mark[o] THEN back[o] ELSE Content(mark[o])
      <4>1. mark[o] \in Ids /\ log[mark[o]].offer = log[k].offer /\ mark[o] < k
        BY <1>1, <2>5, <3>2 DEF RowsOf
      <4>2. log[mark[o]].version < log[k].version /\ log[mark[o]].status = "active"
        BY <2>5, <4>1 DEF History
      <4>3. log[mark[o]].version \in Nat
        BY <4>1, LogFacts DEF LogRow
      <4>4. replica[o] = Content(mark[o]) \/ replica[o] = Posted(mark[o])
        <5>1. CASE back[o].change = mark[o]
          <6>1. back[o] # Absent
            BY <1>1, <4>1, <5>1 DEF Absent
          <6> QED
            BY <3>2, <5>1, <6>1 DEF BackIsPost
        <5> QED
          BY <3>2, <5>1
      <4> QED
        BY <2>6, <4>2, <4>3, <4>4 DEF Content, Posted, Terminal
    <3> QED
      BY <3>1, <3>2 DEF ReplicaIsMark
  <2>8. replica[o].version \in Nat
    BY <1>1 DEF Row
  <2>9. ~Stale(replica[o], Content(k))
    BY <2>6, <2>7, <2>8 DEF Stale, Content
  <2>10. Applied(o, rows) = Content(k)
    BY <1>3, <2>3, <2>9 DEF Applied
  <2>11. \A i \in rows : log[i].offer = o => k >= i
    <3> SUFFICES ASSUME NEW i \in rows, log[i].offer = o
                 PROVE  k >= i
      OBVIOUS
    <3>1. i \in 1..MaxRows /\ i \in RowsOf(o)
      BY <1>1 DEF RowsOf
    <3>2. CASE i > mark[o]
      BY <2>2, <2>5, <3>1, <3>2 DEF Above
    <3>3. CASE ~(i > mark[o])
      BY <1>1, <2>5, <3>1, <3>3
    <3> QED
      BY <3>2, <3>3
  <2>12. Content(k).version >= replica[o].version
    BY <2>6, <2>7, <2>8 DEF Content
  <2>13. k \in 0..MaxRows
    BY <2>5
  <2> QED
    BY <2>4, <2>5, <2>7, <2>10, <2>11, <2>12, <2>13
<1> QED
  BY <1>2, <1>3

-----------------------------------------------------------------------------
(* The invariant holds at first and every action keeps it.                 *)

\* Nothing is logged, sent or marked at first.
LEMMA InitReplicaInv == Init => ReplicaInv
<1> SUFFICES ASSUME Init PROVE ReplicaInv
  OBVIOUS
<1>1. Absent \in Row /\ Len(log) = 0 /\ Ids = {} /\ case.failures \in Nat /\ case.refusals \in Nat
  BY ConstantsAssumption DEF Init, Absent, Row, Status, Ids, CaseType
<1>2. Typed
  BY <1>1, ConstantsAssumption DEF Init, Typed
<1>3. History /\ OfferIsLastRow /\ ReplicaIsMark /\ BackIsPost
  BY <1>1 DEF Init, History, OfferIsLastRow, ReplicaIsMark, BackIsPost, RowsOf, Absent
<1>4. LiveIsWaited /\ MarkCovers
  BY <1>1 DEF Init, LiveIsWaited, MarkCovers
<1> QED
  BY <1>2, <1>3, <1>4 DEF ReplicaInv

\* A committed change adds the next row of its offer and sends nothing.
LEMMA CommitStep ==
    ASSUME ReplicaInv, NEW o \in Offers, NEW s \in Status,
           offer[o].status \notin Terminal,
           s \in {"active"} \cup Terminal,
           offer[o].status = "none" \/ offer[o].status = "active",
           Commit(o, s)
    PROVE  ReplicaInv'
<1>0. PICK n : n = Len(log)
  OBVIOUS
<1> DEFINE new == [version |-> offer[o].version + 1, status |-> s, change |-> n + 1]
           row == [offer |-> o, version |-> new.version, status |-> s]
           fresh == [state |-> "pending", attempts |-> 0]
<1>1. /\ Typed /\ History /\ OfferIsLastRow /\ ReplicaIsMark /\ BackIsPost /\ LiveIsWaited
      /\ MarkCovers
  BY DEF ReplicaInv
<1>2. /\ n \in Nat /\ n < MaxRows /\ MaxRows \in Nat
      /\ offer[o] \in Row
      /\ log \in Seq(LogRow) /\ delivery \in Seq(Progress) /\ Len(delivery) = n
  BY <1>0, <1>1, ConstantsAssumption DEF Typed, Commit, CaseType
<1>3. offer[o].version \in Nat /\ offer[o].version + 1 \in Nat \ {0}
  BY <1>2 DEF Row
<1>4. row \in LogRow /\ new \in Row /\ fresh \in Progress
  BY <1>2, <1>3, ConstantsAssumption DEF LogRow, Row, Progress
<1>5. /\ offer' = [offer EXCEPT ![o] = new]
      /\ log' = Append(log, row)
      /\ delivery' = Append(delivery, fresh)
      /\ UNCHANGED <<case, replica, mark, back, returned, post, lane, net, answer, failures,
                     refusals>>
  BY <1>0 DEF Commit
<1> HIDE DEF row, fresh
<1>6. /\ log' \in Seq(LogRow) /\ Len(log') = n + 1 /\ log'[n + 1] = row
      /\ \A i \in 1..n : log'[i] = log[i]
  BY <1>0, <1>2, <1>4, <1>5
<1>7. /\ delivery' \in Seq(Progress) /\ Len(delivery') = n + 1 /\ delivery'[n + 1] = fresh
      /\ \A i \in 1..n : delivery'[i] = delivery[i]
  BY <1>0, <1>2, <1>4, <1>5
<1>8. /\ Ids = 1..n /\ Ids' = 1..(n + 1) /\ n + 1 \in Ids'
      /\ \A i \in Ids' : i # n + 1 => i \in Ids
      /\ \A i \in Ids : i \in Ids' /\ i < n + 1 /\ i # n + 1
  BY <1>0, <1>2, <1>6 DEF Ids
<1>9. row.offer = o /\ row.version = offer[o].version + 1 /\ row.status = s
  BY DEF row
<1>10. Typed'
  <2>1. offer' \in [Offers -> Row]
    BY <1>1, <1>4, <1>5 DEF Typed
  <2>2. Len(log') <= MaxRows
    BY <1>2, <1>6
  <2> QED
    BY <1>1, <1>5, <1>6, <1>7, <2>1, <2>2 DEF Typed
<1>11. \A p \in Offers : /\ p # o => RowsOf(p)' = RowsOf(p)
                         /\ RowsOf(o)' = RowsOf(o) \cup {n + 1}
  BY <1>6, <1>8, <1>9 DEF RowsOf
<1>12. \A i \in Ids : log'[i] = log[i] /\ Content(i)' = Content(i)
  BY <1>6, <1>8 DEF Content
<1>13. Content(n + 1)' = new
  BY <1>6, <1>9 DEF Content
<1>14. \A i \in RowsOf(o) : log[i].version <= offer[o].version /\ log[i].status = "active"
  <2> SUFFICES ASSUME NEW i \in RowsOf(o)
               PROVE  log[i].version <= offer[o].version /\ log[i].status = "active"
    OBVIOUS
  <2>1. PICK k \in RowsOf(o) : (\A j \in RowsOf(o) : j <= k) /\ OfferIs(o, k)
    BY <1>1 DEF OfferIsLastRow
  <2>2. /\ i \in Ids /\ k \in Ids /\ log[i].offer = log[k].offer /\ i <= k
        /\ i \in Nat /\ k \in Nat
    BY <1>2, <1>8, <2>1 DEF RowsOf
  <2>3. /\ log[i].version \in Nat /\ log[k].version \in Nat
        /\ log[k].status \in {"active"} \cup Terminal
    BY <1>1, <2>2, LogFacts DEF LogRow
  <2>4. log[k].version <= offer[o].version /\ log[k].status = "active"
    <3>1. CASE offer[o] = Content(k)
      BY <2>3, <3>1 DEF Content, Terminal
    <3>2. CASE /\ o \in returned /\ offer[o] = back[o] /\ back[o].version >= log[k].version
               /\ log[k].status \in Terminal => back[o].change = k
      <4>1. back[o] = Posted(back[o].change)
        BY <1>1, <3>2 DEF BackIsPost
      <4>2. log[k].status \in Terminal => offer[o].status = log[k].status
        BY <3>2, <4>1 DEF Posted
      <4> QED
        BY <1>3, <2>3, <3>2, <4>2
    <3> QED
      BY <2>1, <3>1, <3>2 DEF OfferIs
  <2>5. CASE i = k
    BY <2>4, <2>5
  <2>6. CASE i < k
    BY <1>1, <1>3, <2>2, <2>3, <2>4, <2>6 DEF History
  <2> QED
    BY <2>2, <2>5, <2>6
<1>15. History'
  <2> SUFFICES ASSUME NEW i \in Ids', NEW j \in Ids', log'[i].offer = log'[j].offer, i < j
               PROVE  log'[i].version < log'[j].version /\ log'[i].status = "active"
    BY DEF History
  <2>1. i \in Ids
    BY <1>2, <1>8
  <2>2. CASE j = n + 1
    <3>1. i \in RowsOf(o)
      BY <1>6, <1>9, <1>12, <2>1, <2>2 DEF RowsOf
    <3>2. log[i].version \in Nat
      BY <1>1, <2>1, LogFacts DEF LogRow
    <3> QED
      BY <1>3, <1>6, <1>9, <1>12, <1>14, <2>1, <2>2, <3>1, <3>2
  <2>3. CASE j # n + 1
    BY <1>1, <1>8, <1>12, <2>1, <2>3 DEF History
  <2> QED
    BY <2>2, <2>3
<1>16. \A p \in Offers : back'[p] = back[p] /\ back[p].change # n + 1 /\ mark[p] # n + 1
  <2> SUFFICES ASSUME NEW p \in Offers PROVE back[p].change # n + 1 /\ mark[p] # n + 1
    BY <1>5
  <2>1. mark[p] # n + 1
    BY <1>1, <1>2, <1>8 DEF ReplicaIsMark, RowsOf
  <2>2. back[p].change # n + 1
    BY <1>1, <1>2, <1>8 DEF BackIsPost, RowsOf, Absent
  <2> QED
    BY <2>1, <2>2
<1>17. OfferIsLastRow' /\ ReplicaIsMark' /\ BackIsPost'
  <2>1. ASSUME NEW p \in Offers
        PROVE  \/ RowsOf(p)' = {} /\ offer'[p] = Absent'
               \/ \E k \in RowsOf(p)' : (\A j \in RowsOf(p)' : j <= k) /\ OfferIs(p, k)'
    <3>1. CASE p = o
      <4>1. offer'[p] = new
        BY <1>1, <1>5, <3>1 DEF Typed
      <4>2. n + 1 \in RowsOf(p)' /\ \A j \in RowsOf(p)' : j <= n + 1
        BY <1>2, <1>8, <1>11, <3>1 DEF RowsOf
      <4>3. OfferIs(p, n + 1)'
        BY <1>13, <1>16, <4>1 DEF OfferIs
      <4> QED
        BY <4>2, <4>3
    <3>2. CASE p # o
      <4>1. offer'[p] = offer[p] /\ RowsOf(p)' = RowsOf(p) /\ back'[p] = back[p]
        BY <1>1, <1>5, <1>11, <3>2 DEF Typed
      <4>2. \A k \in RowsOf(p) : OfferIs(p, k) => OfferIs(p, k)'
        BY <1>5, <1>12, <4>1 DEF OfferIs, RowsOf
      <4> QED
        BY <1>1, <4>1, <4>2 DEF OfferIsLastRow, Absent
    <3> QED
      BY <3>1, <3>2
  <2>2. ASSUME NEW p \in Offers
        PROVE  \/ mark'[p] = 0 /\ replica'[p] = Absent' /\ back'[p] = Absent'
               \/ /\ mark'[p] \in RowsOf(p)'
                  /\ replica'[p] = IF back'[p].change = mark'[p] THEN back'[p]
                                   ELSE Content(mark[p])'
    <3>1. RowsOf(p) \subseteq RowsOf(p)' /\ RowsOf(p) \subseteq Ids
      BY <1>11 DEF RowsOf
    <3> QED
      BY <1>1, <1>5, <1>12, <3>1 DEF ReplicaIsMark, Absent
  <2>3. ASSUME NEW p \in Offers
        PROVE  \/ back'[p] = Absent' /\ p \notin returned'
               \/ /\ back'[p].change \in RowsOf(p)'
                  /\ back'[p].change <= mark'[p]
                  /\ back'[p] = Posted(back[p].change)'
    <3>1. RowsOf(p) \subseteq RowsOf(p)' /\ RowsOf(p) \subseteq Ids
      BY <1>11 DEF RowsOf
    <3> QED
      BY <1>1, <1>5, <1>12, <3>1 DEF BackIsPost, Absent, Posted
  <2> QED
    BY <1>5, <2>1, <2>2, <2>3 DEF OfferIsLastRow, ReplicaIsMark, BackIsPost, Content, Posted
<1>18. LiveIsWaited'
  BY <1>1, <1>5, <1>8 DEF LiveIsWaited
<1>19. MarkCovers'
  <2>1. \A d \in Senders : answer'[d] = "success" => \A i \in post'[d] : mark'[log'[i].offer] >= i
    BY <1>1, <1>5, <1>12 DEF MarkCovers, LiveIsWaited
  <2>2. \A i \in Ids' : delivery'[i].state = "synced" => mark'[log'[i].offer] >= i
    <3> SUFFICES ASSUME NEW i \in Ids', delivery'[i].state = "synced"
                 PROVE  mark'[log'[i].offer] >= i
      OBVIOUS
    <3>1. i # n + 1
      BY <1>7 DEF fresh
    <3> QED
      BY <1>1, <1>5, <1>7, <1>8, <1>12, <3>1 DEF MarkCovers
  <2> QED
    BY <2>1, <2>2 DEF MarkCovers
<1> QED
  BY <1>10, <1>15, <1>17, <1>18, <1>19 DEF ReplicaInv

\* The log, the offers and the foreign copies are as before: their part of the
\* invariant is kept.
LEMMA LogPartKept ==
    ASSUME ReplicaInv, UNCHANGED <<offer, log, replica, mark, back, returned>>
    PROVE  History' /\ OfferIsLastRow' /\ ReplicaIsMark' /\ BackIsPost' /\ Ids' = Ids
<1>1. /\ Ids' = Ids /\ (\A o : RowsOf(o)' = RowsOf(o))
      /\ \A i : Content(i)' = Content(i) /\ Posted(i)' = Posted(i)
  BY DEF Ids, RowsOf, Content, Posted
<1>2. History'
  BY <1>1 DEF ReplicaInv, History
<1>3. OfferIsLastRow' /\ ReplicaIsMark' /\ BackIsPost'
  BY <1>1 DEF ReplicaInv, OfferIsLastRow, OfferIs, ReplicaIsMark, BackIsPost, Absent
<1> QED
  BY <1>1, <1>2, <1>3

\* A sender takes rows of the change_log and waits for their answer.
LEMMA RequestStep ==
    ASSUME ReplicaInv, NEW d \in Senders, NEW l \in {"oldest", "newest", "all"},
           NEW rows \in SUBSET Ids, Request(d, l, rows)
    PROVE  ReplicaInv'
<1>1. Typed /\ LiveIsWaited /\ MarkCovers
  BY DEF ReplicaInv
<1>2. /\ post[d] = {} /\ rows # {}
      /\ post' = [post EXCEPT ![d] = rows]
      /\ lane' = [lane EXCEPT ![d] = l]
      /\ net' = net \cup {[by |-> d, rows |-> rows, live |-> TRUE]}
      /\ UNCHANGED <<case, offer, log, delivery, replica, mark, back, returned, answer,
                     failures, refusals>>
  BY DEF Request, Free
<1>3. Ids \subseteq 1..MaxRows
  BY <1>1, LogFacts
<1>4. Typed'
  <2>1. post' \in [Senders -> SUBSET (1..MaxRows)]
    BY <1>1, <1>2, <1>3 DEF Typed
  <2>2. lane' \in [Senders -> {"none", "oldest", "newest", "all"}]
    BY <1>1, <1>2 DEF Typed
  <2>3. [by |-> d, rows |-> rows, live |-> TRUE] \in Requests
    BY <1>3 DEF Requests
  <2>4. net' \subseteq Requests
    BY <1>1, <1>2, <2>3 DEF Typed
  <2> QED
    BY <1>1, <1>2, <2>1, <2>2, <2>4 DEF Typed
<1>5. History' /\ OfferIsLastRow' /\ ReplicaIsMark' /\ BackIsPost' /\ Ids' = Ids
  BY <1>2, LogPartKept
<1>6. answer[d] = "none" /\ post'[d] = rows /\ \A e \in Senders : e # d => post'[e] = post[e]
  BY <1>1, <1>2 DEF LiveIsWaited, Typed
<1>7. LiveIsWaited'
  <2>1. \A e \in Senders : post'[e] \subseteq Ids' /\ (answer'[e] # "none" => post'[e] # {})
    BY <1>1, <1>2, <1>5, <1>6 DEF LiveIsWaited
  <2>2. ASSUME NEW m \in net'
        PROVE  /\ m.rows \subseteq Ids'
               /\ m.live => m.rows = post'[m.by] /\ m.rows # {} /\ answer'[m.by] = "none"
    <3>1. CASE m \in net
      <4>1. m.by \in Senders
        BY <1>1, <3>1 DEF Typed, Requests
      <4>2. m.live => m.by # d
        BY <1>1, <1>2, <3>1 DEF LiveIsWaited
      <4> QED
        BY <1>1, <1>2, <1>5, <1>6, <3>1, <4>1, <4>2 DEF LiveIsWaited
    <3>2. CASE m = [by |-> d, rows |-> rows, live |-> TRUE]
      BY <1>2, <1>5, <1>6, <3>2
    <3> QED
      BY <1>2, <3>1, <3>2
  <2> QED
    BY <2>1, <2>2 DEF LiveIsWaited
<1>8. MarkCovers'
  BY <1>1, <1>2, <1>5, <1>6 DEF MarkCovers
<1> QED
  BY <1>4, <1>5, <1>7, <1>8 DEF ReplicaInv

\* A request is given up: it is gone, or on its way without its sender.
LEMMA TimeOutStep ==
    ASSUME ReplicaInv, NEW d \in Senders, TimeOut(d)
    PROVE  ReplicaInv'
<1> DEFINE late == {[m EXCEPT !.live = FALSE] : m \in Waiting(d)}
<1>1. Typed /\ LiveIsWaited /\ MarkCovers
  BY DEF ReplicaInv
<1>2. /\ failures' = failures + 1 /\ failures < case.failures
      /\ post' = [post EXCEPT ![d] = {}]
      /\ lane' = [lane EXCEPT ![d] = "none"]
      /\ answer' = [answer EXCEPT ![d] = "none"]
      /\ net' \subseteq (net \ Waiting(d)) \cup late
      /\ UNCHANGED <<case, offer, log, delivery, replica, mark, back, returned, refusals>>
  BY DEF TimeOut, Reset
<1>3. \A m \in late : m \in Requests /\ m.live = FALSE /\ m.rows \subseteq Ids
  <2> SUFFICES ASSUME NEW w \in Waiting(d)
               PROVE  LET m == [w EXCEPT !.live = FALSE]
                      IN m \in Requests /\ m.live = FALSE /\ m.rows \subseteq Ids
    OBVIOUS
  <2>1. w \in Requests /\ w \in net
    BY <1>1 DEF Waiting, Typed
  <2> QED
    BY <1>1, <2>1 DEF Requests, LiveIsWaited
<1> HIDE DEF late
<1>4. History' /\ OfferIsLastRow' /\ ReplicaIsMark' /\ BackIsPost' /\ Ids' = Ids
  BY <1>2, LogPartKept
<1>5. Typed'
  <2>1. post' \in [Senders -> SUBSET (1..MaxRows)] /\ failures' \in 0..case'.failures
    BY <1>1, <1>2, ConstantsAssumption DEF Typed, CaseType
  <2>2. /\ lane' \in [Senders -> {"none", "oldest", "newest", "all"}]
        /\ answer' \in [Senders -> {"none", "success", "partial"}]
    BY <1>1, <1>2 DEF Typed
  <2>3. net' \subseteq Requests
    BY <1>1, <1>2, <1>3 DEF Typed
  <2> QED
    BY <1>1, <1>2, <2>1, <2>2, <2>3 DEF Typed
<1>6. /\ post'[d] = {} /\ answer'[d] = "none"
      /\ \A e \in Senders : e # d => post'[e] = post[e] /\ answer'[e] = answer[e]
  BY <1>1, <1>2 DEF Typed
<1>7. LiveIsWaited'
  <2>1. \A e \in Senders : post'[e] \subseteq Ids' /\ (answer'[e] # "none" => post'[e] # {})
    BY <1>1, <1>4, <1>6 DEF LiveIsWaited
  <2>2. ASSUME NEW m \in net'
        PROVE  /\ m.rows \subseteq Ids'
               /\ m.live => m.rows = post'[m.by] /\ m.rows # {} /\ answer'[m.by] = "none"
    <3>1. CASE m \in net /\ m \notin Waiting(d)
      <4>1. m.by \in Senders /\ (m.live => m.by # d)
        BY <1>1, <3>1 DEF Typed, Requests, Waiting
      <4> QED
        BY <1>1, <1>4, <1>6, <3>1, <4>1 DEF LiveIsWaited
    <3>2. CASE m \in late
      BY <1>3, <1>4, <3>2
    <3> QED
      BY <1>2, <3>1, <3>2
  <2> QED
    BY <2>1, <2>2 DEF LiveIsWaited
<1>8. MarkCovers'
  BY <1>1, <1>2, <1>4, <1>6 DEF MarkCovers
<1> QED
  BY <1>4, <1>5, <1>7, <1>8 DEF ReplicaInv

\* An answer is recorded: rows are synced only where the peer said success.
LEMMA AnsweredStep ==
    ASSUME ReplicaInv, NEW d \in Senders, answer[d] # "none",
           NEW progress \in [Ids -> Progress],
           \A i \in Ids : progress[i].state = "synced" =>
               delivery[i].state = "synced" \/ (answer[d] = "success" /\ i \in post[d]),
           delivery' = progress, Reset(d),
           UNCHANGED <<case, offer, log, replica, mark, back, returned, net, failures, refusals>>
    PROVE  ReplicaInv'
<1>1. Typed /\ LiveIsWaited /\ MarkCovers
  BY DEF ReplicaInv
<1>2. /\ post' = [post EXCEPT ![d] = {}]
      /\ lane' = [lane EXCEPT ![d] = "none"]
      /\ answer' = [answer EXCEPT ![d] = "none"]
  BY DEF Reset
<1>3. History' /\ OfferIsLastRow' /\ ReplicaIsMark' /\ BackIsPost' /\ Ids' = Ids
  BY LogPartKept
<1>4. delivery' \in Seq(Progress) /\ Len(delivery') = Len(log')
  <2>1. Len(log) \in Nat /\ progress \in [1..Len(log) -> Progress]
    BY <1>1 DEF Typed, Ids
  <2> QED
    BY <2>1
<1>5. Typed'
  <2>1. post' \in [Senders -> SUBSET (1..MaxRows)]
    BY <1>1, <1>2 DEF Typed
  <2>2. /\ lane' \in [Senders -> {"none", "oldest", "newest", "all"}]
        /\ answer' \in [Senders -> {"none", "success", "partial"}]
    BY <1>1, <1>2 DEF Typed
  <2> QED
    BY <1>1, <1>4, <2>1, <2>2 DEF Typed
<1>6. /\ post'[d] = {} /\ answer'[d] = "none"
      /\ \A e \in Senders : e # d => post'[e] = post[e] /\ answer'[e] = answer[e]
  BY <1>1, <1>2 DEF Typed
<1>7. \A m \in net : m.by \in Senders /\ (m.live => m.by # d)
  BY <1>1 DEF Typed, Requests, LiveIsWaited
<1>8. LiveIsWaited'
  <2>1. \A e \in Senders : post'[e] \subseteq Ids' /\ (answer'[e] # "none" => post'[e] # {})
    BY <1>1, <1>3, <1>6 DEF LiveIsWaited
  <2>2. \A m \in net' :
           /\ m.rows \subseteq Ids'
           /\ m.live => m.rows = post'[m.by] /\ m.rows # {} /\ answer'[m.by] = "none"
    BY <1>1, <1>3, <1>6, <1>7 DEF LiveIsWaited
  <2> QED
    BY <2>1, <2>2 DEF LiveIsWaited
<1>9. MarkCovers'
  <2>1. \A e \in Senders : answer'[e] = "success" => \A i \in post'[e] : mark'[log'[i].offer] >= i
    BY <1>1, <1>6 DEF MarkCovers
  <2>2. \A i \in Ids' : delivery'[i].state = "synced" => mark'[log'[i].offer] >= i
    BY <1>1, <1>3 DEF MarkCovers
  <2> QED
    BY <2>1, <2>2 DEF MarkCovers
<1> QED
  BY <1>3, <1>5, <1>8, <1>9 DEF ReplicaInv

\* The peer took the request: its rows are marked.
LEMMA AcceptedStep ==
    ASSUME ReplicaInv, NEW d \in Senders, Accepted(d)
    PROVE  ReplicaInv'
<1> DEFINE progress == [i \in Ids |-> IF i \in Marked(post[d])
                                      THEN [delivery[i] EXCEPT !.state = "synced"]
                                      ELSE delivery[i]]
<1>1. Typed
  BY DEF ReplicaInv
<1>2. ASSUME NEW i \in Ids
      PROVE  /\ progress[i] \in Progress
             /\ progress[i].state = "synced" => delivery[i].state = "synced" \/ i \in post[d]
  <2>1. delivery[i] \in Progress
    BY <1>1, LogFacts
  <2> QED
    BY <2>1 DEF Progress, Marked
<1>3. progress \in [Ids -> Progress]
  BY <1>2
<1>4. /\ answer[d] = "success" /\ delivery' = progress /\ Reset(d)
      /\ UNCHANGED <<case, offer, log, replica, mark, back, returned, net, failures, refusals>>
  BY DEF Accepted
<1> HIDE DEF progress
<1> QED
  BY <1>2, <1>3, <1>4, AnsweredStep

\* The peer refused something: a row rests or is quarantined, none is marked.
LEMMA RefusedStep ==
    ASSUME ReplicaInv, NEW d \in Senders, Refused(d)
    PROVE  ReplicaInv'
<1>1. PICK mismatch \in BOOLEAN :
          delivery' = [i \in Ids |-> IF lane[d] = "oldest" /\ i \in post[d]
                                     THEN Refusal(delivery[i], mismatch) ELSE delivery[i]]
  BY DEF Refused
<1> DEFINE progress == [i \in Ids |-> IF lane[d] = "oldest" /\ i \in post[d]
                                      THEN Refusal(delivery[i], mismatch) ELSE delivery[i]]
<1>2. ASSUME NEW i \in Ids
      PROVE  /\ progress[i] \in Progress
             /\ progress[i].state = "synced" => delivery[i].state = "synced"
  <2>1. delivery[i] \in Progress
    BY LogFacts DEF ReplicaInv
  <2>2. /\ Refusal(delivery[i], mismatch) \in Progress
        /\ Refusal(delivery[i], mismatch).state = "synced" => delivery[i].state = "synced"
    BY <2>1, ConstantsAssumption DEF Progress, Refusal
  <2> QED
    BY <2>1, <2>2
<1>3. progress \in [Ids -> Progress]
  BY <1>2
<1>4. /\ answer[d] = "partial" /\ delivery' = progress /\ Reset(d)
      /\ UNCHANGED <<case, offer, log, replica, mark, back, returned, net, failures, refusals>>
  BY <1>1 DEF Refused
<1> HIDE DEF progress
<1> QED
  BY <1>2, <1>3, <1>4, AnsweredStep

\* A backoff ends.
LEMMA RestedStep ==
    ASSUME ReplicaInv, NEW k \in 1..MaxRows, Rested(k)
    PROVE  ReplicaInv'
<1>1. Typed /\ LiveIsWaited /\ MarkCovers
  BY DEF ReplicaInv
<1>2. /\ k \in Ids
      /\ delivery' = [delivery EXCEPT ![k].state = "pending"]
      /\ UNCHANGED <<case, offer, log, replica, mark, back, returned, post, lane, net, answer,
                     failures, refusals>>
  BY DEF Rested
<1>3. History' /\ OfferIsLastRow' /\ ReplicaIsMark' /\ BackIsPost' /\ Ids' = Ids
  BY <1>2, LogPartKept
<1>4. delivery \in Seq(Progress) /\ k \in 1..Len(delivery) /\ delivery[k] \in Progress
  BY <1>1, <1>2, LogFacts DEF Typed, Ids
<1>5. [delivery[k] EXCEPT !.state = "pending"] \in Progress
  BY <1>4 DEF Progress
<1>6. /\ delivery' \in Seq(Progress) /\ Len(delivery') = Len(delivery)
      /\ delivery'[k] = [delivery[k] EXCEPT !.state = "pending"]
      /\ \A i \in 1..Len(delivery) : i # k => delivery'[i] = delivery[i]
  BY <1>2, <1>4, <1>5
<1>7. Typed'
  BY <1>1, <1>2, <1>6 DEF Typed
<1>8. LiveIsWaited'
  BY <1>1, <1>2, <1>3 DEF LiveIsWaited
<1>9. \A i \in Ids : delivery'[i].state = "synced" => delivery[i].state = "synced"
  <2>1. delivery'[k].state = "pending"
    BY <1>4, <1>6 DEF Progress
  <2> QED
    BY <1>1, <1>6, <2>1 DEF Typed, Ids
<1>10. MarkCovers'
  BY <1>1, <1>2, <1>3, <1>9 DEF MarkCovers
<1> QED
  BY <1>3, <1>7, <1>8, <1>10 DEF ReplicaInv

\* The receiver applies a request, in time or late.
LEMMA ReceiveStep ==
    ASSUME ReplicaInv, NEW m \in net, NEW bad \in SUBSET m.rows, Receive(m, bad)
    PROVE  ReplicaInv'
<1> DEFINE rows == m.rows \ bad
           word == IF bad = {} THEN "success" ELSE "partial"
<1>1. /\ Typed /\ History /\ OfferIsLastRow /\ ReplicaIsMark /\ BackIsPost /\ LiveIsWaited
      /\ MarkCovers
  BY DEF ReplicaInv
<1>2. /\ refusals + Cardinality(bad) <= case.refusals
      /\ refusals' = refusals + Cardinality(bad)
      /\ net' = net \ {m}
      /\ replica' = [o \in Offers |-> Applied(o, rows)]
      /\ mark' = [o \in Offers |-> Watermark(o, rows)]
      /\ answer' = [answer EXCEPT ![m.by] = IF m.live THEN word ELSE @]
      /\ UNCHANGED <<case, offer, log, delivery, back, returned, post, lane, failures>>
  BY DEF Receive, Answer
<1>3. /\ m.by \in Senders /\ m.live \in BOOLEAN /\ m.rows \subseteq Ids
      /\ rows \in SUBSET Ids /\ bad \subseteq 1..MaxRows
  BY <1>1, LogFacts DEF Typed, Requests, LiveIsWaited
<1>4. /\ word \in {"success", "partial"}
      /\ word = "success" => rows = m.rows
  OBVIOUS
<1> HIDE DEF rows, word
<1>5. \A o \in Offers :
        /\ mark'[o] = Watermark(o, rows) /\ replica'[o] = Applied(o, rows)
        /\ mark'[o] \in 0..MaxRows /\ replica'[o] \in Row /\ mark[o] \in 0..MaxRows
        /\ \A i \in rows : log[i].offer = o => mark'[o] >= i
        /\ \/ mark'[o] = mark[o] /\ replica'[o] = replica[o]
           \/ /\ mark'[o] \in RowsOf(o) /\ mark'[o] > mark[o]
              /\ replica'[o] = Content(Watermark(o, rows))
  BY <1>1, <1>2, <1>3, ReceiveEffect DEF Typed
<1>6. Cardinality(bad) \in Nat
  <2>1. IsFiniteSet(1..MaxRows)
    BY FS_Interval, ConstantsAssumption
  <2> QED
    BY <1>3, <2>1, FS_Subset, FS_CardinalityType
<1>7. Typed'
  <2>1. replica' \in [Offers -> Row] /\ mark' \in [Offers -> 0..MaxRows]
    BY <1>2, <1>5
  <2>2. answer' \in [Senders -> {"none", "success", "partial"}]
    BY <1>1, <1>2, <1>4 DEF Typed
  <2>3. refusals' \in 0..case'.refusals
    BY <1>1, <1>2, <1>6, ConstantsAssumption DEF Typed, CaseType
  <2>4. net' \subseteq Requests
    BY <1>1, <1>2 DEF Typed
  <2> QED
    BY <1>1, <1>2, <2>1, <2>2, <2>3, <2>4 DEF Typed
<1>8. /\ Ids' = Ids /\ (\A o : RowsOf(o)' = RowsOf(o))
      /\ \A i : Content(i)' = Content(i) /\ Posted(i)' = Posted(i)
  BY <1>2 DEF Ids, RowsOf, Content, Posted
<1>9. History' /\ OfferIsLastRow'
  BY <1>1, <1>2, <1>8 DEF History, OfferIsLastRow, OfferIs, Absent
<1>10. ReplicaIsMark' /\ BackIsPost'
  <2>1. ASSUME NEW o \in Offers
        PROVE  \/ mark'[o] = 0 /\ replica'[o] = Absent' /\ back'[o] = Absent'
               \/ /\ mark'[o] \in RowsOf(o)'
                  /\ replica'[o] = IF back'[o].change = mark'[o] THEN back'[o]
                                   ELSE Content(mark[o])'
    <3>1. CASE mark'[o] = mark[o] /\ replica'[o] = replica[o]
      BY <1>1, <1>2, <1>5, <1>8, <3>1 DEF ReplicaIsMark, Absent, Content
    <3>2. CASE /\ mark'[o] \in RowsOf(o) /\ mark'[o] > mark[o]
               /\ replica'[o] = Content(Watermark(o, rows))
      <4>1. back[o].change # mark'[o]
        BY <1>1, <1>5, <3>2 DEF BackIsPost, Absent
      <4> QED
        BY <1>2, <1>5, <1>8, <3>2, <4>1 DEF Content
    <3> QED
      BY <1>5, <3>1, <3>2
  <2>2. ReplicaIsMark'
    BY <2>1 DEF ReplicaIsMark, Content
  <2>3. \A o \in Offers : mark'[o] >= mark[o]
    BY <1>5
  <2>4. \A o \in Offers : back[o] = Absent \/ (back[o].change \in Nat /\ back[o].change <= mark[o])
    BY <1>1 DEF BackIsPost, Typed, Row
  <2>5. \A o \in Offers : mark[o] \in Nat /\ mark'[o] \in Nat
    BY <1>5
  <2>6. BackIsPost'
    BY <1>1, <1>2, <1>8, <2>3, <2>4, <2>5 DEF BackIsPost, Absent
  <2> QED
    BY <2>2, <2>6
<1>11. \A d \in Senders : answer'[d] = IF d = m.by /\ m.live THEN word ELSE answer[d]
  BY <1>1, <1>2, <1>3 DEF Typed
<1>12. LiveIsWaited'
  <2>1. \A d \in Senders : post'[d] \subseteq Ids' /\ (answer'[d] # "none" => post'[d] # {})
    BY <1>1, <1>2, <1>3, <1>8, <1>11 DEF LiveIsWaited
  <2>2. ASSUME NEW r \in net'
        PROVE  /\ r.rows \subseteq Ids'
               /\ r.live => r.rows = post'[r.by] /\ r.rows # {} /\ answer'[r.by] = "none"
    <3>1. r \in net /\ r # m /\ r \in Requests /\ m \in Requests /\ r.by \in Senders
      BY <1>1, <1>2 DEF Typed, Requests
    <3>2. r.live => ~(r.by = m.by /\ m.live)
      <4> SUFFICES ASSUME r.live, r.by = m.by, m.live
                   PROVE  FALSE
        OBVIOUS
      <4>1. r.rows = post[r.by] /\ m.rows = post[m.by]
        BY <1>1, <3>1 DEF LiveIsWaited
      <4>2. /\ r = [by |-> r.by, rows |-> r.rows, live |-> r.live]
            /\ m = [by |-> m.by, rows |-> m.rows, live |-> m.live]
        BY <3>1 DEF Requests
      <4>3. r.live = TRUE /\ m.live = TRUE
        BY <3>1 DEF Requests
      <4> QED
        BY <3>1, <4>1, <4>2, <4>3
    <3> QED
      BY <1>1, <1>2, <1>8, <1>11, <3>1, <3>2 DEF LiveIsWaited
  <2> QED
    BY <2>1, <2>2 DEF LiveIsWaited
<1>13. \A i \in Ids : \A j \in Nat : mark[log[i].offer] >= j => mark'[log[i].offer] >= j
  <2> SUFFICES ASSUME NEW i \in Ids, NEW j \in Nat, mark[log[i].offer] >= j
               PROVE  mark'[log[i].offer] >= j
    OBVIOUS
  <2>1. log[i].offer \in Offers
    BY <1>1, LogFacts
  <2>2. mark[log[i].offer] \in 0..MaxRows
    BY <1>1, <2>1 DEF Typed
  <2> QED
    BY <1>5, <2>1, <2>2
<1>14. MarkCovers'
  <2>0. Ids \subseteq Nat
    BY <1>1, LogFacts
  <2>1. ASSUME NEW d \in Senders, answer'[d] = "success", NEW i \in post'[d]
        PROVE  mark'[log'[i].offer] >= i
    <3>1. i \in Ids /\ i \in post[d] /\ log'[i] = log[i] /\ log[i].offer \in Offers
      BY <1>1, <1>2, LogFacts DEF LiveIsWaited
    <3>2. CASE d = m.by /\ m.live
      <4>1. rows = m.rows /\ m.rows = post[d]
        BY <1>1, <1>4, <1>11, <2>1, <3>2 DEF LiveIsWaited
      <4> QED
        BY <1>5, <3>1, <4>1
    <3>3. CASE ~(d = m.by /\ m.live)
      <4>1. mark[log[i].offer] >= i
        BY <1>1, <1>11, <2>1, <3>1, <3>3 DEF MarkCovers
      <4> QED
        BY <1>13, <2>0, <3>1, <4>1
    <3> QED
      BY <3>2, <3>3
  <2>2. \A i \in Ids' : delivery'[i].state = "synced" => mark'[log'[i].offer] >= i
    BY <1>1, <1>2, <1>8, <1>13, <2>0 DEF MarkCovers
  <2> QED
    BY <2>1, <2>2 DEF MarkCovers
<1> QED
  BY <1>7, <1>9, <1>10, <1>12, <1>14 DEF ReplicaInv

\* The foreign server stores the post on its copy.
LEMMA PostStep ==
    ASSUME ReplicaInv, NEW o \in Offers, Post(o)
    PROVE  ReplicaInv'
<1>1. /\ Typed /\ History /\ OfferIsLastRow /\ ReplicaIsMark /\ BackIsPost /\ LiveIsWaited
      /\ MarkCovers
  BY DEF ReplicaInv
<1>2. /\ replica[o].status # "none" /\ back[o] = Absent
      /\ replica' = [replica EXCEPT ![o].version = @ + 1]
      /\ back' = [back EXCEPT ![o] = replica'[o]]
      /\ UNCHANGED <<case, offer, log, delivery, mark, returned, post, lane, net, answer,
                     failures, refusals>>
  BY DEF Post
<1>3. mark[o] \in RowsOf(o) /\ mark[o] \in Nat \ {0} /\ replica[o] = Content(mark[o])
  <2>1. replica[o] # Absent
    BY <1>2 DEF Absent
  <2>2. mark[o] \in RowsOf(o) /\ mark[o] \in Nat \ {0}
    BY <1>1, <2>1, LogFacts DEF ReplicaIsMark, RowsOf
  <2>3. back[o].change # mark[o]
    BY <1>2, <2>2 DEF Absent
  <2> QED
    BY <1>1, <2>1, <2>2, <2>3 DEF ReplicaIsMark
<1>4. replica[o] \in Row /\ o \notin returned
  <2>1. back[o].change \notin RowsOf(o)
    BY <1>1, <1>2, LogFacts DEF RowsOf, Absent
  <2> QED
    BY <1>1, <2>1 DEF Typed, BackIsPost
<1>5. /\ replica'[o] = Posted(mark[o]) /\ back'[o] = Posted(mark[o])
      /\ replica'[o] \in Row
      /\ \A p \in Offers : p # o => replica'[p] = replica[p] /\ back'[p] = back[p]
  <2>1. /\ replica'[o] = [replica[o] EXCEPT !.version = @ + 1] /\ back'[o] = replica'[o]
        /\ \A p \in Offers : p # o => replica'[p] = replica[p] /\ back'[p] = back[p]
    BY <1>1, <1>2 DEF Typed
  <2>2. [replica[o] EXCEPT !.version = @ + 1] = Posted(mark[o])
    BY <1>3 DEF Content, Posted
  <2>3. [replica[o] EXCEPT !.version = @ + 1] \in Row
    BY <1>4 DEF Row
  <2> QED
    BY <2>1, <2>2, <2>3
<1>6. Typed'
  <2>1. replica' \in [Offers -> Row] /\ back' \in [Offers -> Row]
    BY <1>1, <1>2, <1>5 DEF Typed
  <2> QED
    BY <1>1, <1>2, <2>1 DEF Typed
<1>7. /\ Ids' = Ids /\ (\A p : RowsOf(p)' = RowsOf(p))
      /\ \A i : Content(i)' = Content(i) /\ Posted(i)' = Posted(i)
  BY <1>2 DEF Ids, RowsOf, Content, Posted
<1>8. History'
  BY <1>1, <1>2, <1>7 DEF History
<1>9. OfferIsLastRow'
  <2>1. \A p \in Offers : \A k : OfferIs(p, k) => OfferIs(p, k)'
    BY <1>2, <1>4, <1>5, <1>7 DEF OfferIs
  <2> QED
    BY <1>1, <1>2, <1>7, <2>1 DEF OfferIsLastRow, Absent
<1>10. ReplicaIsMark' /\ BackIsPost'
  <2>1. \A p \in Offers :
          \/ mark'[p] = 0 /\ replica'[p] = Absent' /\ back'[p] = Absent'
          \/ /\ mark'[p] \in RowsOf(p)'
             /\ replica'[p] = IF back'[p].change = mark'[p] THEN back'[p] ELSE Content(mark[p])'
    BY <1>1, <1>2, <1>3, <1>5, <1>7 DEF ReplicaIsMark, Absent, Posted
  <2>2. \A p \in Offers :
          \/ back'[p] = Absent' /\ p \notin returned'
          \/ /\ back'[p].change \in RowsOf(p)'
             /\ back'[p].change <= mark'[p]
             /\ back'[p] = Posted(back'[p].change)
    <3> SUFFICES ASSUME NEW p \in Offers
                 PROVE  \/ back'[p] = Absent' /\ p \notin returned'
                        \/ /\ back'[p].change \in RowsOf(p)'
                           /\ back'[p].change <= mark'[p]
                           /\ back'[p] = Posted(back'[p].change)
      OBVIOUS
    <3>1. CASE p = o
      <4>1. back'[p].change = mark[p]
        BY <1>5, <3>1 DEF Posted
      <4> QED
        BY <1>2, <1>3, <1>5, <1>7, <3>1, <4>1
    <3>2. CASE p # o
      BY <1>1, <1>2, <1>5, <1>7, <3>2 DEF BackIsPost, Absent
    <3> QED
      BY <3>1, <3>2
  <2> QED
    BY <1>2, <2>1, <2>2 DEF ReplicaIsMark, BackIsPost, Content, Posted
<1>11. LiveIsWaited' /\ MarkCovers'
  BY <1>1, <1>2, <1>7 DEF LiveIsWaited, MarkCovers
<1> QED
  BY <1>6, <1>8, <1>9, <1>10, <1>11 DEF ReplicaInv

\* The foreign row against Iran's: written on the last row it is newer and is taken;
\* written on an earlier one it is taken only at the same version, and while the
\* offer is open.
LEMMA BackEffect ==
    ASSUME ReplicaInv, NEW o \in Offers, back[o] # Absent, o \notin returned
    PROVE  \E k \in RowsOf(o) :
              /\ \A j \in RowsOf(o) : j <= k
              /\ offer[o] = Content(k)
              /\ offer[o] \in Row /\ back[o] \in Row
              /\ \/ Stale(offer[o], back[o]) /\ back[o].change # k
                 \/ /\ ~Stale(offer[o], back[o])
                    /\ back[o].version >= log[k].version
                    /\ log[k].status \in Terminal => /\ back[o].change = k
                                                     /\ back[o].status = log[k].status
<1>1. Typed /\ History /\ OfferIsLastRow /\ BackIsPost
  BY DEF ReplicaInv
<1> DEFINE c == back[o].change
<1>2. c \in RowsOf(o) /\ back[o] = Posted(c)
  BY <1>1 DEF BackIsPost
<1>3. PICK k \in RowsOf(o) : (\A j \in RowsOf(o) : j <= k) /\ OfferIs(o, k)
  BY <1>1, <1>2 DEF OfferIsLastRow
<1>4. offer[o] = Content(k)
  BY <1>3 DEF OfferIs
<1>5. /\ c \in Ids /\ k \in Ids /\ log[c].offer = log[k].offer /\ c <= k
      /\ c \in Nat /\ k \in Nat
      /\ log[c].version \in Nat /\ log[k].version \in Nat
      /\ offer[o] \in Row /\ back[o] \in Row
  BY <1>1, <1>2, <1>3, LogFacts DEF RowsOf, LogRow, Typed
<1>6. /\ back[o].version = log[c].version + 1 /\ back[o].status = log[c].status
      /\ offer[o].version = log[k].version /\ offer[o].status = log[k].status
  BY <1>2, <1>4 DEF Posted, Content
<1>7. CASE c = k
  <2>1. ~Stale(offer[o], back[o])
    BY <1>5, <1>6, <1>7 DEF Stale
  <2>2. back[o].version >= log[k].version
    BY <1>5, <1>6, <1>7
  <2> QED
    BY <1>3, <1>4, <1>5, <1>6, <1>7, <2>1, <2>2
<1>8. CASE c < k
  <2>1. log[c].version < log[k].version /\ log[c].status = "active"
    BY <1>1, <1>5, <1>8 DEF History
  <2>2. back[o].status \notin Terminal
    BY <1>6, <2>1 DEF Terminal
  <2>3. ~Stale(offer[o], back[o]) => /\ back[o].version >= log[k].version
                                     /\ log[k].status \notin Terminal
    BY <1>5, <1>6, <2>2 DEF Stale
  <2>4. c # k
    BY <1>5, <1>8
  <2> QED
    BY <1>3, <1>4, <1>5, <2>3, <2>4
<1> QED
  BY <1>5, <1>7, <1>8

\* Iran deals with the foreign row.
LEMMA ReceiveBackStep ==
    ASSUME ReplicaInv, NEW o \in Offers, ReceiveBack(o)
    PROVE  ReplicaInv'
<1>1. /\ Typed /\ History /\ OfferIsLastRow /\ ReplicaIsMark /\ BackIsPost /\ LiveIsWaited
      /\ MarkCovers
  BY DEF ReplicaInv
<1>2. /\ back[o] # Absent /\ o \notin returned
      /\ returned' = returned \cup {o}
      /\ offer' = [offer EXCEPT ![o] = IF Stale(@, back[o]) THEN @ ELSE back[o]]
      /\ UNCHANGED <<case, log, delivery, replica, mark, back, post, lane, net, answer,
                     failures, refusals>>
  BY DEF ReceiveBack, TakeBack
<1>3. PICK k \in RowsOf(o) :
              /\ \A j \in RowsOf(o) : j <= k
              /\ offer[o] = Content(k)
              /\ offer[o] \in Row /\ back[o] \in Row
              /\ \/ Stale(offer[o], back[o]) /\ back[o].change # k
                 \/ /\ ~Stale(offer[o], back[o])
                    /\ back[o].version >= log[k].version
                    /\ log[k].status \in Terminal => /\ back[o].change = k
                                                     /\ back[o].status = log[k].status
  BY <1>2, BackEffect
<1>4. /\ offer'[o] = IF Stale(offer[o], back[o]) THEN offer[o] ELSE back[o]
      /\ \A p \in Offers : p # o => offer'[p] = offer[p] /\ (p \in returned' <=> p \in returned)
  BY <1>1, <1>2 DEF Typed
<1>5. Typed'
  <2>1. offer' \in [Offers -> Row] /\ returned' \subseteq Offers
    BY <1>1, <1>2, <1>3 DEF Typed
  <2> QED
    BY <1>1, <1>2, <2>1 DEF Typed
<1>6. /\ Ids' = Ids /\ (\A p : RowsOf(p)' = RowsOf(p))
      /\ \A i : Content(i)' = Content(i) /\ Posted(i)' = Posted(i)
  BY <1>2 DEF Ids, RowsOf, Content, Posted
<1>7. History' /\ ReplicaIsMark'
  BY <1>1, <1>2, <1>6 DEF History, ReplicaIsMark, Absent
<1>8. BackIsPost'
  BY <1>1, <1>2, <1>6 DEF BackIsPost, Absent
<1>9. OfferIsLastRow'
  <2>1. OfferIs(o, k)'
    BY <1>2, <1>3, <1>4, <1>6 DEF OfferIs
  <2>2. \A p \in Offers : p # o => \A i : OfferIs(p, i) => OfferIs(p, i)'
    BY <1>2, <1>4, <1>6 DEF OfferIs
  <2> QED
    BY <1>1, <1>3, <1>4, <1>6, <2>1, <2>2 DEF OfferIsLastRow, Absent
<1>10. LiveIsWaited' /\ MarkCovers'
  BY <1>1, <1>2, <1>6 DEF LiveIsWaited, MarkCovers
<1> QED
  BY <1>5, <1>7, <1>8, <1>9, <1>10 DEF ReplicaInv

\* Every step keeps the invariant.
LEMMA NextReplicaInv == ReplicaInv /\ [Next]_vars => ReplicaInv'
<1> SUFFICES ASSUME ReplicaInv, [Next]_vars PROVE ReplicaInv'
  OBVIOUS
<1>1. ASSUME NEW o \in Offers, Create(o) \/ Change(o) \/ Close(o)
      PROVE  ReplicaInv'
  <2>1. PICK s \in {"active"} \cup Terminal : Commit(o, s)
    BY <1>1 DEF Create, Change, Close
  <2>2. offer[o].status = "none" \/ offer[o].status = "active"
    BY <1>1 DEF Create, Change, Close
  <2>3. offer[o].status \notin Terminal /\ s \in Status
    BY <2>2 DEF Terminal, Status
  <2> QED
    BY <2>1, <2>2, <2>3, CommitStep
<1>2. "worker" \in Senders /\ "api" \in Senders /\ "resync" \in Senders
  BY DEF Senders
<1>3. ASSUME NEW o \in Offers, SendCreated(o)
      PROVE  ReplicaInv'
  <2>1. Last(Due \cap RowsOf(o)) \in SUBSET Ids
    BY DEF Last, Due
  <2> QED
    BY <1>2, <1>3, <2>1, RequestStep DEF SendCreated
<1>4. CASE SendOldest
  <2>1. First(Oldest) \in SUBSET Ids
    BY DEF First, Oldest, Due
  <2> QED
    BY <1>2, <1>4, <2>1, RequestStep DEF SendOldest
<1>5. CASE SendNewest
  <2>1. Last(Due) \in SUBSET Ids
    BY DEF Last, Due
  <2> QED
    BY <1>2, <1>5, <2>1, RequestStep DEF SendNewest
<1>6. CASE SendAll
  <2>1. Unsynced \in SUBSET Ids
    BY DEF Unsynced
  <2> QED
    BY <1>2, <1>6, <2>1, RequestStep DEF SendAll
<1>7. ASSUME NEW d \in Senders, TimeOut(d) \/ Accepted(d) \/ Refused(d)
      PROVE  ReplicaInv'
  BY <1>7, TimeOutStep, AcceptedStep, RefusedStep
<1>8. CASE \E i \in 1..MaxRows : Rested(i)
  BY <1>8, RestedStep
<1>9. CASE \E m \in net : \E bad \in SUBSET m.rows : Receive(m, bad)
  BY <1>9, ReceiveStep
<1>10. ASSUME NEW o \in Offers, Post(o) \/ ReceiveBack(o)
       PROVE  ReplicaInv'
  BY <1>10, PostStep, ReceiveBackStep
<1>11. CASE UNCHANGED vars
  <2>1. UNCHANGED <<offer, log, replica, mark, back, returned>>
    BY <1>11 DEF vars
  <2>2. Typed' /\ LiveIsWaited' /\ MarkCovers'
    BY <1>11 DEF ReplicaInv, Typed, LiveIsWaited, MarkCovers, Ids, vars
  <2> QED
    BY <2>1, <2>2, LogPartKept DEF ReplicaInv
<1> QED
  BY <1>1, <1>3, <1>4, <1>5, <1>6, <1>7, <1>8, <1>9, <1>10, <1>11 DEF Next, Quiet

\* The invariant of every reachable state.
LEMMA ReplicaInvariant == Spec => []ReplicaInv
<1>1. QED
  BY InitReplicaInv, NextReplicaInv, PTL DEF Spec

-----------------------------------------------------------------------------
(* Theorems.                                                               *)

\* The state is well typed, and an answer belongs to the one request its sender
\* still waits for.
THEOREM ReplicaTypeCorrect == Spec => []TypeOK
<1>1. ReplicaInv => TypeOK
  <2> SUFFICES ASSUME ReplicaInv PROVE TypeOK
    OBVIOUS
  <2>1. Typed /\ LiveIsWaited
    BY DEF ReplicaInv
  <2>2. \A i \in Ids : log[i] \in LogRow /\ delivery[i] \in Progress
    BY <2>1, LogFacts
  <2>3. \A i \in Ids : log[i] \in [offer : Offers, version : Nat \ {0}, status : Status]
    BY <2>2 DEF LogRow, Status
  <2>4. \A d \in Senders : answer[d] # "none" => /\ post[d] # {}
                                                 /\ \A m \in net : ~(m.by = d /\ m.live)
    BY <2>1 DEF LiveIsWaited
  <2> QED
    BY <2>1, <2>2, <2>3, <2>4 DEF Typed, TypeOK, Progress
<1> QED
  BY <1>1, ReplicaInvariant, PTL

\* When all rows of an offer are marked as delivered and the foreign row came back,
\* both servers have the same offer, whatever overtook, was refused, timed out or
\* came late; except an open one whose last change and post crossed with the same
\* version: a mark is never better than the peer's watermark, and the foreign row
\* is newer than the row it was written on and no newer than the next
\* (_evaluate_sync_watermark, _offer_upsert_where_clause).
THEOREM MarkedOfferIsEqual == Spec => []MarkedIsEqual
<1>1. ReplicaInv => MarkedIsEqual
  <2> SUFFICES ASSUME ReplicaInv, NEW o \in Offers,
                      \A i \in RowsOf(o) : delivery[i].state = "synced",
                      back[o] = Absent \/ o \in returned, replica[o] # offer[o]
               PROVE  Crossed(o)
    BY DEF MarkedIsEqual
  <2>1. Typed /\ History /\ OfferIsLastRow /\ ReplicaIsMark /\ BackIsPost /\ MarkCovers
    BY DEF ReplicaInv
  <2>2. CASE RowsOf(o) = {} /\ offer[o] = Absent
    BY <2>1, <2>2 DEF ReplicaIsMark
  <2>3. ASSUME NEW k \in RowsOf(o), \A j \in RowsOf(o) : j <= k, OfferIs(o, k)
        PROVE  Crossed(o)
    <3>1. k \in Ids /\ log[k].offer = o /\ k \in 1..MaxRows
      BY <2>1, LogFacts DEF RowsOf
    <3>2. mark[o] >= k /\ mark[o] \in 0..MaxRows
      BY <2>1, <3>1 DEF MarkCovers, Typed
    <3>3. mark[o] # 0
      BY <3>1, <3>2, ConstantsAssumption
    <3>4. /\ mark[o] \in RowsOf(o)
          /\ replica[o] = IF back[o].change = mark[o] THEN back[o] ELSE Content(mark[o])
      BY <2>1, <3>3 DEF ReplicaIsMark
    <3>5. mark[o] = k
      BY <2>3, <3>1, <3>2, <3>4, ConstantsAssumption
    <3>6. /\ o \in returned /\ offer[o] = back[o] /\ back[o].change # k
          /\ back[o].version >= log[k].version
          /\ log[k].status \notin Terminal
      <4>1. CASE offer[o] = Content(k) /\ (o \in returned => back[o].change # k)
        <5>1. back[o].change = k
          BY <3>4, <3>5, <4>1
        <5>2. back[o] # Absent
          BY <3>1, <5>1 DEF Absent
        <5> QED
          BY <4>1, <5>1, <5>2
      <4>2. CASE /\ o \in returned /\ offer[o] = back[o]
                 /\ back[o].version >= log[k].version
                 /\ log[k].status \in Terminal => back[o].change = k
        BY <3>4, <3>5, <4>2
      <4> QED
        BY <2>3, <4>1, <4>2 DEF OfferIs
    <3> DEFINE c == back[o].change
    <3>7. c \in RowsOf(o) /\ back[o] = Posted(c)
      BY <2>1, <3>6 DEF BackIsPost
    <3>8. /\ c \in Ids /\ c \in Nat /\ log[c].offer = log[k].offer /\ c < k
      <4>1. c \in Ids /\ c \in 1..MaxRows /\ log[c].offer = log[k].offer
        BY <2>1, <3>1, <3>7, LogFacts DEF RowsOf
      <4>2. c <= k /\ c # k
        BY <2>3, <3>6, <3>7
      <4> QED
        BY <3>1, <4>1, <4>2
    <3>9. log[c].status = "active"
      BY <2>1, <3>1, <3>8 DEF History
    <3>10. offer[o].status = "active" /\ k > c
      BY <3>1, <3>6, <3>7, <3>8, <3>9 DEF Posted
    <3> QED
      BY <3>6, <3>10 DEF Crossed
  <2> QED
    BY <2>1, <2>2, <2>3 DEF OfferIsLastRow
<1> QED
  BY <1>1, ReplicaInvariant, PTL

\* No step takes a row of an offer back to an older version, the foreign copy to an
\* older change, or alters a closed offer on either server, though newer rows
\* overtake, abandoned requests arrive late and the foreign row comes back
\* (_evaluate_sync_watermark, _stale_offer_sync_reason).
THEOREM ReplicaNeverBackwards == Spec => NeverBackwards
<1> DEFINE ForeignForward ==
             \A o \in Offers :
               /\ replica'[o].version >= replica[o].version
               /\ replica'[o].change >= replica[o].change
               /\ replica[o].status \in Terminal => /\ replica'[o].status = replica[o].status
                                                    /\ replica'[o].change = replica[o].change
           IranForward ==
             \A o \in Offers :
               /\ offer'[o].version >= offer[o].version
               /\ offer[o].status \in Terminal => /\ offer'[o].status = offer[o].status
                                                  /\ offer'[o].change = offer[o].change
<1>1. ReplicaInv /\ Next => ForeignForward
  <2> SUFFICES ASSUME ReplicaInv, Next PROVE ForeignForward
    OBVIOUS
  <2>1. Typed /\ History /\ ReplicaIsMark /\ BackIsPost /\ LiveIsWaited
    BY DEF ReplicaInv
  <2>2. \A o \in Offers : /\ replica[o] \in Row /\ replica[o].version \in Nat
                          /\ replica[o].change \in Nat /\ mark[o] \in Nat
                          /\ replica[o].change = mark[o]
    BY <2>1, ConstantsAssumption DEF Typed, Row, ReplicaIsMark, Content, Absent
  <2>3. ASSUME NEW m \in net, NEW bad \in SUBSET m.rows, Receive(m, bad)
        PROVE  ForeignForward
    <3>1. m.rows \ bad \in SUBSET Ids
      BY <2>1 DEF LiveIsWaited
    <3>2. replica' = [o \in Offers |-> Applied(o, m.rows \ bad)]
      BY <2>3 DEF Receive
    <3> DEFINE rows == m.rows \ bad
    <3>3. ASSUME NEW o \in Offers
          PROVE  /\ replica'[o].version >= replica[o].version
                 /\ replica'[o].change >= replica[o].change
                 /\ replica[o].status \in Terminal => replica'[o] = replica[o]
      <4>1. \/ Applied(o, rows) = replica[o]
            \/ /\ Watermark(o, rows) > mark[o] /\ Watermark(o, rows) \in 0..MaxRows
               /\ Applied(o, rows) = Content(Watermark(o, rows))
               /\ Applied(o, rows).version >= replica[o].version
               /\ replica[o].status \notin Terminal
        BY <2>1, <3>1, ReceiveEffect
      <4>2. replica'[o] = Applied(o, rows)
        BY <3>2
      <4>3. CASE Applied(o, rows) = replica[o]
        BY <2>2, <4>2, <4>3
      <4>4. CASE /\ Watermark(o, rows) > mark[o] /\ Watermark(o, rows) \in 0..MaxRows
                 /\ Applied(o, rows) = Content(Watermark(o, rows))
                 /\ Applied(o, rows).version >= replica[o].version
                 /\ replica[o].status \notin Terminal
        <5>1. replica'[o].change = Watermark(o, rows)
          BY <4>2, <4>4 DEF Content
        <5>2. Watermark(o, rows) >= replica[o].change
          BY <2>2, <4>4
        <5> QED
          BY <4>2, <4>4, <5>1, <5>2
      <4> QED
        BY <4>1, <4>3, <4>4
    <3> QED
      BY <3>3
  <2>4. ASSUME NEW p \in Offers, Post(p)
        PROVE  ForeignForward
    <3>1. replica' = [replica EXCEPT ![p].version = @ + 1]
      BY <2>4 DEF Post
    <3>2. /\ replica'[p] = [replica[p] EXCEPT !.version = @ + 1]
          /\ \A o \in Offers : o # p => replica'[o] = replica[o]
      BY <2>1, <3>1 DEF Typed
    <3>3. /\ replica'[p].version = replica[p].version + 1
          /\ replica'[p].status = replica[p].status /\ replica'[p].change = replica[p].change
      BY <2>2, <3>2 DEF Row
    <3>4. ASSUME NEW o \in Offers
          PROVE  /\ replica'[o].version >= replica[o].version
                 /\ replica'[o].status = replica[o].status
                 /\ replica'[o].change = replica[o].change
      <4>1. replica[o].version \in Nat /\ replica[p].version \in Nat
        BY <2>2
      <4>2. CASE o = p
        BY <3>3, <4>1, <4>2
      <4>3. CASE o # p
        BY <3>2, <4>1, <4>3
      <4> QED
        BY <4>2, <4>3
    <3>5. \A o \in Offers : replica[o].change >= replica[o].change
      BY <2>2
    <3> QED
      BY <3>4, <3>5
  <2>5. CASE UNCHANGED replica
    BY <2>2, <2>5
  <2>6. \/ \E m \in net : \E bad \in SUBSET m.rows : Receive(m, bad)
        \/ \E p \in Offers : Post(p)
        \/ UNCHANGED replica
    BY DEF Next, Create, Change, Close, Commit, SendCreated, SendOldest, SendNewest, SendAll,
           Request, TimeOut, Accepted, Refused, Rested, ReceiveBack, Quiet, vars
  <2> QED
    BY <2>3, <2>4, <2>5, <2>6
<1>2. ReplicaInv /\ Next => IranForward
  <2> SUFFICES ASSUME ReplicaInv, Next PROVE IranForward
    OBVIOUS
  <2>1. \A o \in Offers : offer[o] \in Row /\ offer[o].version \in Nat
    BY DEF ReplicaInv, Typed, Row
  <2>2. ASSUME NEW p \in Offers, NEW s \in Status, Commit(p, s), offer[p].status \notin Terminal
        PROVE  IranForward
    <3>1. /\ offer'[p].version = offer[p].version + 1
          /\ \A o \in Offers : o # p => offer'[o] = offer[o]
      BY <2>2 DEF Commit, ReplicaInv, Typed
    <3> QED
      BY <2>1, <2>2, <3>1
  <2>3. ASSUME NEW p \in Offers, ReceiveBack(p)
        PROVE  IranForward
    <3>1. /\ back[p] # Absent /\ p \notin returned
          /\ offer'[p] = IF Stale(offer[p], back[p]) THEN offer[p] ELSE back[p]
          /\ \A o \in Offers : o # p => offer'[o] = offer[o]
      BY <2>3 DEF ReceiveBack, TakeBack, ReplicaInv, Typed
    <3>2. PICK k \in RowsOf(p) :
              /\ offer[p] = Content(k)
              /\ back[p] \in Row
              /\ \/ Stale(offer[p], back[p])
                 \/ /\ ~Stale(offer[p], back[p])
                    /\ back[p].version >= log[k].version
                    /\ log[k].status \in Terminal => /\ back[p].change = k
                                                     /\ back[p].status = log[k].status
      BY <3>1, BackEffect
    <3>3. /\ offer'[p].version >= offer[p].version
          /\ offer[p].status \in Terminal => /\ offer'[p].status = offer[p].status
                                             /\ offer'[p].change = offer[p].change
      BY <2>1, <3>1, <3>2 DEF Content
    <3> QED
      BY <2>1, <3>1, <3>3
  <2>4. CASE UNCHANGED offer
    BY <2>1, <2>4
  <2>5. ASSUME NEW p \in Offers, Create(p) \/ Change(p) \/ Close(p)
        PROVE  IranForward
    <3>1. offer[p].status \notin Terminal /\ \E s \in Status : Commit(p, s)
      BY <2>5 DEF Create, Change, Close, Terminal, Status
    <3> QED
      BY <2>2, <3>1
  <2>6. \/ \E p \in Offers : Create(p) \/ Change(p) \/ Close(p)
        \/ \E p \in Offers : ReceiveBack(p)
        \/ UNCHANGED offer
    BY DEF Next, SendCreated, SendOldest, SendNewest, SendAll, Request, TimeOut, Accepted,
           Refused, Rested, Receive, Post, Quiet, vars
  <2> QED
    BY <2>3, <2>4, <2>5, <2>6
<1>3. ReplicaInv /\ [Next]_vars => [ForeignForward /\ IranForward]_vars
  BY <1>1, <1>2
<1>4. [ForeignForward /\ IranForward]_vars =>
        [\A o \in Offers :
          /\ replica'[o].version >= replica[o].version
          /\ replica'[o].change >= replica[o].change
          /\ offer'[o].version >= offer[o].version
          /\ replica[o].status \in Terminal =>
                 replica'[o].status = replica[o].status /\ replica'[o].change = replica[o].change
          /\ offer[o].status \in Terminal =>
                 offer'[o].status = offer[o].status /\ offer'[o].change = offer[o].change]_vars
  OBVIOUS
<1> HIDE DEF ForeignForward, IranForward
<1> QED
  BY <1>3, <1>4, ReplicaInvariant, PTL DEF Spec, NeverBackwards

-----------------------------------------------------------------------------
(* Counters: CounterSync                                                   *)

\* A counter event, and the counter columns of a user
EventRow == [id : Nat \ {0}, kind : {"increment", "reset"}, epoch : Nat \ {0}, at : Int]
UserRow == [value : Nat, epoch : Nat \ {0}, version : Nat]

\* The change_log rows of a server
Told(v) == 1..Len(changes[v])

CounterTyped ==
    /\ user \in [Servers -> UserRow]
    /\ ledger \in [Servers -> SUBSET EventRow]
    /\ \A v \in Servers : IsFiniteSet(ledger[v])
    /\ changes \in [Servers -> Seq(EventRow)]
    /\ synced \in [Servers -> Nat] /\ watermark \in [Servers -> Nat]
    /\ sent \in [Servers -> Nat]
    /\ requests \subseteq [src : Servers, seq : Nat \ {0}, live : BOOLEAN]
    /\ reply \in [Servers -> {"none", "success", "partial"}]
    /\ copy \in [Sessions -> UserRow \cup {NoCopy}]
    /\ now \in Nat

\* The sender is at the row after the last one marked delivered, and the peer is
\* not behind what is marked: no request is more than one row ahead of it.
InOrder(v) ==
    /\ sent[v] \in {0, synced[v] + 1} /\ sent[v] <= Len(changes[v])
    /\ synced[v] <= watermark[v] /\ watermark[v] <= Len(changes[v])
    /\ reply[v] # "none" => sent[v] # 0
    /\ reply[v] = "success" => sent[v] <= watermark[v]

RequestSound(m) ==
    /\ m.seq <= watermark[m.src] + 1 /\ m.seq <= Len(changes[m.src])
    /\ m.live => m.seq = sent[m.src] /\ reply[m.src] = "none"

Channel == (\A v \in Servers : InOrder(v)) /\ \A m \in requests : RequestSound(m)

\* What a session read is not of a later period than the row is in.
CopiesPast == \A s \in Sessions : ~Idle(s) => copy[s].epoch <= user[Home[s]].epoch

\* Events have numbers of their own, in the order they were made, and the times of the
\* clock that made them.
TimesGrow ==
    /\ \A v \in Servers : \A i \in Told(v) : changes[v][i].id <= now
    /\ \A v \in Servers : \A i, j \in Told(v) : i < j => changes[v][i].id < changes[v][j].id
    /\ \A i \in Told("iran"), j \in Told("foreign") :
          changes["iran"][i].id # changes["foreign"][j].id
    /\ \A i \in Told("iran") : changes["iran"][i].at = changes["iran"][i].id
    /\ \A i \in Told("foreign") : changes["foreign"][i].at = changes["foreign"][i].id + Skew

\* Where Iran's log opens a period
Openings == {i \in Told("iran") : changes["iran"][i].kind = "reset"}

Opens(i) == changes["iran"][i].epoch

\* The row of server v is in the period of Iran's first n events
PeriodAt(v, n) ==
    /\ \A i \in Openings : i <= n => Opens(i) <= user[v].epoch
    /\ user[v].epoch > 1 => \E i \in Openings : i <= n /\ Opens(i) = user[v].epoch

\* Only Iran's resets open a period, each the next one; an increment belongs to none
\* that is opened after it.
EpochsGrow ==
    /\ \A i \in Told("foreign") : /\ changes["foreign"][i].kind = "increment"
                                  /\ changes["foreign"][i].epoch <= user["iran"].epoch
    /\ \A i \in Openings : 1 < Opens(i)
    /\ \A i, j \in Openings : i < j => Opens(i) < Opens(j)
    /\ \A i \in Openings : \A k \in 2..Opens(i) : \E j \in Openings : j <= i /\ Opens(j) = k
    /\ \A i \in Told("iran") \ Openings :
          changes["iran"][i].epoch > 1 =>
             \E j \in Openings : j < i /\ changes["iran"][i].epoch <= Opens(j)
    /\ PeriodAt("iran", Len(changes["iran"]))
    /\ PeriodAt("foreign", watermark["iran"])

\* A ledger holds the server's own events and those of the peer up to the
\* watermark.
LedgerIsLog(v) ==
    ledger[v] = {changes[v][i] : i \in Told(v)}
                  \cup {changes[Peer(v)][i] : i \in 1..watermark[Peer(v)]}
\* What holds whatever runs between a read and its write, and whatever the clocks say.
EventInv ==
    /\ CounterTyped /\ Channel /\ CopiesPast /\ TimesGrow /\ EpochsGrow
    /\ \A v \in Servers : LedgerIsLog(v)

\* The resets of a ledger: one for each period after the first, up to the row's.
BoundaryKnown(v) ==
    /\ \A r \in Resets(ledger[v]) : 1 < r.epoch /\ r.epoch <= user[v].epoch
    /\ \A r, q \in Resets(ledger[v]) : r.epoch = q.epoch => r = q
    /\ user[v].epoch > 1 => \E r \in Resets(ledger[v]) : r.epoch = user[v].epoch

\* How much of Iran's log a server has
Reach(v) == IF v = "iran" THEN Len(changes["iran"]) ELSE watermark["iran"]

-----------------------------------------------------------------------------
(* Counting *)

\* A reset with a higher epoch than all others is the latest one.
LEMMA LatestIs ==
    ASSUME NEW l, NEW r \in Resets(l), \A q \in Resets(l) : q.epoch \in Nat,
           \A q \in Resets(l) : q.epoch <= r.epoch /\ (q.epoch = r.epoch => q = r)
    PROVE  LatestReset(l) = r
<1>1. \E u \in Resets(l) : \A q \in Resets(l) : q.epoch <= u.epoch
  OBVIOUS
<1>2. /\ LatestReset(l) \in Resets(l)
      /\ \A q \in Resets(l) : q.epoch <= LatestReset(l).epoch
  BY <1>1 DEF LatestReset
<1> HIDE DEF LatestReset
<1>3. LatestReset(l).epoch = r.epoch
  BY <1>2
<1> QED
  BY <1>2, <1>3

\* The boundary of a period, by the resets alone
Boundary(R) == CHOOSE r \in R : \A q \in R : q.epoch <= r.epoch

\* The latest reset depends on the resets only.
LEMMA LatestByResets == ASSUME NEW l PROVE LatestReset(l) = Boundary(Resets(l))
BY DEF LatestReset, Boundary

\* A ledger gains an increment: it counts when it was not made before the boundary.
LEMMA OneMore ==
    ASSUME NEW l, IsFiniteSet(l), NEW e, e \notin l, e.kind = "increment"
    PROVE  /\ Resets(l \cup {e}) = Resets(l)
           /\ LatestReset(l \cup {e}) = LatestReset(l)
           /\ Resets(l) = {} \/ e.at >= LatestReset(l).at =>
                PeriodCount(l \cup {e}) = PeriodCount(l) + 1
           /\ ~(Resets(l) = {} \/ e.at >= LatestReset(l).at) =>
                PeriodCount(l \cup {e}) = PeriodCount(l)
<1>1. Resets(l \cup {e}) = Resets(l) /\ Increments(l \cup {e}) = Increments(l) \cup {e}
  BY DEF Resets, Increments
<1>2. LatestReset(l \cup {e}) = LatestReset(l)
  BY <1>1, LatestByResets
<1>3. ASSUME NEW P \in SUBSET l PROVE IsFiniteSet(P) /\ Cardinality(P \cup {e}) = Cardinality(P) + 1
  <2>1. IsFiniteSet(P) /\ e \notin P
    BY <1>3, FS_Subset
  <2> QED
    BY <2>1, FS_AddElement
<1>4. CASE Resets(l) = {}
  <2>1. Increments(l) \in SUBSET l
    BY DEF Increments
  <2> QED
    BY <1>1, <1>2, <1>3, <1>4, <2>1 DEF PeriodCount
<1>5. CASE Resets(l) # {}
  <2> DEFINE r == LatestReset(l)
             P == {x \in Increments(l) : x.at >= r.at}
             Q == {x \in Increments(l \cup {e}) : x.at >= r.at}
  <2> HIDE DEF r
  <2>1. PeriodCount(l) = Cardinality(P) /\ PeriodCount(l \cup {e}) = Cardinality(Q)
    BY <1>1, <1>2, <1>5 DEF PeriodCount, r
  <2>2. P \in SUBSET l
    BY DEF Increments
  <2>3. CASE e.at >= r.at
    <3>1. Q = P \cup {e}
      BY <1>1, <2>3
    <3> QED
      BY <1>1, <1>2, <1>3, <1>5, <2>1, <2>2, <2>3, <3>1 DEF r
  <2>4. CASE ~(e.at >= r.at)
    <3>1. Q = P
      BY <1>1, <2>4
    <3> QED
      BY <1>1, <1>2, <1>5, <2>1, <2>4, <3>1 DEF r
  <2> QED
    BY <2>3, <2>4
<1> QED
  BY <1>4, <1>5

\* A ledger gains the reset of the next period: what counts is what a rebuild finds.
LEMMA NewPeriod ==
    ASSUME NEW l, NEW e, e.kind = "reset", e.epoch \in Nat,
           \A q \in Resets(l) : q.epoch \in Nat /\ q.epoch < e.epoch
    PROVE  /\ Resets(l \cup {e}) = Resets(l) \cup {e}
           /\ LatestReset(l \cup {e}) = e
           /\ PeriodCount(l \cup {e}) = Rebuilt(l, e.at)
<1>1. Resets(l \cup {e}) = Resets(l) \cup {e} /\ Increments(l \cup {e}) = Increments(l)
  BY DEF Resets, Increments
<1>2. \A q \in Resets(l \cup {e}) :
         q.epoch \in Nat /\ q.epoch <= e.epoch /\ (q.epoch = e.epoch => q = e)
  BY <1>1
<1>3. LatestReset(l \cup {e}) = e
  BY <1>1, <1>2, LatestIs
<1>4. PeriodCount(l \cup {e}) = Rebuilt(l, e.at)
  BY <1>1, <1>3 DEF PeriodCount, Rebuilt
<1> QED
  BY <1>1, <1>3, <1>4

\* What is known about the resets makes row and receipts coherent.
LEMMA KnownIsCoherent ==
    ASSUME CounterTyped, NEW v \in Servers, BoundaryKnown(v)
    PROVE  /\ Coherent(v)
           /\ Resets(ledger[v]) # {} =>
                 /\ LatestReset(ledger[v]) \in Resets(ledger[v])
                 /\ LatestReset(ledger[v]).epoch = user[v].epoch
           /\ user[v].epoch = 1 <=> Resets(ledger[v]) = {}
           /\ user[v].epoch \in Nat /\ user[v].epoch >= 1
<1>1. user[v].epoch \in Nat /\ user[v].epoch >= 1
  BY DEF CounterTyped, UserRow
<1>2. \A q \in Resets(ledger[v]) : q.epoch \in Nat
  BY DEF CounterTyped, Resets, EventRow
<1>3. CASE user[v].epoch = 1
  <2>1. Resets(ledger[v]) = {}
    BY <1>2, <1>3 DEF BoundaryKnown
  <2> QED
    BY <1>1, <1>3, <2>1 DEF Coherent
<1>4. CASE user[v].epoch # 1
  <2>1. PICK r \in Resets(ledger[v]) : r.epoch = user[v].epoch
    BY <1>1, <1>4 DEF BoundaryKnown
  <2>2. \A q \in Resets(ledger[v]) : q.epoch <= r.epoch /\ (q.epoch = r.epoch => q = r)
    BY <2>1 DEF BoundaryKnown
  <2>3. LatestReset(ledger[v]) = r
    BY <1>2, <2>2, LatestIs
  <2> QED
    BY <1>1, <1>4, <2>1, <2>3 DEF Coherent
<1> QED
  BY <1>3, <1>4

\* The two servers are each other's peers.
LEMMA Peers ==
    ASSUME NEW v \in Servers
    PROVE  /\ Peer(v) \in Servers /\ Peer(v) # v /\ Peer(Peer(v)) = v
           /\ \A u \in Servers : u = v \/ u = Peer(v)
BY DEF Servers, Peer

\* What kinds of value an event of a log has.
LEMMA LogTyped ==
    ASSUME CounterTyped
    PROVE  \A v \in Servers :
              /\ changes[v] \in Seq(EventRow) /\ Len(changes[v]) \in Nat
              /\ \A i \in Told(v) : /\ i \in Nat \ {0}
                                    /\ changes[v][i] \in EventRow
                                    /\ changes[v][i].id \in Nat /\ changes[v][i].at \in Int
                                    /\ changes[v][i].epoch \in Nat
                                    /\ changes[v][i].kind \in {"increment", "reset"}
<1> TAKE v \in Servers
<1>1. changes[v] \in Seq(EventRow) /\ Len(changes[v]) \in Nat
  BY DEF CounterTyped
<1>2. \A i \in Told(v) : i \in Nat \ {0} /\ changes[v][i] \in EventRow
  BY <1>1 DEF Told
<1> QED
  BY <1>1, <1>2 DEF EventRow

\* The resets a server knows are those of Iran's log as far as it has it.
LEMMA KnownResets ==
    ASSUME EventInv, NEW v \in Servers
    PROVE  /\ \A r \in Resets(ledger[v]) :
                 \E i \in Openings : i <= Reach(v) /\ r = changes["iran"][i]
           /\ \A i \in Openings : i <= Reach(v) => changes["iran"][i] \in Resets(ledger[v])
           /\ PeriodAt(v, Reach(v))
<1>0. "iran" \in Servers /\ "foreign" \in Servers /\ Peer("iran") = "foreign"
      /\ Peer("foreign") = "iran"
  BY DEF Servers, Peer
<1>1. /\ CounterTyped /\ EpochsGrow /\ LedgerIsLog(v)
      /\ \A u \in Servers : watermark[u] \in Nat /\ watermark[u] <= Len(changes[u])
  BY DEF EventInv, CounterTyped, Channel, InOrder
<1>2. \A u \in Servers : Len(changes[u]) \in Nat /\ \A i \in Told(u) : i \in Nat \ {0}
  BY <1>1, LogTyped
<1>3. \A i \in Told("foreign") : changes["foreign"][i].kind = "increment"
  BY <1>1 DEF EpochsGrow
<1>4. CASE v = "iran"
  <2>1. ledger[v] = {changes["iran"][i] : i \in Told("iran")}
                      \cup {changes["foreign"][i] : i \in 1..watermark["foreign"]}
    BY <1>0, <1>1, <1>4 DEF LedgerIsLog
  <2>2. \A i \in 1..watermark["foreign"] : changes["foreign"][i].kind = "increment"
    BY <1>0, <1>1, <1>2, <1>3 DEF Told
  <2>3. \A i \in Told("iran") : i <= Reach(v)
    BY <1>0, <1>2, <1>4 DEF Told, Reach
  <2>4. PeriodAt(v, Reach(v))
    BY <1>1, <1>4 DEF EpochsGrow, Reach
  <2> QED
    BY <2>1, <2>2, <2>3, <2>4 DEF Resets, Openings
<1>5. CASE v = "foreign"
  <2>1. ledger[v] = {changes["foreign"][i] : i \in Told("foreign")}
                      \cup {changes["iran"][i] : i \in 1..watermark["iran"]}
    BY <1>0, <1>1, <1>5 DEF LedgerIsLog
  <2>2. Reach(v) = watermark["iran"]
    BY <1>5 DEF Reach
  <2>3. \A i \in 1..watermark["iran"] : i \in Told("iran") /\ i <= watermark["iran"]
    BY <1>0, <1>1, <1>2 DEF Told
  <2>4. \A i \in Told("iran") : i <= watermark["iran"] => i \in 1..watermark["iran"]
    BY <1>0, <1>1, <1>2 DEF Told
  <2>5. PeriodAt(v, Reach(v))
    BY <1>1, <1>5, <2>2 DEF EpochsGrow
  <2>6. \A r \in Resets(ledger[v]) :
           \E i \in Openings : i <= Reach(v) /\ r = changes["iran"][i]
    BY <1>3, <2>1, <2>2, <2>3 DEF Resets, Openings
  <2>7. \A i \in Openings : i <= Reach(v) => changes["iran"][i] \in Resets(ledger[v])
    BY <2>1, <2>2, <2>4 DEF Resets, Openings
  <2> QED
    BY <2>5, <2>6, <2>7
<1> QED
  BY <1>4, <1>5 DEF Servers

\* So each period up to the row's has its one reset, made in the past.
LEMMA Boundaries ==
    ASSUME EventInv, NEW v \in Servers
    PROVE  /\ BoundaryKnown(v)
           /\ \A r \in Resets(ledger[v]) : r \in EventRow /\ r.at = r.id /\ r.id <= now
<1>0. "iran" \in Servers
  BY DEF Servers
<1>1. CounterTyped /\ EpochsGrow /\ TimesGrow /\ IsFiniteSet(ledger[v])
  BY DEF EventInv, CounterTyped
<1>2. /\ \A r \in Resets(ledger[v]) :
            \E i \in Openings : i <= Reach(v) /\ r = changes["iran"][i]
      /\ \A i \in Openings : i <= Reach(v) => changes["iran"][i] \in Resets(ledger[v])
      /\ PeriodAt(v, Reach(v))
  BY KnownResets
<1>3. \A i \in Openings : i \in Told("iran") /\ i \in Nat /\ Opens(i) \in Nat
  BY <1>0, <1>1, LogTyped DEF Openings, Opens
<1>4. \A r \in Resets(ledger[v]) : 1 < r.epoch /\ r.epoch <= user[v].epoch
  BY <1>1, <1>2 DEF EpochsGrow, PeriodAt, Opens
<1>5. ASSUME NEW r \in Resets(ledger[v]), NEW q \in Resets(ledger[v]), r.epoch = q.epoch
      PROVE  r = q
  <2>1. PICK i \in Openings : r = changes["iran"][i]
    BY <1>2
  <2>2. PICK j \in Openings : q = changes["iran"][j]
    BY <1>2
  <2>3. Opens(i) = Opens(j) /\ i \in Nat /\ j \in Nat /\ Opens(i) \in Nat /\ Opens(j) \in Nat
    BY <1>3, <1>5, <2>1, <2>2 DEF Opens
  <2>4. (i < j => Opens(i) < Opens(j)) /\ (j < i => Opens(j) < Opens(i))
    BY <1>1 DEF EpochsGrow
  <2>5. i = j
    BY <2>3, <2>4
  <2> QED
    BY <2>1, <2>2, <2>5
<1>6. user[v].epoch > 1 => \E r \in Resets(ledger[v]) : r.epoch = user[v].epoch
  BY <1>2 DEF PeriodAt, Opens
<1>7. ASSUME NEW r \in Resets(ledger[v]) PROVE r \in EventRow /\ r.at = r.id /\ r.id <= now
  <2>1. PICK i \in Openings : r = changes["iran"][i]
    BY <1>2
  <2>2. i \in Told("iran")
    BY <1>3
  <2>3. r \in EventRow
    BY <1>0, <1>1, <2>1, <2>2, LogTyped
  <2> QED
    BY <1>0, <1>1, <2>1, <2>2, <2>3 DEF TimesGrow
<1> QED
  BY <1>4, <1>5, <1>6, <1>7 DEF BoundaryKnown

-----------------------------------------------------------------------------
(* Steps that leave rows and ledgers alone *)

LedgerSide == <<user, ledger, changes, watermark, now>>

\* What is said about events, periods and ledgers.
HistoryInv == TimesGrow /\ EpochsGrow /\ \A v \in Servers : LedgerIsLog(v)

\* It is about the rows, the ledgers, the change_logs and the watermarks only.
LEMMA HistoryStays ==
    ASSUME HistoryInv, UNCHANGED LedgerSide PROVE HistoryInv'
<1>1. /\ \A v : Told(v)' = Told(v) /\ Openings' = Openings /\ \A i : Opens(i)' = Opens(i)
      /\ UNCHANGED <<user, ledger, changes, watermark, now>>
  BY DEF Told, Openings, Opens, LedgerSide
<1>2. \A v, n : PeriodAt(v, n)' = PeriodAt(v, n)
  BY <1>1 DEF PeriodAt
<1>3. TimesGrow'
  BY <1>1 DEF HistoryInv, TimesGrow
<1>4. EpochsGrow'
  BY <1>1, <1>2 DEF HistoryInv, EpochsGrow
<1>5. \A v \in Servers : LedgerIsLog(v)'
  BY <1>1 DEF HistoryInv, LedgerIsLog
<1> QED
  BY <1>3, <1>4, <1>5 DEF HistoryInv

\* A session reads the user, or gives up.
LEMMA LoadAbandonStep ==
    ASSUME EventInv, NEW s \in Sessions, Load(s) \/ Abandon(s)
    PROVE  EventInv'
<1>1. /\ CounterTyped /\ Channel /\ CopiesPast /\ HistoryInv
      /\ Home[s] \in Servers
  BY CounterAssumption DEF EventInv, HistoryInv, Servers
<1>2. /\ UNCHANGED <<user, ledger, changes, synced, watermark, sent, requests, reply, now>>
      /\ \/ copy' = [copy EXCEPT ![s] = NoCopy]
         \/ copy' = [copy EXCEPT ![s] = user[Home[s]]]
  BY DEF Load, Abandon
<1>3. HistoryInv'
  BY <1>1, <1>2, HistoryStays DEF LedgerSide
<1>4. CounterTyped'
  BY <1>1, <1>2 DEF CounterTyped
<1>5. Channel'
  BY <1>1, <1>2 DEF Channel, InOrder, RequestSound
<1>6. CopiesPast'
  <2>1. /\ \A t \in Sessions : t # s => copy'[t] = copy[t]
        /\ copy'[s] = NoCopy \/ copy'[s] = user[Home[s]]
    BY <1>1, <1>2 DEF CounterTyped
  <2>2. user' = user /\ user[Home[s]].epoch <= user[Home[s]].epoch
    BY <1>1, <1>2 DEF CounterTyped, UserRow
  <2> QED
    BY <1>1, <2>1, <2>2 DEF CopiesPast, Idle
<1> QED
  BY <1>3, <1>4, <1>5, <1>6 DEF EventInv, HistoryInv

\* The sender: one row at a time, marked when the peer has it.
LEMMA SenderStep ==
    ASSUME EventInv, NEW v \in Servers,
           Send(v) \/ SendTimesOut(v) \/ Delivered(v) \/ Rejected(v)
    PROVE  EventInv'
<1>1. CounterTyped /\ Channel /\ CopiesPast /\ HistoryInv
  BY DEF EventInv, HistoryInv
<1>2. UNCHANGED <<user, ledger, changes, watermark, copy, now>>
  BY DEF Send, SendTimesOut, Delivered, Rejected
<1>3. HistoryInv'
  BY <1>1, <1>2, HistoryStays DEF LedgerSide
<1>4. CopiesPast'
  BY <1>1, <1>2 DEF CopiesPast, Idle
<1>5. /\ synced \in [Servers -> Nat] /\ watermark \in [Servers -> Nat]
      /\ sent \in [Servers -> Nat] /\ \A u \in Servers : Len(changes[u]) \in Nat
      /\ reply \in [Servers -> {"none", "success", "partial"}]
      /\ requests \subseteq [src : Servers, seq : Nat \ {0}, live : BOOLEAN]
  BY <1>1 DEF CounterTyped
<1>6. /\ \A u \in Servers : InOrder(u)
      /\ \A m \in requests : RequestSound(m)
  BY <1>1 DEF Channel
<1>7. CASE Send(v)
  <2>1. PICK m : m = [src |-> v, seq |-> synced[v] + 1, live |-> TRUE]
    OBVIOUS
  <2>2. /\ requests' = requests \cup {m} /\ sent' = [sent EXCEPT ![v] = synced[v] + 1]
        /\ synced' = synced /\ reply' = reply /\ sent[v] = 0 /\ synced[v] < Len(changes[v])
    BY <1>7, <2>1 DEF Send, NextUnsynced
  <2>3. /\ m.src = v /\ m.seq = synced[v] + 1
        /\ m \in [src : Servers, seq : Nat \ {0}, live : BOOLEAN]
    BY <1>5, <2>1
  <2>4. reply[v] = "none"
    BY <1>6, <2>2 DEF InOrder
  <2>5. CounterTyped'
    BY <1>1, <1>2, <1>5, <2>2, <2>3 DEF CounterTyped
  <2>6. \A u \in Servers : InOrder(u)'
    BY <1>2, <1>5, <1>6, <2>2, <2>4 DEF InOrder
  <2>7. RequestSound(m)'
    BY <1>2, <1>5, <1>6, <2>2, <2>3, <2>4 DEF InOrder, RequestSound
  <2>8. ASSUME NEW n \in requests PROVE RequestSound(n)'
    <3>1. n.src \in Servers /\ n.seq \in Nat \ {0} /\ RequestSound(n)
      BY <1>5, <1>6, <2>8
    <3>2. n.live => n.src # v
      BY <2>2, <3>1 DEF RequestSound
    <3> QED
      BY <1>2, <1>5, <2>2, <3>1, <3>2 DEF RequestSound
  <2> QED
    BY <1>3, <1>4, <2>2, <2>5, <2>6, <2>7, <2>8 DEF EventInv, HistoryInv, Channel
<1>8. CASE SendTimesOut(v)
  <2>1. /\ sent' = [sent EXCEPT ![v] = 0] /\ reply' = [reply EXCEPT ![v] = "none"]
        /\ synced' = synced
    BY <1>8 DEF SendTimesOut
  <2>2. ASSUME NEW n \in requests'
        PROVE  /\ n \in [src : Servers, seq : Nat \ {0}, live : BOOLEAN]
               /\ n.src = v => ~n.live
               /\ \E k \in requests : k.src = n.src /\ k.seq = n.seq /\ (n.live => k.live)
    <3>1. CASE n \in requests /\ ~(n.src = v /\ n.live)
      BY <1>5, <3>1
    <3>2. CASE \E k \in requests : n = [k EXCEPT !.live = FALSE]
      <4>1. PICK k \in requests : n = [k EXCEPT !.live = FALSE]
        BY <3>2
      <4>2. k \in [src : Servers, seq : Nat \ {0}, live : BOOLEAN]
        BY <1>5
      <4>3. /\ n \in [src : Servers, seq : Nat \ {0}, live : BOOLEAN]
            /\ n.src = k.src /\ n.seq = k.seq /\ n.live = FALSE
        BY <4>1, <4>2
      <4> QED
        BY <4>3
    <3>3. \/ n \in requests /\ ~(n.src = v /\ n.live)
          \/ \E k \in requests : n = [k EXCEPT !.live = FALSE]
      BY <1>8 DEF SendTimesOut
    <3> QED
      BY <3>1, <3>2, <3>3
  <2>3. CounterTyped'
    <3>1. requests' \subseteq [src : Servers, seq : Nat \ {0}, live : BOOLEAN]
      BY <2>2
    <3> QED
      BY <1>1, <1>2, <1>5, <2>1, <3>1 DEF CounterTyped
  <2>4. \A u \in Servers : InOrder(u)'
    BY <1>2, <1>5, <1>6, <2>1 DEF InOrder
  <2>5. ASSUME NEW n \in requests' PROVE RequestSound(n)'
    <3>1. PICK k \in requests : k.src = n.src /\ k.seq = n.seq /\ (n.live => k.live)
      BY <2>2
    <3>2. RequestSound(k) /\ n.src \in Servers /\ (n.src = v => ~n.live)
      BY <1>6, <2>2
    <3> QED
      BY <1>2, <1>5, <2>1, <3>1, <3>2 DEF RequestSound
  <2> QED
    BY <1>3, <1>4, <2>3, <2>4, <2>5 DEF EventInv, HistoryInv, Channel
<1>9. CASE Delivered(v) \/ Rejected(v)
  <2>1. /\ requests' = requests /\ reply[v] # "none"
        /\ sent' = [sent EXCEPT ![v] = 0] /\ reply' = [reply EXCEPT ![v] = "none"]
        /\ \/ synced' = synced
           \/ reply[v] = "success" /\ synced' = [synced EXCEPT ![v] = sent[v]]
    BY <1>9 DEF Delivered, Rejected, PeerAccepted
  <2>2. CounterTyped'
    BY <1>1, <1>2, <1>5, <2>1 DEF CounterTyped
  <2>3. \A u \in Servers : InOrder(u)'
    BY <1>2, <1>5, <1>6, <2>1 DEF InOrder
  <2>4. ASSUME NEW n \in requests PROVE RequestSound(n)'
    <3>1. RequestSound(n) /\ n.src \in Servers
      BY <1>5, <1>6
    <3> QED
      BY <1>2, <1>5, <2>1, <3>1 DEF RequestSound
  <2> QED
    BY <1>3, <1>4, <2>1, <2>2, <2>3, <2>4 DEF EventInv, HistoryInv, Channel
<1> QED
  BY <1>7, <1>8, <1>9

-----------------------------------------------------------------------------
(* An event is made *)

\* Every event of a ledger was made in the past.
LEMMA LedgerIsPast ==
    ASSUME CounterTyped, Channel, TimesGrow, NEW v \in Servers, LedgerIsLog(v),
           NEW x \in ledger[v]
    PROVE  x \in EventRow /\ x.id <= now
<1>1. x \in EventRow
  BY DEF CounterTyped
<1>2. CASE \E i \in Told(v) : x = changes[v][i]
  BY <1>1, <1>2 DEF TimesGrow
<1>3. CASE \E i \in 1..watermark[Peer(v)] : x = changes[Peer(v)][i]
  <2>1. PICK i \in 1..watermark[Peer(v)] : x = changes[Peer(v)][i]
    BY <1>3
  <2>2. Peer(v) \in Servers /\ InOrder(Peer(v)) /\ changes[Peer(v)] \in Seq(EventRow)
    BY Peers DEF Channel, CounterTyped
  <2>3. i \in Told(Peer(v))
    BY <2>2 DEF InOrder, Told, CounterTyped
  <2> QED
    BY <1>1, <2>1, <2>2, <2>3 DEF TimesGrow
<1> QED
  BY <1>2, <1>3 DEF LedgerIsLog

\* The outbox and the ledger of a server gain an event of this moment.
Makes(v, e) ==
    /\ changes' = [changes EXCEPT ![v] = Append(@, e)]
    /\ ledger' = [ledger EXCEPT ![v] = @ \cup {e}]
    /\ now' = now + 1 /\ watermark' = watermark
    /\ e \in EventRow /\ e.id = now + 1
    /\ (v = "iran" => e.at = now + 1) /\ (v = "foreign" => e.at = now + 1 + Skew)

\* What the outboxes look like afterwards.
LEMMA OutboxGrows ==
    ASSUME CounterTyped, Channel, NEW v \in Servers, NEW e, Makes(v, e)
    PROVE  /\ changes' \in [Servers -> Seq(EventRow)]
           /\ Len(changes'[v]) = Len(changes[v]) + 1 /\ Len(changes[v]) \in Nat
           /\ changes'[v][Len(changes[v]) + 1] = e
           /\ \A i \in Told(v) : changes'[v][i] = changes[v][i]
           /\ \A u \in Servers : u # v => changes'[u] = changes[u]
           /\ \A u \in Servers : \A i \in Told(u) : changes'[u][i] = changes[u][i] /\ i \in Told(u)'
           /\ \A u \in Servers : \A i \in Told(u)' :
                 i \in Told(u) \/ (u = v /\ i = Len(changes[v]) + 1)
           /\ \A u \in Servers : \A i \in 1..watermark[u] :
                 i \in Told(u) /\ changes'[u][i] = changes[u][i]
<1>1. changes \in [Servers -> Seq(EventRow)] /\ changes[v] \in Seq(EventRow) /\ e \in EventRow
  BY DEF CounterTyped, Makes
<1>2. changes'[v] = Append(changes[v], e) /\ \A u \in Servers : u # v => changes'[u] = changes[u]
  BY <1>1 DEF Makes
<1>3. /\ Append(changes[v], e) \in Seq(EventRow)
      /\ Len(Append(changes[v], e)) = Len(changes[v]) + 1 /\ Len(changes[v]) \in Nat
      /\ Append(changes[v], e)[Len(changes[v]) + 1] = e
      /\ \A i \in 1..Len(changes[v]) : Append(changes[v], e)[i] = changes[v][i]
  BY <1>1
<1>4. changes' \in [Servers -> Seq(EventRow)]
  BY <1>1, <1>3 DEF Makes
<1>5. \A u \in Servers : \A i \in Told(u) : changes'[u][i] = changes[u][i] /\ i \in Told(u)'
  BY <1>1, <1>2, <1>3 DEF Told
<1>6. \A u \in Servers : \A i \in Told(u)' : i \in Told(u) \/ (u = v /\ i = Len(changes[v]) + 1)
  BY <1>1, <1>2, <1>3 DEF Told
<1>7. \A u \in Servers : \A i \in 1..watermark[u] : i \in Told(u) /\ changes'[u][i] = changes[u][i]
  <2> TAKE u \in Servers
  <2> TAKE i \in 1..watermark[u]
  <2>1. watermark[u] \in Nat /\ watermark[u] <= Len(changes[u]) /\ Len(changes[u]) \in Nat
    BY <1>1 DEF Channel, InOrder, CounterTyped
  <2>2. i \in Told(u)
    BY <2>1 DEF Told
  <2> QED
    BY <1>5, <2>2
<1> QED
  BY <1>2, <1>3, <1>4, <1>5, <1>6, <1>7 DEF Told

\* Times, ledgers and requests stay in order.
LEMMA MakesInOrder ==
    ASSUME EventInv, NEW v \in Servers, NEW e, Makes(v, e),
           UNCHANGED <<synced, sent, requests, reply>>
    PROVE  /\ TimesGrow' /\ (\A u \in Servers : LedgerIsLog(u)') /\ Channel'
           /\ ledger' \in [Servers -> SUBSET EventRow]
           /\ \A u \in Servers : IsFiniteSet(ledger'[u])
           /\ e \notin ledger[v] /\ ledger'[v] = ledger[v] \cup {e}
           /\ \A u \in Servers : u # v => ledger'[u] = ledger[u]
<1>1. /\ CounterTyped /\ Channel /\ TimesGrow /\ now \in Nat
      /\ \A u \in Servers : LedgerIsLog(u)
  BY DEF EventInv, CounterTyped
<1>2. /\ changes' \in [Servers -> Seq(EventRow)]
      /\ Len(changes'[v]) = Len(changes[v]) + 1 /\ Len(changes[v]) \in Nat
      /\ changes'[v][Len(changes[v]) + 1] = e
      /\ \A i \in Told(v) : changes'[v][i] = changes[v][i]
      /\ \A u \in Servers : u # v => changes'[u] = changes[u]
      /\ \A u \in Servers : \A i \in Told(u) : changes'[u][i] = changes[u][i] /\ i \in Told(u)'
      /\ \A u \in Servers : \A i \in Told(u)' :
            i \in Told(u) \/ (u = v /\ i = Len(changes[v]) + 1)
      /\ \A u \in Servers : \A i \in 1..watermark[u] :
            i \in Told(u) /\ changes'[u][i] = changes[u][i]
  BY <1>1, OutboxGrows
<1>3. /\ e \in EventRow /\ e.id = now + 1 /\ now' = now + 1
      /\ (v = "iran" => e.at = e.id) /\ (v = "foreign" => e.at = e.id + Skew)
      /\ watermark' = watermark
  BY DEF Makes
<1>4. \A u \in Servers : \A x \in ledger[u] : x \in EventRow /\ x.id <= now
  BY <1>1, LedgerIsPast
<1>5. e \notin ledger[v]
  BY <1>1, <1>3, <1>4
<1>6. /\ ledger'[v] = ledger[v] \cup {e} /\ \A u \in Servers : u # v => ledger'[u] = ledger[u]
      /\ ledger' \in [Servers -> SUBSET EventRow]
  BY <1>1, <1>3 DEF Makes, CounterTyped
<1>7. \A u \in Servers : IsFiniteSet(ledger'[u])
  <2>1. \A u \in Servers : IsFiniteSet(ledger[u])
    BY <1>1 DEF CounterTyped
  <2>2. IsFiniteSet(ledger[v] \cup {e})
    BY <2>1, FS_AddElement
  <2> QED
    BY <1>6, <2>1, <2>2
<1>8. TimesGrow'
  <2>1. ASSUME NEW u \in Servers, NEW i \in Told(u)'
        PROVE  /\ changes'[u][i].id <= now'
               /\ u = "iran" => changes'[u][i].at = changes'[u][i].id
               /\ u = "foreign" => changes'[u][i].at = changes'[u][i].id + Skew
               /\ changes'[u][i].id \in Nat
               /\ i \in Told(u) => changes'[u][i].id = changes[u][i].id /\ changes[u][i].id <= now
               /\ i \notin Told(u) => changes'[u][i].id = now + 1 /\ u = v
    <3>1. CASE i \in Told(u)
      <4>1. changes[u] \in Seq(EventRow) /\ changes[u][i] \in EventRow
        BY <1>1, <3>1 DEF CounterTyped, Told
      <4>2. changes'[u][i] = changes[u][i] /\ changes[u][i].id \in Nat
        BY <1>2, <3>1, <4>1 DEF EventRow
      <4> QED
        BY <1>1, <1>3, <3>1, <4>2 DEF TimesGrow
    <3>2. CASE i \notin Told(u)
      <4>1. u = v /\ changes'[u][i] = e
        BY <1>2, <2>1, <3>2
      <4> QED
        BY <1>1, <1>3, <3>2, <4>1
    <3> QED
      BY <3>1, <3>2
  <2>2. ASSUME NEW u \in Servers, NEW i \in Told(u)', NEW j \in Told(u)', i < j
        PROVE  changes'[u][i].id < changes'[u][j].id
    <3>1. CASE j \in Told(u)
      <4>1. i \in Told(u)
        BY <1>2, <2>2, <3>1 DEF Told
      <4> QED
        BY <1>1, <2>1, <2>2, <3>1, <4>1 DEF TimesGrow
    <3>2. CASE j \notin Told(u)
      <4>1. u = v /\ j = Len(changes[v]) + 1
        BY <1>2, <2>2, <3>2
      <4>2. i \in Told(u)
        BY <1>2, <2>2, <4>1 DEF Told
      <4> QED
        BY <1>1, <2>1, <3>2, <4>2
    <3> QED
      BY <3>1, <3>2
  <2>3. ASSUME NEW i \in Told("iran")', NEW j \in Told("foreign")'
        PROVE  changes'["iran"][i].id # changes'["foreign"][j].id
    <3>1. "iran" \in Servers /\ "foreign" \in Servers
      BY DEF Servers
    <3>2. CASE i \in Told("iran") /\ j \in Told("foreign")
      BY <1>1, <2>1, <3>1, <3>2 DEF TimesGrow
    <3>3. CASE i \notin Told("iran") \/ j \notin Told("foreign")
      BY <1>1, <2>1, <2>3, <3>1, <3>3
    <3> QED
      BY <3>2, <3>3
  <2> QED
    BY <2>1, <2>2, <2>3 DEF TimesGrow, Servers
<1>9. ASSUME NEW u \in Servers PROVE LedgerIsLog(u)'
  <2>1. Peer(u) \in Servers /\ LedgerIsLog(u)
    BY <1>1, Peers
  <2>2. \A x : x \in ledger[u] <=> \/ \E i \in Told(u) : x = changes[u][i]
                                   \/ \E i \in 1..watermark[Peer(u)] : x = changes[Peer(u)][i]
    BY <2>1 DEF LedgerIsLog
  <2>3. \A i \in 1..watermark[Peer(u)] : changes'[Peer(u)][i] = changes[Peer(u)][i]
    BY <1>2, <2>1
  <2>4. CASE u = v
    <3>1. Len(changes[v]) + 1 \in Told(v)'
      BY <1>2 DEF Told
    <3>2. ASSUME NEW x \in ledger'[u]
          PROVE  \/ \E i \in Told(u)' : x = changes'[u][i]
                 \/ \E i \in 1..watermark[Peer(u)] : x = changes'[Peer(u)][i]
      <4>1. CASE x = e
        BY <1>2, <2>4, <3>1, <4>1
      <4>2. CASE x # e
        <5>1. x \in ledger[u]
          BY <1>6, <2>4, <3>2, <4>2
        <5>2. CASE \E i \in Told(u) : x = changes[u][i]
          BY <1>2, <5>2
        <5>3. CASE \E i \in 1..watermark[Peer(u)] : x = changes[Peer(u)][i]
          BY <2>3, <5>3
        <5> QED
          BY <2>2, <5>1, <5>2, <5>3
      <4> QED
        BY <4>1, <4>2
    <3>3. ASSUME NEW i \in Told(u)' PROVE changes'[u][i] \in ledger'[u]
      BY <1>2, <1>6, <2>2, <2>4, <3>3
    <3>4. ASSUME NEW i \in 1..watermark[Peer(u)] PROVE changes'[Peer(u)][i] \in ledger'[u]
      BY <1>6, <2>2, <2>3, <2>4, <3>4
    <3> QED
      BY <1>3, <3>2, <3>3, <3>4 DEF LedgerIsLog
  <2>5. CASE u # v
    <3>1. ledger'[u] = ledger[u] /\ changes'[u] = changes[u]
      BY <1>2, <1>6, <2>5
    <3>2. {changes'[Peer(u)][i] : i \in 1..watermark[Peer(u)]}
            = {changes[Peer(u)][i] : i \in 1..watermark[Peer(u)]}
      BY <2>3
    <3> QED
      BY <1>3, <2>1, <3>1, <3>2 DEF LedgerIsLog, Told
  <2> QED
    BY <2>4, <2>5
<1>10. Channel'
  <2>1. \A u \in Servers : Len(changes[u]) \in Nat /\ Len(changes'[u]) \in Nat
                           /\ Len(changes[u]) <= Len(changes'[u])
    <3> TAKE u \in Servers
    <3>1. changes[u] \in Seq(EventRow) /\ changes'[u] \in Seq(EventRow)
      BY <1>1, <1>2 DEF CounterTyped
    <3>2. Len(changes[u]) \in Nat /\ Len(changes'[u]) \in Nat
      BY <3>1
    <3>3. Len(changes'[u]) = Len(changes[u]) \/ Len(changes'[u]) = Len(changes[u]) + 1
      BY <1>2
    <3> QED
      BY <3>2, <3>3
  <2>2. \A u \in Servers : InOrder(u)'
    BY <1>1, <1>3, <2>1 DEF Channel, InOrder, CounterTyped
  <2>3. ASSUME NEW m \in requests PROVE RequestSound(m)'
    <3>1. RequestSound(m) /\ m.src \in Servers /\ m.seq \in Nat
      BY <1>1 DEF Channel, CounterTyped
    <3> QED
      BY <1>3, <2>1, <3>1 DEF RequestSound
  <2> QED
    BY <2>2, <2>3 DEF Channel
<1> QED
  BY <1>5, <1>6, <1>7, <1>8, <1>9, <1>10

\* The writer's copy is gone, and the rows are in no earlier period.
LEMMA CopyUsed ==
    ASSUME CounterTyped, CopiesPast, NEW s \in Sessions, copy' = [copy EXCEPT ![s] = NoCopy],
           user' \in [Servers -> UserRow],
           \A u \in Servers : user[u].epoch <= user'[u].epoch
    PROVE  CopiesPast' /\ copy' \in [Sessions -> UserRow \cup {NoCopy}]
<1>1. /\ copy'[s] = NoCopy /\ \A q \in Sessions : q # s => copy'[q] = copy[q]
      /\ copy' \in [Sessions -> UserRow \cup {NoCopy}]
  BY DEF CounterTyped
<1>2. \A q \in Sessions : Home[q] \in Servers
  BY CounterAssumption DEF Servers
<1>3. \A u \in Servers : user[u].epoch \in Nat /\ user'[u].epoch \in Nat
  BY DEF CounterTyped, UserRow
<1>4. \A q \in Sessions : ~Idle(q) => copy[q].epoch \in Nat
  BY DEF CounterTyped, Idle, UserRow
<1> SUFFICES ASSUME NEW q \in Sessions, ~Idle(q)' PROVE copy'[q].epoch <= user'[Home[q]].epoch
  BY <1>1 DEF CopiesPast
<1>5. q # s /\ copy'[q] = copy[q] /\ ~Idle(q)
  BY <1>1 DEF Idle
<1>6. copy[q].epoch <= user[Home[q]].epoch
  BY <1>5 DEF CopiesPast
<1> QED
  BY <1>2, <1>3, <1>4, <1>5, <1>6

\* The rest of the state keeps its types when an event is made.
LEMMA QueuesTyped ==
    ASSUME CounterTyped, NEW v, NEW e, Makes(v, e), UNCHANGED <<synced, sent, requests, reply>>,
           user' \in [Servers -> UserRow], ledger' \in [Servers -> SUBSET EventRow],
           \A u \in Servers : IsFiniteSet(ledger'[u]), changes' \in [Servers -> Seq(EventRow)],
           copy' \in [Sessions -> UserRow \cup {NoCopy}]
    PROVE  CounterTyped'
<1>1. now' \in Nat /\ watermark' \in [Servers -> Nat]
  BY DEF Makes, CounterTyped
<1>2. /\ synced' \in [Servers -> Nat] /\ sent' \in [Servers -> Nat]
      /\ requests' \subseteq [src : Servers, seq : Nat \ {0}, live : BOOLEAN]
      /\ reply' \in [Servers -> {"none", "success", "partial"}]
  BY DEF CounterTyped
<1> QED
  BY <1>1, <1>2 DEF CounterTyped


\* A row is in some period of Iran's log, so not ahead of Iran's row.
LEMMA ForeignBehind ==
    ASSUME CounterTyped, Channel, EpochsGrow
    PROVE  user["foreign"].epoch <= user["iran"].epoch
<1>0. "iran" \in Servers /\ "foreign" \in Servers
  BY DEF Servers
<1>1. /\ user["iran"].epoch \in Nat /\ user["iran"].epoch >= 1
      /\ user["foreign"].epoch \in Nat
  BY <1>0 DEF CounterTyped, UserRow
<1>2. CASE user["foreign"].epoch > 1
  <2>1. PICK i \in Openings : Opens(i) = user["foreign"].epoch
    BY <1>2 DEF EpochsGrow, PeriodAt
  <2>2. i <= Len(changes["iran"])
    BY <1>0, LogTyped DEF Openings, Told
  <2> QED
    BY <2>1, <2>2 DEF EpochsGrow, PeriodAt
<1> QED
  BY <1>1, <1>2

\* Iran makes an event: a reset opens the next period, an increment none.
LEMMA IranSpeaks ==
    ASSUME CounterTyped, Channel, EpochsGrow, NEW e, Makes("iran", e),
           \/ /\ e.kind = "reset" /\ e.epoch = user["iran"].epoch + 1
              /\ user'["iran"].epoch = e.epoch
           \/ /\ e.kind = "increment" /\ e.epoch <= user["iran"].epoch
              /\ user'["iran"].epoch = user["iran"].epoch,
           user'["foreign"].epoch = user["foreign"].epoch
    PROVE  EpochsGrow'
<1>0. "iran" \in Servers /\ "foreign" \in Servers /\ "iran" # "foreign"
  BY DEF Servers
<1>n. PICK n : n = Len(changes["iran"])
  OBVIOUS
<1>1. /\ Len(changes'["iran"]) = n + 1 /\ n \in Nat
      /\ changes'["iran"][n + 1] = e
      /\ \A i \in Told("iran") : changes'["iran"][i] = changes["iran"][i]
      /\ changes'["foreign"] = changes["foreign"]
  BY <1>0, <1>n, OutboxGrows
<1>2. watermark' = watermark /\ watermark["iran"] \in 0..n
  BY <1>0, <1>n, <1>1 DEF Makes, Channel, InOrder, CounterTyped
<1>3. /\ user["iran"].epoch \in Nat /\ user["iran"].epoch >= 1 /\ e.epoch \in Nat
      /\ user["iran"].epoch <= user'["iran"].epoch /\ user'["iran"].epoch \in Nat
  <2>1. user["iran"].epoch \in Nat /\ user["iran"].epoch >= 1
    BY <1>0 DEF CounterTyped, UserRow
  <2>2. e.epoch \in Nat
    BY DEF Makes, EventRow
  <2> QED
    BY <2>1, <2>2
<1>4. Told("iran")' = Told("iran") \cup {n + 1} /\ Told("iran") = 1..n
  BY <1>n, <1>1 DEF Told
<1>5. \A i \in Openings : /\ i \in Nat /\ i <= n /\ i \in Told("iran") /\ Opens(i) \in Nat
                          /\ Opens(i)' = Opens(i) /\ i \in Openings'
  BY <1>0, <1>1, <1>4, LogTyped DEF Openings, Opens
<1>6. /\ \A i \in Openings' : i \in Openings \/ (i = n + 1 /\ e.kind = "reset")
      /\ e.kind = "reset" => n + 1 \in Openings'
      /\ Opens(n + 1)' = e.epoch
  BY <1>1, <1>4 DEF Openings, Opens
<1>7. /\ \A i \in Openings : Opens(i) <= user["iran"].epoch
      /\ user["iran"].epoch > 1 => \E i \in Openings : Opens(i) = user["iran"].epoch
  BY <1>n, <1>5 DEF EpochsGrow, PeriodAt
<1>8. ASSUME NEW i \in Told("foreign")'
      PROVE  /\ changes'["foreign"][i].kind = "increment"
             /\ changes'["foreign"][i].epoch <= user'["iran"].epoch
  <2>1. i \in Told("foreign")
    BY <1>1 DEF Told
  <2>2. changes["foreign"][i].epoch \in Nat
    BY <1>0, <2>1, LogTyped
  <2> QED
    BY <1>1, <1>3, <2>1, <2>2 DEF EpochsGrow
<1>9. \A i \in Openings' : 1 < Opens(i)'
  BY <1>3, <1>5, <1>6 DEF EpochsGrow
<1>10. ASSUME NEW i \in Openings', NEW j \in Openings', i < j PROVE Opens(i)' < Opens(j)'
  <2>1. CASE i \in Openings /\ j \in Openings
    BY <1>5, <1>10, <2>1 DEF EpochsGrow
  <2>2. CASE i \in Openings /\ j \notin Openings
    BY <1>3, <1>5, <1>6, <1>7, <2>2
  <2>3. CASE i \notin Openings
    <3>1. i = n + 1 /\ (j \in Nat /\ j <= n + 1)
      BY <1>1, <1>5, <1>6, <2>3
    <3> QED
      BY <1>1, <1>10, <3>1
  <2> QED
    BY <2>1, <2>2, <2>3
<1>11. ASSUME NEW i \in Openings', NEW k \in 2..Opens(i)'
       PROVE  \E j \in Openings' : j <= i /\ Opens(j)' = k
  <2>1. CASE i \in Openings
    <3>1. PICK j \in Openings : j <= i /\ Opens(j) = k
      BY <1>5, <1>11, <2>1 DEF EpochsGrow
    <3> QED
      BY <1>5, <3>1
  <2>2. CASE i \notin Openings
    <3>1. i = n + 1 /\ e.kind = "reset" /\ Opens(i)' = user["iran"].epoch + 1
      BY <1>6, <2>2
    <3>2. CASE k = user["iran"].epoch + 1
      BY <1>1, <3>1, <3>2
    <3>3. CASE k # user["iran"].epoch + 1
      <4>1. k \in 2..user["iran"].epoch /\ user["iran"].epoch > 1
        BY <1>3, <1>11, <3>1, <3>3
      <4>2. PICK q \in Openings : Opens(q) = user["iran"].epoch
        BY <1>7, <4>1
      <4>3. PICK j \in Openings : j <= q /\ Opens(j) = k
        BY <4>1, <4>2 DEF EpochsGrow
      <4> QED
        BY <1>1, <1>5, <3>1, <4>3
    <3> QED
      BY <3>2, <3>3
  <2> QED
    BY <2>1, <2>2
<1>12. ASSUME NEW i \in (Told("iran") \ Openings)', changes'["iran"][i].epoch > 1
       PROVE  \E j \in Openings' : j < i /\ changes'["iran"][i].epoch <= Opens(j)'
  <2>1. CASE i = n + 1
    <3>1. e.kind = "increment" /\ changes'["iran"][i] = e
      BY <1>1, <1>6, <1>12, <2>1
    <3>2. e.epoch <= user["iran"].epoch /\ user["iran"].epoch > 1
      BY <1>3, <1>12, <3>1
    <3>3. PICK j \in Openings : Opens(j) = user["iran"].epoch
      BY <1>7, <3>2
    <3>4. j < i
      BY <1>1, <1>5, <2>1
    <3> QED
      BY <1>5, <3>1, <3>2, <3>3, <3>4
  <2>2. CASE i # n + 1
    <3>1. i \in Told("iran") \ Openings /\ changes'["iran"][i] = changes["iran"][i]
      BY <1>1, <1>4, <1>5, <1>12, <2>2
    <3>2. PICK j \in Openings : j < i /\ changes["iran"][i].epoch <= Opens(j)
      BY <1>12, <3>1 DEF EpochsGrow
    <3> QED
      BY <1>5, <3>1, <3>2
  <2> QED
    BY <2>1, <2>2
<1>13. PeriodAt("iran", Len(changes["iran"]))'
  <2>1. \A i \in Openings' : Opens(i)' <= user'["iran"].epoch
    BY <1>3, <1>5, <1>6, <1>7
  <2>2. user'["iran"].epoch > 1 => \E i \in Openings' : i <= n + 1 /\ Opens(i)' = user'["iran"].epoch
    BY <1>1, <1>3, <1>5, <1>6, <1>7
  <2> QED
    BY <1>1, <2>1, <2>2 DEF PeriodAt
<1>14. PeriodAt("foreign", watermark["iran"])'
  <2>1. \A i \in Openings' : i <= watermark["iran"] => i \in Openings
    BY <1>1, <1>2, <1>6
  <2> QED
    BY <1>2, <1>5, <2>1 DEF EpochsGrow, PeriodAt
<1> QED
  BY <1>8, <1>9, <1>10, <1>11, <1>12, <1>13, <1>14 DEF EpochsGrow

\* The foreign server makes an increment: it knows no later period than Iran.
LEMMA ForeignSpeaks ==
    ASSUME CounterTyped, Channel, EpochsGrow, NEW e, Makes("foreign", e),
           e.kind = "increment", e.epoch <= user["foreign"].epoch,
           \A u \in Servers : user'[u].epoch = user[u].epoch
    PROVE  EpochsGrow'
<1>0. "iran" \in Servers /\ "foreign" \in Servers /\ "iran" # "foreign"
  BY DEF Servers
<1>1. /\ \A i \in Told("foreign")' :
            (i \in Told("foreign") /\ changes'["foreign"][i] = changes["foreign"][i])
               \/ changes'["foreign"][i] = e
      /\ changes'["iran"] = changes["iran"] /\ watermark' = watermark
  <2>1. /\ changes'["foreign"][Len(changes["foreign"]) + 1] = e
        /\ \A i \in Told("foreign") : changes'["foreign"][i] = changes["foreign"][i]
        /\ changes'["iran"] = changes["iran"]
        /\ \A i \in Told("foreign")' : i \in Told("foreign") \/ i = Len(changes["foreign"]) + 1
    BY <1>0, OutboxGrows
  <2> QED
    BY <2>1 DEF Makes
<1>2. /\ user["iran"].epoch \in Nat /\ user["foreign"].epoch \in Nat /\ e.epoch \in Nat
  BY <1>0 DEF CounterTyped, UserRow, Makes, EventRow
<1>3. e.epoch <= user["iran"].epoch
  BY <1>2, ForeignBehind
<1>4. Told("iran")' = Told("iran") /\ Openings' = Openings /\ \A i : Opens(i)' = Opens(i)
  BY <1>1 DEF Told, Openings, Opens
<1>5. \A i \in Told("foreign")' : /\ changes'["foreign"][i].kind = "increment"
                                  /\ changes'["foreign"][i].epoch <= user'["iran"].epoch
  BY <1>0, <1>1, <1>3 DEF EpochsGrow
<1>6. PeriodAt("iran", Len(changes["iran"]))' /\ PeriodAt("foreign", watermark["iran"])'
  BY <1>0, <1>1, <1>4 DEF EpochsGrow, PeriodAt
<1> QED
  BY <1>1, <1>4, <1>5, <1>6 DEF EpochsGrow

\* What an increment does.
LEMMA IncrementEffect ==
    ASSUME EventInv, NEW s \in Sessions, NEW v \in Servers, v = Home[s], Increment(s)
    PROVE  \E e : /\ Makes(v, e) /\ e.kind = "increment" /\ e.epoch = copy[s].epoch
                  /\ e.at = Clock(v)
                  /\ user' \in [Servers -> UserRow] /\ user'[v].value = copy[s].value + 1
                  /\ \A u \in Servers : user'[u].epoch = user[u].epoch
                  /\ \A u \in Servers : u # v => user'[u] = user[u]
                  /\ copy' = [copy EXCEPT ![s] = NoCopy] /\ ~Idle(s)
                  /\ UNCHANGED <<synced, sent, requests, reply>>
<1>1. /\ CounterTyped /\ now \in Nat /\ user[v] \in UserRow /\ copy[s] \in UserRow /\ ~Idle(s)
      /\ copy[s].epoch \in Nat \ {0} /\ copy[s].value \in Nat
  <2>1. CounterTyped /\ now \in Nat /\ user[v] \in UserRow /\ ~Idle(s)
    BY DEF EventInv, CounterTyped, Increment
  <2>2. copy[s] \in UserRow
    BY <2>1 DEF CounterTyped, Idle
  <2> QED
    BY <2>1, <2>2 DEF UserRow
<1>2. Clock(v) \in Int /\ (v = "iran" => Clock(v) = now + 1)
      /\ (v = "foreign" => Clock(v) = now + 1 + Skew)
  BY <1>1, CounterAssumption DEF Clock, ClockAt
<1>3. PICK e : e = [id |-> now + 1, kind |-> "increment", epoch |-> copy[s].epoch, at |-> Clock(v)]
  OBVIOUS
<1>4. /\ e \in EventRow /\ e.id = now + 1 /\ e.at = Clock(v)
      /\ e.kind = "increment" /\ e.epoch = copy[s].epoch
  BY <1>1, <1>2, <1>3 DEF EventRow
<1>5. /\ ledger' = [ledger EXCEPT ![v] = @ \cup {e}]
      /\ changes' = [changes EXCEPT ![v] = Append(@, e)] /\ now' = now + 1
      /\ watermark' = watermark
  BY <1>3 DEF Increment, Emit
<1>6. Makes(v, e)
  BY <1>2, <1>4, <1>5 DEF Makes
<1>7. /\ UNCHANGED <<synced, sent, requests, reply>> /\ copy' = [copy EXCEPT ![s] = NoCopy]
      /\ user' = [user EXCEPT ![v].value = copy[s].value + 1]
  BY DEF Increment
<1>8. /\ user' \in [Servers -> UserRow] /\ user'[v].value = copy[s].value + 1
      /\ \A u \in Servers : user'[u].epoch = user[u].epoch /\ (u # v => user'[u] = user[u])
  <2>1. PICK h : h = [user[v] EXCEPT !.value = copy[s].value + 1]
    OBVIOUS
  <2>2. h \in UserRow /\ h.value = copy[s].value + 1 /\ h.epoch = user[v].epoch
    BY <1>1, <2>1 DEF UserRow
  <2>3. user' = [user EXCEPT ![v] = h]
    BY <1>7, <2>1
  <2> QED
    BY <1>1, <2>2, <2>3 DEF CounterTyped
<1> QED
  BY <1>1, <1>2, <1>4, <1>6, <1>7, <1>8

\* What a reset does: the history check of the ledger makes it open the next period.
LEMMA ResetEffect ==
    ASSUME EventInv, NEW s \in Sessions, ResetCounters(s)
    PROVE  /\ Home[s] = "iran"
           /\ \E e : /\ Makes("iran", e) /\ e.kind = "reset" /\ e.at = now + 1
                     /\ e.epoch = user["iran"].epoch + 1
                     /\ user' \in [Servers -> UserRow] /\ user'["iran"].epoch = e.epoch
                     /\ user'["iran"].value = IF copy[s].value = 0 THEN user["iran"].value ELSE 0
                     /\ user'["foreign"] = user["foreign"]
                     /\ copy' = [copy EXCEPT ![s] = NoCopy] /\ ~Idle(s)
                     /\ UNCHANGED <<synced, sent, requests, reply>>
<1>1. Home[s] = "iran" /\ "iran" \in Servers /\ "foreign" \in Servers
  BY DEF Servers, ResetCounters
<1>2. /\ CounterTyped /\ now \in Nat /\ user["iran"] \in UserRow /\ ~Idle(s)
      /\ user["iran"].epoch \in Nat /\ user["iran"].version \in Nat /\ user["iran"].value \in Nat
  BY <1>1 DEF EventInv, CounterTyped, ResetCounters, UserRow
<1>3. copy[s].epoch = user["iran"].epoch
  <2>1. BoundaryKnown("iran")
    BY <1>1, Boundaries
  <2>2. /\ Resets(ledger["iran"]) # {} => LatestReset(ledger["iran"]).epoch = user["iran"].epoch
        /\ user["iran"].epoch = 1 <=> Resets(ledger["iran"]) = {}
    BY <1>1, <1>2, <2>1, KnownIsCoherent
  <2>3. copy[s].epoch = IF Resets(ledger["iran"]) = {} THEN 1 ELSE LatestReset(ledger["iran"]).epoch
    BY <1>1 DEF ResetCounters
  <2> QED
    BY <2>2, <2>3
<1>4. PICK e : e = [id |-> now + 1, kind |-> "reset", epoch |-> user["iran"].epoch + 1,
                    at |-> now + 1]
  OBVIOUS
<1>5. /\ e \in EventRow /\ e.id = now + 1 /\ e.at = now + 1
      /\ e.kind = "reset" /\ e.epoch = user["iran"].epoch + 1
  BY <1>2, <1>4 DEF EventRow
<1>6. Makes("iran", e)
  <2>1. Clock("iran") = now + 1
    BY <1>2 DEF Clock, ClockAt
  <2>2. /\ ledger' = [ledger EXCEPT !["iran"] = @ \cup {e}]
        /\ changes' = [changes EXCEPT !["iran"] = Append(@, e)] /\ now' = now + 1
        /\ watermark' = watermark
    BY <1>1, <1>3, <1>4, <2>1 DEF ResetCounters, Emit
  <2> QED
    BY <1>5, <2>2 DEF Makes
<1>7. PICK changed \in BOOLEAN :
         user' = [user EXCEPT !["iran"] =
                    [value   |-> IF copy[s].value = 0 THEN user["iran"].value ELSE 0,
                     epoch   |-> copy[s].epoch + 1,
                     version |-> IF changed THEN user["iran"].version + 1
                                            ELSE user["iran"].version]]
  BY <1>1 DEF ResetCounters
<1>8. UNCHANGED <<synced, sent, requests, reply>> /\ copy' = [copy EXCEPT ![s] = NoCopy]
  BY DEF ResetCounters
<1>9. PICK h : h = [value   |-> IF copy[s].value = 0 THEN user["iran"].value ELSE 0,
                    epoch   |-> copy[s].epoch + 1,
                    version |-> IF changed THEN user["iran"].version + 1
                                           ELSE user["iran"].version]
  OBVIOUS
<1>10. /\ h \in UserRow /\ h.epoch = e.epoch
       /\ h.value = IF copy[s].value = 0 THEN user["iran"].value ELSE 0
  BY <1>2, <1>3, <1>5, <1>9 DEF UserRow
<1>11. user' = [user EXCEPT !["iran"] = h]
  BY <1>7, <1>9
<1>12. /\ user' \in [Servers -> UserRow] /\ user'["iran"] = h
       /\ user'["foreign"] = user["foreign"]
  BY <1>1, <1>2, <1>10, <1>11 DEF CounterTyped
<1> QED
  BY <1>1, <1>2, <1>5, <1>6, <1>8, <1>10, <1>12

\* An increment, with a copy however old, is of no later period than the row.
LEMMA IncrementStep ==
    ASSUME EventInv, NEW s \in Sessions, Increment(s) PROVE EventInv'
<1>1. PICK v \in Servers : v = Home[s]
  BY CounterAssumption DEF Servers
<1>2. CounterTyped /\ Channel /\ CopiesPast /\ EpochsGrow
  BY DEF EventInv
<1>3. PICK e : /\ Makes(v, e) /\ e.kind = "increment" /\ e.epoch = copy[s].epoch
               /\ user' \in [Servers -> UserRow]
               /\ \A u \in Servers : user'[u].epoch = user[u].epoch
               /\ copy' = [copy EXCEPT ![s] = NoCopy] /\ ~Idle(s)
               /\ UNCHANGED <<synced, sent, requests, reply>>
  BY <1>1, IncrementEffect
<1>4. /\ TimesGrow' /\ (\A u \in Servers : LedgerIsLog(u)') /\ Channel'
      /\ ledger' \in [Servers -> SUBSET EventRow]
      /\ \A u \in Servers : IsFiniteSet(ledger'[u])
  BY <1>3, MakesInOrder
<1>5. \A u \in Servers : user[u].epoch <= user'[u].epoch
  BY <1>2, <1>3 DEF CounterTyped, UserRow
<1>6. CopiesPast' /\ copy' \in [Sessions -> UserRow \cup {NoCopy}]
  BY <1>2, <1>3, <1>5, CopyUsed
<1>7. CounterTyped'
  <2>1. changes' \in [Servers -> Seq(EventRow)]
    BY <1>2, <1>3, OutboxGrows
  <2> QED
    BY <1>2, <1>3, <1>4, <1>6, <2>1, QueuesTyped
<1>8. e.epoch <= user[v].epoch
  BY <1>1, <1>2, <1>3 DEF CopiesPast
<1>9. EpochsGrow'
  <2>1. CASE v = "iran"
    BY <1>2, <1>3, <1>8, <2>1, IranSpeaks DEF Servers
  <2>2. CASE v = "foreign"
    BY <1>2, <1>3, <1>8, <2>2, ForeignSpeaks
  <2> QED
    BY <2>1, <2>2 DEF Servers
<1> QED
  BY <1>4, <1>6, <1>7, <1>9 DEF EventInv

\* A reset on Iran opens the next period.
LEMMA ResetStep ==
    ASSUME EventInv, NEW s \in Sessions, ResetCounters(s) PROVE EventInv'
<1>1. CounterTyped /\ Channel /\ CopiesPast /\ EpochsGrow
  BY DEF EventInv
<1>2. PICK e : /\ Makes("iran", e) /\ e.kind = "reset"
               /\ e.epoch = user["iran"].epoch + 1
               /\ user' \in [Servers -> UserRow] /\ user'["iran"].epoch = e.epoch
               /\ user'["foreign"] = user["foreign"]
               /\ copy' = [copy EXCEPT ![s] = NoCopy]
               /\ UNCHANGED <<synced, sent, requests, reply>>
  BY ResetEffect
<1>3. "iran" \in Servers
  BY DEF Servers
<1>4. /\ TimesGrow' /\ (\A u \in Servers : LedgerIsLog(u)') /\ Channel'
      /\ ledger' \in [Servers -> SUBSET EventRow]
      /\ \A u \in Servers : IsFiniteSet(ledger'[u])
  BY <1>2, <1>3, MakesInOrder
<1>5. \A u \in Servers : user[u].epoch <= user'[u].epoch
  <2>1. \A u \in Servers : user[u].epoch \in Nat
    BY <1>1 DEF CounterTyped, UserRow
  <2> QED
    BY <1>2, <2>1 DEF Servers
<1>6. CopiesPast' /\ copy' \in [Sessions -> UserRow \cup {NoCopy}]
  BY <1>1, <1>2, <1>5, CopyUsed
<1>7. CounterTyped'
  <2>1. changes' \in [Servers -> Seq(EventRow)]
    BY <1>1, <1>2, <1>3, OutboxGrows
  <2> QED
    BY <1>1, <1>2, <1>4, <1>6, <2>1, QueuesTyped
<1>8. EpochsGrow'
  BY <1>1, <1>2, IranSpeaks
<1> QED
  BY <1>4, <1>6, <1>7, <1>8 DEF EventInv

-----------------------------------------------------------------------------
(* An event arrives *)

\* The row after the watermark is new to the peer, and is taken: an increment is
\* counted or left out, a reset opens the next period.  What can go wrong is a time too
\* far ahead, or a full counter.
LEMMA NextIsTaken ==
    ASSUME EventInv, NEW w \in Servers, watermark[w] < Len(changes[w]),
           NEW e, e = changes[w][watermark[w] + 1]
    PROVE  /\ e \in EventRow /\ e \notin ledger[Peer(w)]
           /\ TooFarAhead(Peer(w), e) => Decision(Peer(w), e) = "error"
           /\ ~TooFarAhead(Peer(w), e) /\ e.kind = "increment" =>
                Decision(Peer(w), e) = IF BeforeBoundary(Peer(w), e) THEN "excluded"
                                       ELSE IF user[Peer(w)].value >= MaxValue
                                            THEN "error" ELSE "counted"
           /\ ~TooFarAhead(Peer(w), e) /\ e.kind = "reset" =>
                Decision(Peer(w), e) = IF Rebuilt(ledger[Peer(w)], e.at) > MaxValue
                                       THEN "error" ELSE "rebuilt"
           /\ e.kind = "reset" => w = "iran" /\ e.epoch = user["foreign"].epoch + 1
<1>1. PICK v \in Servers : v = Peer(w) /\ Peer(v) = w /\ v # w
  BY Peers
<1>2. /\ CounterTyped /\ Channel /\ TimesGrow /\ EpochsGrow
      /\ LedgerIsLog(v) /\ BoundaryKnown(v)
  BY Boundaries DEF EventInv
<1>3. PICK n \in Nat : n = watermark[w] + 1
  BY <1>2 DEF CounterTyped
<1>4. n \in Told(w) /\ changes[w] \in Seq(EventRow) /\ watermark[w] \in Nat /\ n >= 1
  BY <1>2, <1>3 DEF CounterTyped, Told
<1>5. e \in EventRow /\ e = changes[w][n]
  BY <1>3, <1>4 DEF Told
<1>6. \A x \in ledger[v] : x.id # e.id
  <2>1. ASSUME NEW i \in Told(v) PROVE changes[v][i].id # e.id
    <3>1. CASE v = "iran"
      BY <1>1, <1>2, <1>4, <1>5, <3>1 DEF TimesGrow, Servers
    <3>2. CASE v = "foreign"
      BY <1>1, <1>2, <1>4, <1>5, <3>2 DEF TimesGrow, Servers
    <3> QED
      BY <3>1, <3>2 DEF Servers
  <2>2. ASSUME NEW i \in 1..watermark[w] PROVE changes[w][i].id # e.id
    <3>1. i \in Told(w) /\ i < n
      BY <1>3, <1>4 DEF Told
    <3>2. changes[w][i].id < e.id
      BY <1>2, <1>4, <1>5, <3>1 DEF TimesGrow
    <3>3. changes[w][i] \in EventRow
      BY <1>4, <3>1 DEF Told
    <3>4. changes[w][i].id \in Nat /\ e.id \in Nat
      BY <1>5, <3>3 DEF EventRow
    <3> QED
      BY <3>2, <3>4
  <2> QED
    BY <1>1, <1>2, <2>1, <2>2 DEF LedgerIsLog
<1>7. e \notin ledger[v]
  BY <1>6
<1>8. /\ Coherent(v)
      /\ Resets(ledger[v]) # {} => LatestReset(ledger[v]) \in Resets(ledger[v])
      /\ user[v].epoch = 1 <=> Resets(ledger[v]) = {}
      /\ user[v].epoch \in Nat /\ user[v].epoch >= 1
  BY <1>2, KnownIsCoherent
<1>9. e.kind \in {"increment", "reset"} /\ e.epoch \in Nat /\ e.at \in Int
  BY <1>5 DEF EventRow
<1>10. CASE w = "iran"
  <2>1. v = "foreign"
    BY <1>1, <1>10 DEF Servers
  <2>2. /\ \A i \in Openings : i <= watermark["iran"] => Opens(i) <= user[v].epoch
        /\ user[v].epoch > 1 =>
              \E i \in Openings : i <= watermark["iran"] /\ Opens(i) = user[v].epoch
    BY <1>2, <2>1 DEF EpochsGrow, PeriodAt
  <2>3. \A i \in Openings : i \in Told("iran") /\ i \in Nat /\ Opens(i) \in Nat
    BY <1>2, <1>10, LogTyped DEF Openings, Opens
  <2>4. watermark["iran"] \in Nat /\ n = watermark["iran"] + 1
    BY <1>3, <1>4, <1>10
  <2>5. CASE e.kind = "increment"
    <3>1. n \in Told("iran") \ Openings
      BY <1>4, <1>5, <1>10, <2>5 DEF Openings
    <3>2. ~(e.epoch > user[v].epoch + 1)
      <4>1. CASE e.epoch > 1
        <5>1. PICK j \in Openings : j < n /\ e.epoch <= Opens(j)
          BY <1>2, <1>5, <1>10, <3>1, <4>1 DEF EpochsGrow
        <5>2. Opens(j) <= user[v].epoch
          BY <2>2, <2>3, <2>4, <5>1
        <5> QED
          BY <1>8, <1>9, <2>3, <5>1, <5>2
      <4>2. CASE ~(e.epoch > 1)
        BY <1>8, <1>9, <4>2
      <4> QED
        BY <4>1, <4>2
    <3> QED
      BY <1>1, <1>5, <1>7, <1>8, <2>5, <3>2 DEF Decision
  <2>6. CASE e.kind = "reset"
    <3>1. n \in Openings /\ Opens(n) = e.epoch
      BY <1>4, <1>5, <1>10, <2>6 DEF Openings, Opens
    <3>2. e.epoch > user[v].epoch
      <4>1. CASE user[v].epoch > 1
        <5>1. PICK i \in Openings : i <= watermark["iran"] /\ Opens(i) = user[v].epoch
          BY <2>2, <4>1
        <5>2. i < n
          BY <2>3, <2>4, <5>1
        <5>3. Opens(i) < Opens(n)
          BY <1>2, <3>1, <5>2 DEF EpochsGrow
        <5> QED
          BY <2>3, <3>1, <5>1, <5>3
      <4>2. CASE ~(user[v].epoch > 1)
        <5>1. 1 < e.epoch
          BY <1>2, <3>1 DEF EpochsGrow
        <5> QED
          BY <1>8, <1>9, <4>2, <5>1
      <4> QED
        BY <4>1, <4>2
    <3>3. e.epoch <= user[v].epoch + 1
      <4> SUFFICES ASSUME e.epoch > user[v].epoch + 1 PROVE FALSE
        BY <1>8, <1>9
      <4>1. user[v].epoch + 1 \in 2..Opens(n)
        BY <1>8, <1>9, <3>1
      <4>2. PICK j \in Openings : j <= n /\ Opens(j) = user[v].epoch + 1
        BY <1>2, <3>1, <4>1 DEF EpochsGrow
      <4>3. j # n
        BY <1>8, <1>9, <3>1, <4>2
      <4>4. j <= watermark["iran"]
        BY <1>3, <2>3, <2>4, <4>2, <4>3
      <4>5. Opens(j) <= user[v].epoch
        BY <2>2, <4>4
      <4> QED
        BY <1>8, <4>2, <4>5
    <3>4. e.epoch = user[v].epoch + 1
      BY <1>8, <1>9, <3>2, <3>3
    <3>5. user[v].epoch > 1 => ~(e.at <= LatestReset(ledger[v]).at)
      <4> SUFFICES ASSUME user[v].epoch > 1 PROVE ~(e.at <= LatestReset(ledger[v]).at)
        OBVIOUS
      <4>1. PICK r \in Resets(ledger[v]) : r = LatestReset(ledger[v])
        BY <1>8
      <4>2. PICK i \in Openings : i <= Reach(v) /\ r = changes["iran"][i]
        BY KnownResets
      <4>3. i \in Told("iran") /\ i < n
        BY <1>10, <2>1, <2>3, <2>4, <4>2 DEF Reach
      <4>4. r.id < e.id /\ r.at = r.id /\ e.at = e.id
        BY <1>2, <1>4, <1>5, <1>10, <4>2, <4>3 DEF TimesGrow
      <4>5. r.id \in Nat /\ e.id \in Nat
        BY <1>2, <1>4, <1>5, <1>10, <4>2, <4>3, LogTyped
      <4> QED
        BY <4>1, <4>4, <4>5
    <3> QED
      BY <1>1, <1>5, <1>7, <1>8, <1>10, <2>1, <2>6, <3>2, <3>4, <3>5 DEF Decision
  <2> QED
    BY <1>9, <2>5, <2>6
<1>11. CASE w = "foreign"
  <2>1. v = "iran"
    BY <1>1, <1>11 DEF Servers
  <2>2. e.kind = "increment" /\ e.epoch <= user["iran"].epoch
    BY <1>2, <1>4, <1>5, <1>11 DEF EpochsGrow
  <2>3. ~(e.epoch > user[v].epoch + 1)
    BY <1>8, <1>9, <2>1, <2>2
  <2> QED
    BY <1>1, <1>5, <1>7, <1>8, <2>2, <2>3 DEF Decision
<1> QED
  BY <1>10, <1>11 DEF Servers

\* A request is answered: the sender learns of success only what the watermark has.
LEMMA AnswerStep ==
    ASSUME CounterTyped, Channel, NEW m \in requests, requests' = requests \ {m},
           UNCHANGED <<changes, synced, sent>>,
           watermark' \in [Servers -> Nat],
           \A u \in Servers : watermark[u] <= watermark'[u] /\ watermark'[u] <= Len(changes[u]),
           NEW a \in {"success", "partial"}, Reply(m, a),
           a = "success" => m.seq <= watermark'[m.src]
    PROVE  /\ Channel' /\ reply' \in [Servers -> {"none", "success", "partial"}]
           /\ requests' \subseteq [src : Servers, seq : Nat \ {0}, live : BOOLEAN]
<1>1. /\ synced \in [Servers -> Nat] /\ watermark \in [Servers -> Nat]
      /\ sent \in [Servers -> Nat] /\ \A u \in Servers : Len(changes[u]) \in Nat
      /\ reply \in [Servers -> {"none", "success", "partial"}]
      /\ requests \subseteq [src : Servers, seq : Nat \ {0}, live : BOOLEAN]
      /\ \A u \in Servers : InOrder(u)
      /\ \A n \in requests : RequestSound(n)
  BY DEF CounterTyped, Channel
<1>2. /\ m \in [src : Servers, seq : Nat \ {0}, live : BOOLEAN]
      /\ m.src \in Servers /\ m.seq \in Nat \ {0} /\ RequestSound(m)
  BY <1>1
<1>3. /\ reply' \in [Servers -> {"none", "success", "partial"}]
      /\ m.live => reply'[m.src] = a
      /\ ~m.live => reply'[m.src] = reply[m.src]
      /\ \A u \in Servers : u # m.src => reply'[u] = reply[u]
  BY <1>1, <1>2 DEF Reply
<1>4. ASSUME NEW u \in Servers PROVE InOrder(u)'
  <2>1. InOrder(u)
    BY <1>1
  <2>2. CASE u = m.src /\ m.live
    BY <1>1, <1>2, <1>3, <2>1, <2>2 DEF InOrder, RequestSound
  <2>3. CASE ~(u = m.src /\ m.live)
    <3>1. reply'[u] = reply[u]
      BY <1>3, <2>3
    <3> QED
      BY <1>1, <2>1, <3>1 DEF InOrder
  <2> QED
    BY <2>2, <2>3
<1>5. ASSUME NEW n \in requests' PROVE RequestSound(n)'
  <2>1. /\ n \in requests /\ n # m /\ RequestSound(n)
        /\ n \in [src : Servers, seq : Nat \ {0}, live : BOOLEAN]
        /\ n.src \in Servers /\ n.seq \in Nat \ {0}
    BY <1>1
  <2>2. n.live => ~(n.src = m.src /\ m.live)
    <3> SUFFICES ASSUME n.live, m.live, n.src = m.src PROVE FALSE
      OBVIOUS
    <3>1. n.seq = m.seq
      BY <1>2, <2>1 DEF RequestSound
    <3>2. n.live = TRUE /\ m.live = TRUE
      BY <1>2, <2>1
    <3> QED
      BY <1>2, <2>1, <3>1, <3>2
  <2>3. n.live => reply'[n.src] = reply[n.src]
    BY <1>3, <2>1, <2>2
  <2> QED
    BY <1>1, <2>1, <2>3 DEF RequestSound
<1> QED
  BY <1>1, <1>3, <1>4, <1>5 DEF Channel

\* A refused request is sent again later.
LEMMA RefuseStep ==
    ASSUME EventInv, NEW m \in requests, Refuse(m)
    PROVE  EventInv'
<1>1. CounterTyped /\ Channel /\ CopiesPast /\ HistoryInv
  BY DEF EventInv, HistoryInv
<1>2. /\ UNCHANGED <<user, ledger, changes, synced, watermark, sent, copy, now>>
      /\ requests' = requests \ {m} /\ Reply(m, "partial")
  BY DEF Refuse
<1>3. HistoryInv'
  BY <1>1, <1>2, HistoryStays DEF LedgerSide
<1>4. CopiesPast'
  BY <1>1, <1>2 DEF CopiesPast, Idle
<1>5. /\ Channel' /\ reply' \in [Servers -> {"none", "success", "partial"}]
      /\ requests' \subseteq [src : Servers, seq : Nat \ {0}, live : BOOLEAN]
  <2>1. /\ watermark' \in [Servers -> Nat]
        /\ \A u \in Servers : watermark[u] <= watermark'[u] /\ watermark'[u] <= Len(changes[u])
    BY <1>1, <1>2 DEF CounterTyped, Channel, InOrder
  <2> QED
    BY <1>1, <1>2, <2>1, AnswerStep
<1>6. CounterTyped'
  BY <1>1, <1>2, <1>5 DEF CounterTyped
<1> QED
  BY <1>3, <1>4, <1>5, <1>6 DEF EventInv, HistoryInv

\* The watermark of a source moves on by one: the peer's ledger has the next event.
LEMMA LedgerFollows ==
    ASSUME EventInv, NEW w \in Servers, NEW v \in Servers, v = Peer(w),
           watermark[w] < Len(changes[w]), NEW e, e = changes[w][watermark[w] + 1],
           changes' = changes, watermark' = [watermark EXCEPT ![w] = watermark[w] + 1],
           ledger'[v] = ledger[v] \cup {e}, ledger'[w] = ledger[w]
    PROVE  LedgerIsLog(v)' /\ LedgerIsLog(w)'
<1>1. /\ Peer(w) = v /\ Peer(v) = w /\ v # w
      /\ LedgerIsLog(v) /\ LedgerIsLog(w)
      /\ watermark \in [Servers -> Nat] /\ watermark[w] \in Nat
  BY Peers DEF EventInv, CounterTyped
<1>2. watermark'[w] = watermark[w] + 1 /\ watermark'[v] = watermark[v]
  BY <1>1
<1>3. LedgerIsLog(w)'
  BY <1>1, <1>2 DEF LedgerIsLog, Told
<1>4. {changes[w][i] : i \in 1..(watermark[w] + 1)} = {changes[w][i] : i \in 1..watermark[w]} \cup {e}
  BY <1>1
<1>5. LedgerIsLog(v)'
  BY <1>1, <1>2, <1>4 DEF LedgerIsLog, Told
<1> QED
  BY <1>3, <1>5

\* The periods go on as the foreign server follows Iran.
LEMMA EpochsFollow ==
    ASSUME EventInv, NEW w \in Servers, changes' = changes,
           watermark[w] < Len(changes[w]), NEW e, e = changes[w][watermark[w] + 1],
           watermark' = [watermark EXCEPT ![w] = watermark[w] + 1],
           user'["iran"].epoch = user["iran"].epoch,
           \/ e.kind = "increment" /\ user'["foreign"].epoch = user["foreign"].epoch
           \/ /\ e.kind = "reset" /\ w = "iran" /\ e.epoch = user["foreign"].epoch + 1
              /\ user'["foreign"].epoch = e.epoch
    PROVE  EpochsGrow'
<1>0. "iran" \in Servers /\ "foreign" \in Servers
  BY DEF Servers
<1>1. /\ EpochsGrow /\ CounterTyped /\ watermark["iran"] \in Nat
      /\ user["foreign"].epoch \in Nat /\ Len(changes["iran"]) \in Nat
  BY <1>0, LogTyped DEF EventInv, CounterTyped, UserRow
<1>2. Told("iran")' = Told("iran") /\ Told("foreign")' = Told("foreign") /\ Openings' = Openings
      /\ \A i : Opens(i)' = Opens(i)
  BY DEF Told, Openings, Opens
<1>3. PeriodAt("iran", Len(changes["iran"]))'
  BY <1>1, <1>2 DEF EpochsGrow, PeriodAt
<1>4. PeriodAt("foreign", watermark["iran"])'
  <2>0. \A i \in Openings : i \in Told("iran") /\ i \in Nat /\ Opens(i) \in Nat
    BY <1>0, <1>1, LogTyped DEF Openings, Opens
  <2>1. CASE w = "iran"
    <3>1. watermark'["iran"] = watermark["iran"] + 1
      BY <1>1, <2>1 DEF CounterTyped
    <3>2. watermark["iran"] + 1 \in Told("iran")
      BY <1>1, <2>1 DEF Told
    <3>3. /\ \A i \in Openings : i <= watermark["iran"] => Opens(i) <= user["foreign"].epoch
          /\ user["foreign"].epoch > 1 =>
                \E i \in Openings : i <= watermark["iran"] /\ Opens(i) = user["foreign"].epoch
      BY <1>1 DEF EpochsGrow, PeriodAt
    <3>4. ASSUME NEW i \in Openings, i <= watermark["iran"] + 1
          PROVE  i <= watermark["iran"] \/ (i = watermark["iran"] + 1 /\ e.kind = "reset")
      BY <1>1, <2>0, <2>1, <3>4 DEF Openings
    <3>5. CASE e.kind = "increment" /\ user'["foreign"].epoch = user["foreign"].epoch
      <4>1. \A i \in Openings : i <= watermark["iran"] + 1 => Opens(i) <= user'["foreign"].epoch
        BY <3>3, <3>4, <3>5
      <4>2. user'["foreign"].epoch > 1 =>
               \E i \in Openings : i <= watermark["iran"] + 1 /\ Opens(i) = user'["foreign"].epoch
        BY <1>1, <2>0, <3>3, <3>5
      <4> QED
        BY <1>2, <3>1, <4>1, <4>2 DEF PeriodAt
    <3>6. CASE /\ e.kind = "reset" /\ e.epoch = user["foreign"].epoch + 1
               /\ user'["foreign"].epoch = e.epoch
      <4>1. /\ watermark["iran"] + 1 \in Openings
            /\ Opens(watermark["iran"] + 1) = user'["foreign"].epoch
        BY <2>1, <3>2, <3>6 DEF Openings, Opens
      <4>2. \A i \in Openings : i <= watermark["iran"] + 1 => Opens(i) <= user'["foreign"].epoch
        BY <1>1, <2>0, <3>3, <3>4, <3>6, <4>1
      <4> QED
        BY <1>1, <1>2, <3>1, <4>1, <4>2 DEF PeriodAt
    <3> QED
      BY <3>5, <3>6
  <2>2. CASE w # "iran"
    <3>1. watermark'["iran"] = watermark["iran"] /\ user'["foreign"].epoch = user["foreign"].epoch
      BY <1>0, <1>1, <2>2 DEF CounterTyped
    <3> QED
      BY <1>1, <1>2, <3>1 DEF EpochsGrow, PeriodAt
  <2> QED
    BY <2>1, <2>2
<1> QED
  BY <1>1, <1>2, <1>3, <1>4 DEF EpochsGrow

\* A request that passes the watermark carries the next row of its source.
LEMMA PassesIsNext ==
    ASSUME EventInv, NEW m \in requests, Passes(m)
    PROVE  /\ m.src \in Servers /\ m.seq = watermark[m.src] + 1
           /\ watermark[m.src] \in Nat /\ watermark[m.src] < Len(changes[m.src])
<1>1. /\ m.src \in Servers /\ m.seq \in Nat /\ RequestSound(m)
  BY DEF EventInv, CounterTyped, Channel
<1>2. watermark[m.src] \in Nat /\ changes[m.src] \in Seq(EventRow)
  BY <1>1 DEF EventInv, CounterTyped
<1>3. Len(changes[m.src]) \in Nat
  BY <1>2
<1> QED
  BY <1>1, <1>2, <1>3 DEF RequestSound, Passes

\* The receiver takes the event of request m
Taken(m) == Passes(m) /\ Decision(Peer(m.src), changes[m.src][m.seq]) # "error"

\* Server v takes event e, the next one of source w, from request m: its ledger has it,
\* and its row counts it, leaves it out or is rebuilt.
Takes(m, w, v, e) ==
    /\ e \in EventRow /\ e \notin ledger[v]
    /\ m.seq = watermark[w] + 1 /\ watermark[w] < Len(changes[w])
    /\ ledger'[v] = ledger[v] \cup {e} /\ ledger'[w] = ledger[w]
    /\ ledger' \in [Servers -> SUBSET EventRow]
    /\ \A u \in Servers : IsFiniteSet(ledger'[u])
    /\ watermark' = [watermark EXCEPT ![w] = watermark[w] + 1]
    /\ user' \in [Servers -> UserRow] /\ user'[w] = user[w]
    /\ stray' = [stray EXCEPT ![v] = @ /\ e.kind # "reset"]
    /\ \/ /\ e.kind = "increment" /\ user'[v].epoch = user[v].epoch
          /\ user'[v].value = IF BeforeBoundary(v, e) THEN user[v].value
                                                      ELSE user[v].value + 1
       \/ /\ e.kind = "reset" /\ w = "iran" /\ v = "foreign"
          /\ e.epoch = user[v].epoch + 1 /\ user'[v].epoch = e.epoch
          /\ user'[v].value = Rebuilt(ledger[v], e.at)
    /\ requests' = requests \ {m} /\ Reply(m, "success")
    /\ UNCHANGED <<changes, synced, sent, copy, now>>

\* That is what the receipt of a request does when the event is taken.
LEMMA TakeEffect ==
    ASSUME EventInv, NEW m \in requests, ReceiveEvent(m), Taken(m),
           NEW w \in Servers, w = m.src, NEW v \in Servers, v = Peer(w),
           NEW e, e = changes[w][watermark[w] + 1]
    PROVE  Takes(m, w, v, e)
<1>2. Peer(v) = w /\ v # w
  BY Peers
<1>4. /\ m.seq = watermark[w] + 1 /\ watermark[w] \in Nat
      /\ watermark[w] < Len(changes[w]) /\ Passes(m) /\ Decision(v, e) # "error"
  <2>1. Passes(m) /\ Decision(v, changes[w][m.seq]) # "error"
    BY DEF Taken
  <2>2. /\ m.seq = watermark[w] + 1 /\ watermark[w] \in Nat
        /\ watermark[w] < Len(changes[w])
    BY <2>1, PassesIsNext
  <2> QED
    BY <2>1, <2>2
<1>5. /\ e \in EventRow /\ e \notin ledger[v]
      /\ e.kind = "increment" =>
           Decision(v, e) = IF BeforeBoundary(v, e) THEN "excluded" ELSE "counted"
      /\ e.kind = "reset" => /\ Decision(v, e) = "rebuilt"
                             /\ w = "iran" /\ e.epoch = user["foreign"].epoch + 1
  BY <1>2, <1>4, NextIsTaken
<1>6. e.kind \in {"increment", "reset"} /\ e.epoch \in Nat \ {0} /\ e.at \in Int
  BY <1>5 DEF EventRow
<1>7. PICK d : d = Decision(v, e) /\ d \in {"excluded", "counted", "rebuilt"}
  BY <1>5, <1>6
<1>8. CounterTyped /\ user[v] \in UserRow
  BY DEF EventInv, CounterTyped
<1>9. /\ requests' = requests \ {m} /\ Apply(v, e, d)
      /\ watermark' = [watermark EXCEPT ![w] = watermark[w] + 1]
      /\ Reply(m, "success")
      /\ UNCHANGED <<changes, synced, sent, copy, now>>
  BY <1>2, <1>4, <1>7 DEF ReceiveEvent
<1>10. /\ ledger' = [ledger EXCEPT ![v] = @ \cup {e}]
       /\ ledger'[v] = ledger[v] \cup {e}
       /\ \A u \in Servers : u # v => ledger'[u] = ledger[u]
       /\ ledger' \in [Servers -> SUBSET EventRow]
  BY <1>5, <1>7, <1>8, <1>9 DEF Apply, CounterTyped
<1>11. \A u \in Servers : IsFiniteSet(ledger'[u])
  <2>1. \A u \in Servers : IsFiniteSet(ledger[u])
    BY <1>8 DEF CounterTyped
  <2>2. IsFiniteSet(ledger[v] \cup {e})
    BY <2>1, FS_AddElement
  <2> QED
    BY <1>10, <2>1, <2>2
<1>12. PICK h \in UserRow :
         /\ user' = [user EXCEPT ![v] = h]
         /\ d = "excluded" => h = user[v]
         /\ d = "counted" => h.value = user[v].value + 1 /\ h.epoch = user[v].epoch
         /\ d = "rebuilt" => h.value = Rebuilt(ledger[v], e.at) /\ h.epoch = e.epoch
  <2>1. CASE d = "excluded"
    BY <1>8, <1>9, <2>1 DEF Apply
  <2>2. CASE d = "counted"
    <3>1. PICK h : h = [user[v] EXCEPT !.value = user[v].value + 1]
      OBVIOUS
    <3>2. h \in UserRow /\ h.value = user[v].value + 1 /\ h.epoch = user[v].epoch
      BY <1>8, <3>1 DEF UserRow
    <3>3. user' = [user EXCEPT ![v] = h]
      BY <1>9, <2>2, <3>1 DEF Apply
    <3> QED
      BY <2>2, <3>2, <3>3
  <2>3. CASE d = "rebuilt"
    <3>1. PICK h : h = [user[v] EXCEPT !.value = Rebuilt(ledger[v], e.at), !.epoch = e.epoch]
      OBVIOUS
    <3>2. Rebuilt(ledger[v], e.at) \in Nat
      <4>1. {x \in Increments(ledger[v]) : x.at >= e.at} \subseteq ledger[v]
        BY DEF Increments
      <4>2. IsFiniteSet(ledger[v])
        BY <1>8 DEF CounterTyped
      <4>3. IsFiniteSet({x \in Increments(ledger[v]) : x.at >= e.at})
        BY <4>1, <4>2, FS_Subset
      <4> QED
        BY <4>3, FS_CardinalityType DEF Rebuilt
    <3>3. h \in UserRow /\ h.value = Rebuilt(ledger[v], e.at) /\ h.epoch = e.epoch
      BY <1>6, <1>8, <3>1, <3>2 DEF UserRow
    <3>4. user' = [user EXCEPT ![v] = h]
      BY <1>9, <2>3, <3>1 DEF Apply
    <3> QED
      BY <2>3, <3>3, <3>4
  <2> QED
    BY <1>7, <2>1, <2>2, <2>3
<1>13. /\ user' \in [Servers -> UserRow] /\ user'[v] = h
       /\ \A u \in Servers : u # v => user'[u] = user[u]
  BY <1>8, <1>12 DEF CounterTyped
<1>14. \/ /\ e.kind = "increment" /\ h.epoch = user[v].epoch
          /\ h.value = IF BeforeBoundary(v, e) THEN user[v].value ELSE user[v].value + 1
       \/ /\ e.kind = "reset" /\ w = "iran" /\ v = "foreign"
          /\ e.epoch = user[v].epoch + 1 /\ h.epoch = e.epoch
          /\ h.value = Rebuilt(ledger[v], e.at)
  <2>1. CASE e.kind = "increment"
    BY <1>5, <1>7, <1>12, <2>1
  <2>2. CASE e.kind = "reset"
    <3>1. v = "foreign" /\ w = "iran"
      BY <1>2, <1>5, <2>2 DEF Peer
    <3> QED
      BY <1>5, <1>7, <1>12, <2>2, <3>1
  <2> QED
    BY <1>6, <2>1, <2>2
<1>15. ledger'[w] = ledger[w] /\ user'[w] = user[w]
  BY <1>2, <1>10, <1>13
<1>16. stray' = [stray EXCEPT ![v] = @ /\ e.kind # "reset"]
  <2>1. (d # "rebuilt") = (e.kind # "reset")
    BY <1>5, <1>6, <1>7
  <2>2. stray' = [stray EXCEPT ![v] = @ /\ d # "rebuilt"]
    BY <1>9 DEF Apply
  <2> QED
    BY <2>1, <2>2
<1> QED
  BY <1>4, <1>5, <1>9, <1>10, <1>11, <1>13, <1>14, <1>15, <1>16 DEF Takes

\* The peer takes the next event of a source.
LEMMA TakeStep ==
    ASSUME EventInv, NEW m \in requests, ReceiveEvent(m), Taken(m)
    PROVE  EventInv'
<1>w. PICK w \in Servers : w = m.src
  BY PassesIsNext DEF Taken
<1>v. PICK v \in Servers : v = Peer(w) /\ w = Peer(v) /\ v # w
  BY Peers
<1>e. PICK e : e = changes[w][watermark[w] + 1]
  OBVIOUS
<1>t. Takes(m, w, v, e)
  BY <1>w, <1>v, <1>e, TakeEffect
<1>1. /\ m.seq = watermark[w] + 1 /\ watermark[w] < Len(changes[w])
      /\ ledger'[v] = ledger[v] \cup {e} /\ ledger'[w] = ledger[w]
      /\ ledger' \in [Servers -> SUBSET EventRow]
      /\ \A u \in Servers : IsFiniteSet(ledger'[u])
      /\ watermark' = [watermark EXCEPT ![w] = watermark[w] + 1]
      /\ user' \in [Servers -> UserRow] /\ user'[w] = user[w]
      /\ \/ e.kind = "increment" /\ user'[v].epoch = user[v].epoch
         \/ /\ e.kind = "reset" /\ w = "iran" /\ v = "foreign"
            /\ e.epoch = user[v].epoch + 1 /\ user'[v].epoch = e.epoch
      /\ requests' = requests \ {m} /\ Reply(m, "success")
      /\ UNCHANGED <<changes, synced, sent, copy, now>>
  BY <1>t DEF Takes
<1>2. CounterTyped /\ Channel /\ CopiesPast /\ TimesGrow
  BY DEF EventInv
<1>3. \A u \in Servers : u = v \/ u = w
  BY <1>v, Peers
<1>4. \A u \in Servers : user[u].epoch \in Nat /\ user[u].epoch <= user'[u].epoch
  <2>1. \A u \in Servers : user[u].epoch \in Nat
    BY <1>2 DEF CounterTyped, UserRow
  <2> QED
    BY <1>1, <1>3, <2>1
<1>5. CopiesPast'
  <2> SUFFICES ASSUME NEW s \in Sessions, ~Idle(s) PROVE copy[s].epoch <= user'[Home[s]].epoch
    BY <1>1 DEF CopiesPast, Idle
  <2>1. Home[s] \in Servers
    BY CounterAssumption DEF Servers
  <2>2. copy[s].epoch \in Nat
    BY <1>2 DEF CounterTyped, Idle, UserRow
  <2>3. user'[Home[s]].epoch \in Nat
    BY <1>1, <2>1 DEF UserRow
  <2> QED
    BY <1>2, <1>4, <2>1, <2>2, <2>3 DEF CopiesPast
<1>6. TimesGrow'
  BY <1>1, <1>2 DEF TimesGrow, Told
<1>7. \A u \in Servers : LedgerIsLog(u)'
  <2>1. LedgerIsLog(v)' /\ LedgerIsLog(w)'
    BY <1>1, <1>v, <1>e, LedgerFollows
  <2> QED
    BY <1>3, <2>1
<1>8. EpochsGrow'
  <2>1. user'["iran"].epoch = user["iran"].epoch
    BY <1>1, <1>3, <1>v DEF Servers
  <2>2. \/ e.kind = "increment" /\ user'["foreign"].epoch = user["foreign"].epoch
        \/ /\ e.kind = "reset" /\ w = "iran" /\ e.epoch = user["foreign"].epoch + 1
           /\ user'["foreign"].epoch = e.epoch
    BY <1>1, <1>3, <1>v DEF Servers
  <2> QED
    BY <1>1, <1>e, <2>1, <2>2, EpochsFollow
<1>9. Channel' /\ CounterTyped'
  <2>0. \A u \in Servers : /\ watermark[u] \in Nat /\ watermark[u] <= Len(changes[u])
                           /\ Len(changes[u]) \in Nat
    BY <1>2, LogTyped DEF CounterTyped, Channel, InOrder
  <2>1. /\ watermark' \in [Servers -> Nat] /\ watermark'[w] = watermark[w] + 1
        /\ \A u \in Servers : u # w => watermark'[u] = watermark[u]
    BY <1>1, <1>2 DEF CounterTyped
  <2>2. \A u \in Servers : watermark[u] <= watermark'[u] /\ watermark'[u] <= Len(changes[u])
    BY <1>1, <2>0, <2>1
  <2>3. m.seq <= watermark'[m.src]
    BY <1>1, <1>w, <2>0, <2>1
  <2>4. /\ Channel' /\ reply' \in [Servers -> {"none", "success", "partial"}]
        /\ requests' \subseteq [src : Servers, seq : Nat \ {0}, live : BOOLEAN]
    BY <1>1, <1>2, <2>1, <2>2, <2>3, AnswerStep
  <2>5. CounterTyped'
    BY <1>1, <1>2, <2>1, <2>4 DEF CounterTyped
  <2> QED
    BY <2>4, <2>5
<1> QED
  BY <1>5, <1>6, <1>7, <1>8, <1>9 DEF EventInv

\* A request at or below the watermark, or refused, is answered and nothing is applied.
LEMMA NotTaken ==
    ASSUME EventInv, NEW m \in requests, ReceiveEvent(m), ~Taken(m)
    PROVE  /\ UNCHANGED <<user, ledger, changes, synced, watermark, sent, copy, now, retries>>
           /\ requests' = requests \ {m}
           /\ \E d \in {"stale", "error"} : Apply(Peer(m.src), changes[m.src][m.seq], d)
           /\ \E a \in {"success", "partial"} : Reply(m, a) /\ (a = "success" => ~Passes(m))
<1>1. CounterTyped /\ m.src \in Servers /\ Peer(m.src) \in Servers
  BY Peers DEF EventInv, CounterTyped
<1> DEFINE v == Peer(m.src)
           e == changes[m.src][m.seq]
<1>2. PICK d : d = IF Passes(m) \/ TooFarAhead(v, e) THEN Decision(v, e) ELSE "stale"
  OBVIOUS
<1>3. d \in {"stale", "error"} /\ (d = "stale" => ~Passes(m))
  <2>1. CASE Passes(m)
    BY <1>2, <2>1 DEF Taken
  <2>2. CASE ~Passes(m) /\ TooFarAhead(v, e)
    <3>1. Decision(v, e) = "error"
      BY <2>2 DEF Decision
    <3> QED
      BY <1>2, <2>2, <3>1
  <2>3. CASE ~Passes(m) /\ ~TooFarAhead(v, e)
    BY <1>2, <2>3
  <2> QED
    BY <2>1, <2>2, <2>3
<1>4. /\ requests' = requests \ {m} /\ Apply(v, e, d)
      /\ Reply(m, IF d = "stale" THEN "success" ELSE "partial")
      /\ UNCHANGED <<changes, synced, sent, copy, now, retries>>
      /\ watermark' = [watermark EXCEPT ![m.src] = @]
  BY <1>2, <1>3 DEF ReceiveEvent
<1>5. UNCHANGED <<user, ledger, watermark>>
  BY <1>1, <1>3, <1>4 DEF Apply, CounterTyped
<1> QED
  BY <1>3, <1>4, <1>5

LEMMA StaleStep ==
    ASSUME EventInv, NEW m \in requests, ReceiveEvent(m), ~Taken(m)
    PROVE  EventInv'
<1>1. CounterTyped /\ Channel /\ CopiesPast /\ HistoryInv
  BY DEF EventInv, HistoryInv
<1>2. m.src \in Servers /\ m.seq \in Nat /\ Peer(m.src) \in Servers
  BY <1>1, Peers DEF CounterTyped
<1>3. PICK a \in {"success", "partial"} : Reply(m, a) /\ (a = "success" => ~Passes(m))
  BY NotTaken
<1>4. /\ UNCHANGED <<user, ledger, changes, synced, watermark, sent, copy, now>>
      /\ requests' = requests \ {m}
  BY NotTaken
<1>5. HistoryInv'
  BY <1>1, <1>3, <1>4, HistoryStays DEF LedgerSide
<1>6. CopiesPast'
  BY <1>1, <1>3, <1>4 DEF CopiesPast, Idle
<1>7. /\ Channel' /\ reply' \in [Servers -> {"none", "success", "partial"}]
      /\ requests' \subseteq [src : Servers, seq : Nat \ {0}, live : BOOLEAN]
  <2>1. /\ watermark' \in [Servers -> Nat]
        /\ \A u \in Servers : watermark[u] <= watermark'[u] /\ watermark'[u] <= Len(changes[u])
    BY <1>1, <1>4 DEF CounterTyped, Channel, InOrder
  <2>2. a = "success" => m.seq <= watermark'[m.src]
    BY <1>1, <1>2, <1>3, <1>4 DEF Passes, CounterTyped
  <2> QED
    BY <1>1, <1>3, <1>4, <2>1, <2>2, AnswerStep
<1>8. CounterTyped'
  BY <1>1, <1>3, <1>4, <1>7 DEF CounterTyped
<1> QED
  BY <1>5, <1>6, <1>7, <1>8 DEF EventInv, HistoryInv

-----------------------------------------------------------------------------
(* Every behaviour *)

\* Two servers that have counted nothing.
LEMMA CounterStarts == CounterInit => EventInv
<1> SUFFICES ASSUME CounterInit PROVE EventInv
  OBVIOUS
<1>1. /\ "iran" \in Servers /\ "foreign" \in Servers
      /\ \A v \in Servers : Peer(v) \in Servers
  BY DEF Servers, Peer
<1>2. /\ \A v \in Servers : /\ user[v] = [value |-> 0, epoch |-> 1, version |-> 1]
                            /\ ledger[v] = {} /\ changes[v] = <<>> /\ Len(changes[v]) = 0
                            /\ synced[v] = 0 /\ watermark[v] = 0 /\ sent[v] = 0
                            /\ reply[v] = "none"
      /\ requests = {} /\ now = 0
  BY DEF CounterInit
<1>3. (\A v \in Servers : Told(v) = {}) /\ Openings = {}
  BY <1>1, <1>2 DEF Told, Openings
<1>4. CounterTyped
  <2>1. [value |-> 0, epoch |-> 1, version |-> 1] \in UserRow
    BY DEF UserRow
  <2>2. IsFiniteSet({}) /\ <<>> \in Seq(EventRow)
    BY FS_EmptySet
  <2>3. user \in [Servers -> UserRow] /\ ledger \in [Servers -> SUBSET EventRow]
    BY <2>1 DEF CounterInit
  <2>4. changes \in [Servers -> Seq(EventRow)] /\ \A v \in Servers : IsFiniteSet(ledger[v])
    BY <2>2 DEF CounterInit
  <2>5. /\ synced \in [Servers -> Nat] /\ watermark \in [Servers -> Nat]
        /\ sent \in [Servers -> Nat] /\ now \in Nat
        /\ requests \subseteq [src : Servers, seq : Nat \ {0}, live : BOOLEAN]
        /\ reply \in [Servers -> {"none", "success", "partial"}]
        /\ copy \in [Sessions -> UserRow \cup {NoCopy}]
    BY DEF CounterInit
  <2> QED
    BY <2>3, <2>4, <2>5 DEF CounterTyped
<1>5. Channel
  BY <1>2 DEF Channel, InOrder
<1>6. CopiesPast
  BY DEF CounterInit, CopiesPast, Idle
<1>7. TimesGrow
  BY <1>1, <1>3 DEF TimesGrow
<1>8. EpochsGrow
  <2>1. user["iran"].epoch = 1 /\ user["foreign"].epoch = 1
    BY <1>1, <1>2
  <2> QED
    BY <1>1, <1>3, <2>1 DEF EpochsGrow, PeriodAt
<1>9. \A v \in Servers : LedgerIsLog(v)
  <2> TAKE v \in Servers
  <2>1. ledger[v] = {} /\ Told(v) = {} /\ 1..watermark[Peer(v)] = {}
    BY <1>1, <1>2, <1>3
  <2> QED
    BY <2>1 DEF LedgerIsLog
<1> QED
  BY <1>4, <1>5, <1>6, <1>7, <1>8, <1>9 DEF EventInv

\* Every step keeps it.
LEMMA CounterSteps ==
    ASSUME EventInv, [CounterNext]_counterVars PROVE EventInv'
<1>1. ASSUME NEW s \in Sessions, Load(s) \/ Increment(s) \/ ResetCounters(s) \/ Abandon(s)
      PROVE  EventInv'
  BY <1>1, LoadAbandonStep, IncrementStep, ResetStep
<1>2. ASSUME NEW v \in Servers, Send(v) \/ SendTimesOut(v) \/ Delivered(v) \/ Rejected(v)
      PROVE  EventInv'
  BY <1>2, SenderStep
<1>3. ASSUME NEW m \in requests, ReceiveEvent(m) \/ Refuse(m) PROVE EventInv'
  BY <1>3, TakeStep, StaleStep, RefuseStep
<1>4. CASE UNCHANGED counterVars
  <2>1. UNCHANGED LedgerSide /\ UNCHANGED <<synced, sent, requests, reply, copy>>
    BY <1>4 DEF counterVars, LedgerSide
  <2>2. HistoryInv'
    BY <2>1, HistoryStays DEF EventInv, HistoryInv
  <2>3. CounterTyped'
    BY <2>1 DEF EventInv, CounterTyped, LedgerSide
  <2>4. Channel' /\ CopiesPast'
    BY <2>1 DEF EventInv, Channel, InOrder, RequestSound, CopiesPast, Idle, LedgerSide
  <2> QED
    BY <2>2, <2>3, <2>4 DEF EventInv, HistoryInv
<1> QED
  BY <1>1, <1>2, <1>3, <1>4 DEF CounterNext, Done

-----------------------------------------------------------------------------
(* The counts *)

\* What is known to be counted right, and where it is not known.
CounterInv == EventInv /\ stray \in [Servers -> BOOLEAN] /\ RowMatchesLedger

\* An increment adds one to the row and one to the period, unless it goes astray.
LEMMA CountIncrement ==
    ASSUME CounterInv, NEW s \in Sessions, Increment(s)
    PROVE  stray' \in [Servers -> BOOLEAN] /\ RowMatchesLedger'
<1>1. PICK v \in Servers : v = Home[s]
  BY CounterAssumption DEF Servers
<1>2. /\ EventInv /\ RowMatchesLedger /\ stray \in [Servers -> BOOLEAN]
      /\ IsFiniteSet(ledger[v])
  BY DEF CounterInv, EventInv, CounterTyped
<1>3. PICK e : /\ Makes(v, e) /\ e.kind = "increment" /\ e.at = Clock(v)
               /\ user'[v].value = copy[s].value + 1
               /\ \A u \in Servers : u # v => user'[u] = user[u]
               /\ UNCHANGED <<synced, sent, requests, reply>>
  BY <1>1, <1>2, IncrementEffect
<1>4. stray' = [stray EXCEPT ![v] = @ \/ copy[s].value # user[v].value \/ Backdated(v)]
  BY <1>1 DEF Increment
<1>5. /\ stray' \in [Servers -> BOOLEAN]
      /\ ~stray'[v] => ~stray[v] /\ copy[s].value = user[v].value /\ ~Backdated(v)
      /\ \A u \in Servers : u # v => stray'[u] = stray[u]
  BY <1>2, <1>4
<1>6. /\ e \notin ledger[v] /\ ledger'[v] = ledger[v] \cup {e}
      /\ \A u \in Servers : u # v => ledger'[u] = ledger[u]
  BY <1>2, <1>3, MakesInOrder
<1>7. ASSUME ~stray'[v] PROVE user'[v].value = PeriodCount(ledger'[v])
  <2>1. Resets(ledger[v]) = {} \/ e.at >= LatestReset(ledger[v]).at
    <3> SUFFICES ASSUME Resets(ledger[v]) # {} PROVE e.at >= LatestReset(ledger[v]).at
      OBVIOUS
    <3>1. ~(e.at < LatestReset(ledger[v]).at)
      BY <1>3, <1>5, <1>7 DEF Backdated
    <3>2. PICK r \in Resets(ledger[v]) : r = LatestReset(ledger[v])
      BY <1>2, Boundaries, KnownIsCoherent DEF EventInv
    <3>3. r \in EventRow /\ e \in EventRow
      BY <1>2, <1>3, Boundaries DEF Makes
    <3>4. r.at \in Int /\ e.at \in Int
      BY <3>3 DEF EventRow
    <3> QED
      BY <3>1, <3>2, <3>4
  <2>2. PeriodCount(ledger'[v]) = PeriodCount(ledger[v]) + 1
    BY <1>2, <1>3, <1>6, <2>1, OneMore
  <2> QED
    BY <1>2, <1>3, <1>5, <1>7, <2>2 DEF RowMatchesLedger
<1>8. RowMatchesLedger'
  BY <1>2, <1>3, <1>5, <1>6, <1>7 DEF RowMatchesLedger
<1> QED
  BY <1>5, <1>8

\* Nothing Iran knows belongs to the period its reset opens, unless it goes astray.
LEMMA CountReset ==
    ASSUME CounterInv, NEW s \in Sessions, ResetCounters(s)
    PROVE  stray' \in [Servers -> BOOLEAN] /\ RowMatchesLedger'
<1>1. /\ EventInv /\ CounterTyped /\ RowMatchesLedger /\ stray \in [Servers -> BOOLEAN]
      /\ now \in Nat /\ "iran" \in Servers /\ "foreign" \in Servers
  BY DEF CounterInv, EventInv, CounterTyped, Servers
<1>2. Home[s] = "iran"
  BY <1>1, ResetEffect
<1>3. PICK e : /\ Makes("iran", e) /\ e.kind = "reset" /\ e.at = now + 1
               /\ e.epoch = user["iran"].epoch + 1
               /\ user'["iran"].value = IF copy[s].value = 0 THEN user["iran"].value ELSE 0
               /\ user'["foreign"] = user["foreign"]
               /\ UNCHANGED <<synced, sent, requests, reply>>
  BY <1>1, ResetEffect
<1>4. stray' = [stray EXCEPT !["iran"] =
                  \/ copy[s].value = 0 /\ user["iran"].value # 0
                  \/ \E x \in Increments(ledger["iran"]) : x.at >= Clock("iran")]
  BY <1>2 DEF ResetCounters
<1>5. /\ stray' \in [Servers -> BOOLEAN] /\ stray'["foreign"] = stray["foreign"]
      /\ ~stray'["iran"] => /\ ~(copy[s].value = 0 /\ user["iran"].value # 0)
                            /\ ~(\E x \in Increments(ledger["iran"]) : x.at >= Clock("iran"))
  BY <1>1, <1>4
<1>6. /\ ledger'["iran"] = ledger["iran"] \cup {e} /\ ledger'["foreign"] = ledger["foreign"]
  BY <1>1, <1>3, MakesInOrder
<1>7. \A q \in Resets(ledger["iran"]) : q.epoch \in Nat /\ q.epoch < e.epoch
  <2>1. \A q \in Resets(ledger["iran"]) : q \in EventRow /\ q.epoch <= user["iran"].epoch
    BY <1>1, Boundaries DEF BoundaryKnown
  <2>2. \A q \in Resets(ledger["iran"]) : q.epoch \in Nat
    BY <2>1 DEF EventRow
  <2>3. user["iran"].epoch \in Nat
    BY <1>1 DEF CounterTyped, UserRow
  <2> QED
    BY <1>3, <2>1, <2>2, <2>3
<1>8. PeriodCount(ledger'["iran"]) = Rebuilt(ledger["iran"], e.at)
  <2>1. e.epoch \in Nat
    BY <1>3 DEF Makes, EventRow
  <2> QED
    BY <1>3, <1>6, <1>7, <2>1, NewPeriod
<1>9. ASSUME ~stray'["iran"] PROVE user'["iran"].value = PeriodCount(ledger'["iran"])
  <2>1. Clock("iran") = e.at
    BY <1>1, <1>3 DEF Clock, ClockAt
  <2>2. {x \in Increments(ledger["iran"]) : x.at >= e.at} = {}
    BY <1>5, <1>9, <2>1
  <2>3. Rebuilt(ledger["iran"], e.at) = 0
    BY <2>2, FS_EmptySet DEF Rebuilt
  <2>4. user'["iran"].value = 0
    BY <1>3, <1>5, <1>9
  <2> QED
    BY <1>8, <2>3, <2>4
<1>10. RowMatchesLedger'
  BY <1>1, <1>3, <1>5, <1>6, <1>9 DEF RowMatchesLedger, Servers
<1> QED
  BY <1>5, <1>10

\* A receipt counts what belongs to the period, whatever the clocks say, and a reset
\* that arrives sets right what had gone astray.
LEMMA CountTake ==
    ASSUME CounterInv, NEW m \in requests, ReceiveEvent(m), Taken(m)
    PROVE  stray' \in [Servers -> BOOLEAN] /\ RowMatchesLedger'
<1>1. /\ EventInv /\ CounterTyped /\ RowMatchesLedger /\ stray \in [Servers -> BOOLEAN]
      /\ \A u \in Servers : IsFiniteSet(ledger[u])
  BY DEF CounterInv, EventInv, CounterTyped
<1>w. PICK w \in Servers : w = m.src
  BY <1>1, PassesIsNext DEF Taken
<1>v. PICK v \in Servers : v = Peer(w) /\ w = Peer(v) /\ v # w
  BY Peers
<1>e. PICK e : e = changes[w][watermark[w] + 1]
  OBVIOUS
<1>t. Takes(m, w, v, e)
  BY <1>1, <1>w, <1>v, <1>e, TakeEffect
<1>2. /\ e \in EventRow /\ e \notin ledger[v]
      /\ ledger'[v] = ledger[v] \cup {e} /\ ledger'[w] = ledger[w] /\ user'[w] = user[w]
      /\ \/ /\ e.kind = "increment"
            /\ user'[v].value = IF BeforeBoundary(v, e) THEN user[v].value
                                                        ELSE user[v].value + 1
         \/ /\ e.kind = "reset" /\ e.epoch = user[v].epoch + 1
            /\ user'[v].value = Rebuilt(ledger[v], e.at)
      /\ stray' = [stray EXCEPT ![v] = @ /\ e.kind # "reset"]
  BY <1>t DEF Takes
<1>3. \A u \in Servers : u = v \/ u = w
  BY <1>v, Peers
<1>4. /\ stray' \in [Servers -> BOOLEAN] /\ stray'[w] = stray[w]
      /\ stray'[v] = (stray[v] /\ e.kind # "reset")
  BY <1>1, <1>2, <1>v
<1>6. e.at \in Int /\ e.epoch \in Nat
  BY <1>2 DEF EventRow
<1>7. BoundaryKnown(v) /\ \A r \in Resets(ledger[v]) : r \in EventRow
  BY <1>1, Boundaries
<1>8. \A r \in Resets(ledger[v]) : r.at \in Int /\ r.epoch \in Nat
  BY <1>7 DEF EventRow
<1>10. ASSUME ~stray'[v] PROVE PeriodCount(ledger'[v]) = user'[v].value
  <2>1. CASE e.kind = "increment"
    <3>0. user[v].value = PeriodCount(ledger[v])
      BY <1>1, <1>4, <1>10, <2>1 DEF RowMatchesLedger
    <3>1. BeforeBoundary(v, e) <=> ~(Resets(ledger[v]) = {} \/ e.at >= LatestReset(ledger[v]).at)
      <4>1. /\ user[v].epoch = 1 <=> Resets(ledger[v]) = {}
            /\ user[v].epoch \in Nat /\ user[v].epoch >= 1
            /\ Resets(ledger[v]) # {} => LatestReset(ledger[v]) \in Resets(ledger[v])
        BY <1>1, <1>7, KnownIsCoherent
      <4>2. Resets(ledger[v]) # {} => LatestReset(ledger[v]).at \in Int
        BY <1>8, <4>1
      <4> QED
        BY <1>6, <4>1, <4>2 DEF BeforeBoundary
    <3>2. /\ Resets(ledger[v]) = {} \/ e.at >= LatestReset(ledger[v]).at =>
                PeriodCount(ledger[v] \cup {e}) = PeriodCount(ledger[v]) + 1
          /\ ~(Resets(ledger[v]) = {} \/ e.at >= LatestReset(ledger[v]).at) =>
                PeriodCount(ledger[v] \cup {e}) = PeriodCount(ledger[v])
      BY <1>1, <1>2, <2>1, OneMore
    <3> QED
      BY <1>2, <2>1, <3>0, <3>1, <3>2
  <2>2. CASE e.kind = "reset"
    <3>1. \A q \in Resets(ledger[v]) : q.epoch \in Nat /\ q.epoch < e.epoch
      <4>1. user[v].epoch \in Nat
        BY <1>1 DEF CounterTyped, UserRow
      <4> QED
        BY <1>2, <1>7, <1>8, <2>2, <4>1 DEF BoundaryKnown
    <3>2. PeriodCount(ledger[v] \cup {e}) = Rebuilt(ledger[v], e.at)
      BY <1>6, <2>2, <3>1, NewPeriod
    <3> QED
      BY <1>2, <2>2, <3>2
  <2> QED
    BY <1>2, <2>1, <2>2
<1>11. RowMatchesLedger'
  BY <1>1, <1>2, <1>3, <1>4, <1>10 DEF RowMatchesLedger
<1> QED
  BY <1>4, <1>11

\* Everything else leaves the rows and the ledgers alone.
LEMMA CountsStay ==
    ASSUME CounterInv, UNCHANGED <<user, ledger, stray>>
    PROVE  stray' \in [Servers -> BOOLEAN] /\ RowMatchesLedger'
BY DEF CounterInv, RowMatchesLedger

\* Every step keeps the counts.
LEMMA CountSteps ==
    ASSUME CounterInv, [CounterNext]_counterVars PROVE CounterInv'
<1>1. EventInv'
  BY CounterSteps DEF CounterInv
<1>2. ASSUME NEW s \in Sessions, Load(s) \/ Increment(s) \/ ResetCounters(s) \/ Abandon(s)
      PROVE  stray' \in [Servers -> BOOLEAN] /\ RowMatchesLedger'
  <2>1. CASE Load(s) \/ Abandon(s)
    <3>1. UNCHANGED <<user, ledger, stray>>
      BY <2>1 DEF Load, Abandon
    <3> QED
      BY <3>1, CountsStay
  <2> QED
    BY <1>2, <2>1, CountIncrement, CountReset
<1>3. ASSUME NEW v \in Servers, Send(v) \/ SendTimesOut(v) \/ Delivered(v) \/ Rejected(v)
      PROVE  stray' \in [Servers -> BOOLEAN] /\ RowMatchesLedger'
  <2>1. UNCHANGED <<user, ledger, stray>>
    BY <1>3 DEF Send, SendTimesOut, Delivered, Rejected
  <2> QED
    BY <2>1, CountsStay
<1>4. ASSUME NEW m \in requests, ReceiveEvent(m) \/ Refuse(m)
      PROVE  stray' \in [Servers -> BOOLEAN] /\ RowMatchesLedger'
  <2>1. CASE ReceiveEvent(m) /\ Taken(m)
    BY <2>1, CountTake
  <2>2. CASE ReceiveEvent(m) /\ ~Taken(m)
    <3>1. UNCHANGED <<user, ledger>>
      BY <2>2, NotTaken DEF CounterInv
    <3>2. PICK d \in {"stale", "error"} : Apply(Peer(m.src), changes[m.src][m.seq], d)
      BY <2>2, NotTaken DEF CounterInv
    <3>3. stray' = [stray EXCEPT ![Peer(m.src)] = @ /\ TRUE]
      BY <3>2 DEF Apply
    <3>4. stray' = stray
      <4>1. stray \in [Servers -> BOOLEAN] /\ Peer(m.src) \in Servers
        BY Peers DEF CounterInv, EventInv, CounterTyped
      <4> QED
        BY <3>3, <4>1
    <3> QED
      BY <3>1, <3>4, CountsStay
  <2>3. CASE Refuse(m)
    <3>1. UNCHANGED <<user, ledger, stray>>
      BY <2>3 DEF Refuse
    <3> QED
      BY <3>1, CountsStay
  <2> QED
    BY <1>4, <2>1, <2>2, <2>3
<1>5. CASE UNCHANGED counterVars
  <2>1. UNCHANGED <<user, ledger, stray>>
    BY <1>5 DEF counterVars
  <2> QED
    BY <1>1, <2>1, CountsStay DEF CounterInv
<1> QED
  BY <1>1, <1>2, <1>3, <1>4, <1>5 DEF CounterInv, CounterNext, Done

\* Nothing is counted at first.
LEMMA CountStarts == CounterInit => CounterInv
<1> SUFFICES ASSUME CounterInit PROVE CounterInv
  OBVIOUS
<1>1. EventInv
  BY CounterStarts
<1>2. stray \in [Servers -> BOOLEAN]
  BY DEF CounterInit
<1>4. RowMatchesLedger
  <2> SUFFICES ASSUME NEW v \in Servers PROVE user[v].value = PeriodCount(ledger[v])
    BY DEF RowMatchesLedger
  <2>1. user[v].value = 0 /\ ledger[v] = {}
    BY DEF CounterInit
  <2>2. Resets(ledger[v]) = {} /\ Increments(ledger[v]) = {}
    BY <2>1 DEF Resets, Increments
  <2>3. PeriodCount(ledger[v]) = Cardinality({})
    BY <2>2 DEF PeriodCount
  <2> QED
    BY <2>1, <2>3, FS_EmptySet
<1> QED
  BY <1>1, <1>2, <1>4 DEF CounterInv

\* For any sessions, any clocks and any limit, the counter of either server is the number
\* of increments of the current period in its own ledger, whatever is lost, repeated,
\* refused or late (user_counter_sync.py, sync.py:2788), from the start or the last clean
\* reset up to the first write that goes astray on that server: one computed from a row
\* changed since it was read, or one whose time contradicts the boundary.
THEOREM CountersMatchLedger == CounterSpec => []RowMatchesLedger
<1>1. CounterInv => RowMatchesLedger
  BY DEF CounterInv
<1>2. CounterInv /\ [CounterNext]_counterVars => CounterInv'
  BY CountSteps
<1> QED
  BY <1>1, <1>2, CountStarts, PTL DEF CounterSpec

\* Two servers with nothing on its way are in the same period, always, and show the same
\* counter unless one of the two rows has gone astray.
THEOREM CountersAgree == CounterSpec => []RowsAgree
<1>1. CounterInv => RowsAgree
  <2> SUFFICES ASSUME CounterInv, \A v \in Servers : synced[v] = Len(changes[v])
               PROVE  /\ user["iran"].epoch = user["foreign"].epoch
                      /\ ~stray["iran"] /\ ~stray["foreign"] =>
                            user["iran"].value = user["foreign"].value
    BY DEF RowsAgree
  <2>0. EventInv /\ CounterTyped /\ Channel
    BY DEF CounterInv, EventInv
  <2>1. /\ "iran" \in Servers /\ "foreign" \in Servers
        /\ Peer("iran") = "foreign" /\ Peer("foreign") = "iran"
    BY DEF Servers, Peer
  <2>2. \A v \in Servers : watermark[v] = Len(changes[v])
    <3> TAKE v \in Servers
    <3>1. /\ synced[v] <= watermark[v] /\ watermark[v] <= Len(changes[v])
          /\ watermark[v] \in Nat /\ Len(changes[v]) \in Nat
      BY <2>0, LogTyped DEF Channel, InOrder, CounterTyped
    <3> QED
      BY <3>1
  <2>3. ledger["iran"] = ledger["foreign"]
    <3>1. LedgerIsLog("iran") /\ LedgerIsLog("foreign")
      BY <2>0, <2>1 DEF EventInv
    <3> QED
      BY <2>1, <2>2, <3>1 DEF LedgerIsLog, Told
  <2>4. user["iran"].epoch = user["foreign"].epoch
    <3>1. BoundaryKnown("iran") /\ BoundaryKnown("foreign")
      BY <2>0, <2>1, Boundaries
    <3>2. \A v \in Servers :
             /\ Resets(ledger[v]) # {} => LatestReset(ledger[v]).epoch = user[v].epoch
             /\ user[v].epoch = 1 <=> Resets(ledger[v]) = {}
      BY <2>0, <3>1, KnownIsCoherent DEF Servers
    <3> QED
      BY <2>1, <2>3, <3>2
  <2> QED
    BY <2>1, <2>3, <2>4 DEF CounterInv, RowMatchesLedger
<1>2. CounterInv /\ [CounterNext]_counterVars => CounterInv'
  BY CountSteps
<1> QED
  BY <1>1, <1>2, CountStarts, PTL DEF CounterSpec

-----------------------------------------------------------------------------
(* No server counts more than it knows of, whoever races *)

\* The increments a server knows of
Known(v) == Cardinality(Increments(ledger[v]))

\* A counter is never more than the increments in its server's ledger.
NeverOvercounted == \A v \in Servers : user[v].value <= Known(v)

\* Nor is what a session read.
CopiesBelow == \A s \in Sessions : ~Idle(s) => copy[s].value <= Known(Home[s])

CountedInv == NeverOvercounted /\ CopiesBelow

\* Increments are counted one by one.
LEMMA KnownGrows ==
    ASSUME NEW l, IsFiniteSet(l), NEW e, e \notin l
    PROVE  /\ Cardinality(Increments(l)) \in Nat /\ Cardinality(Increments(l \cup {e})) \in Nat
           /\ e.kind = "increment" =>
                Cardinality(Increments(l \cup {e})) = Cardinality(Increments(l)) + 1
           /\ e.kind # "increment" =>
                Cardinality(Increments(l \cup {e})) = Cardinality(Increments(l))
<1>1. Increments(l) \in SUBSET l /\ e \notin Increments(l)
  BY DEF Increments
<1>2. IsFiniteSet(Increments(l)) /\ Cardinality(Increments(l)) \in Nat
  BY <1>1, FS_Subset, FS_CardinalityType
<1>3. CASE e.kind = "increment"
  <2>1. Increments(l \cup {e}) = Increments(l) \cup {e}
    BY <1>3 DEF Increments
  <2>2. Cardinality(Increments(l) \cup {e}) = Cardinality(Increments(l)) + 1
    BY <1>1, <1>2, FS_AddElement
  <2> QED
    BY <1>2, <1>3, <2>1, <2>2
<1>4. CASE e.kind # "increment"
  <2>1. Increments(l \cup {e}) = Increments(l)
    BY <1>4 DEF Increments
  <2> QED
    BY <1>2, <1>4, <2>1
<1> QED
  BY <1>3, <1>4

\* A rebuild finds no more than all of them.
LEMMA RebuiltBelow ==
    ASSUME NEW l, IsFiniteSet(l), NEW at
    PROVE  Rebuilt(l, at) <= Cardinality(Increments(l))
<1>1. Increments(l) \in SUBSET l /\ {e \in Increments(l) : e.at >= at} \in SUBSET Increments(l)
  BY DEF Increments
<1>2. IsFiniteSet(Increments(l))
  BY <1>1, FS_Subset
<1> QED
  BY <1>1, <1>2, FS_Subset DEF Rebuilt

\* A server makes an event: its row and the copies stay below what it knows.
LEMMA CountedMake ==
    ASSUME EventInv, CountedInv, NEW s \in Sessions, NEW v \in Servers, v = Home[s],
           NEW e, Makes(v, e), UNCHANGED <<synced, sent, requests, reply>>,
           copy' = [copy EXCEPT ![s] = NoCopy],
           \A u \in Servers : u # v => user'[u] = user[u],
           user'[v].value <= Known(v) + IF e.kind = "increment" THEN 1 ELSE 0
    PROVE  CountedInv'
<1>1. /\ e \notin ledger[v] /\ ledger'[v] = ledger[v] \cup {e}
      /\ \A u \in Servers : u # v => ledger'[u] = ledger[u]
  BY MakesInOrder
<1>2. CounterTyped /\ IsFiniteSet(ledger[v]) /\ \A q \in Sessions : Home[q] \in Servers
  BY CounterAssumption DEF EventInv, CounterTyped, Servers
<1>3. /\ Known(v) \in Nat /\ Known(v)' \in Nat /\ Known(v) <= Known(v)'
      /\ Known(v)' = Known(v) + IF e.kind = "increment" THEN 1 ELSE 0
  <2>1. /\ Known(v) \in Nat /\ Known(v)' \in Nat
        /\ Known(v)' = IF e.kind = "increment" THEN Known(v) + 1 ELSE Known(v)
    BY <1>1, <1>2, KnownGrows DEF Known
  <2> QED
    BY <2>1
<1>4. \A u \in Servers : u # v => Known(u)' = Known(u)
  BY <1>1 DEF Known
<1>5. NeverOvercounted'
  BY <1>3, <1>4 DEF CountedInv, NeverOvercounted
<1>6. CopiesBelow'
  <2> SUFFICES ASSUME NEW q \in Sessions, ~Idle(q)' PROVE copy'[q].value <= Known(Home[q])'
    BY DEF CopiesBelow
  <2>1. q # s /\ copy'[q] = copy[q] /\ ~Idle(q) /\ Home[q] \in Servers
    BY <1>2 DEF CounterTyped, Idle
  <2>2. copy[q].value \in Nat /\ copy[q].value <= Known(Home[q])
    BY <1>2, <2>1 DEF CounterTyped, Idle, UserRow, CountedInv, CopiesBelow
  <2> QED
    BY <1>3, <1>4, <2>1, <2>2
<1> QED
  BY <1>5, <1>6 DEF CountedInv

\* Local writers.
LEMMA CountedWrite ==
    ASSUME EventInv, CountedInv, NEW s \in Sessions,
           Load(s) \/ Increment(s) \/ ResetCounters(s) \/ Abandon(s)
    PROVE  CountedInv'
<1>0. CounterTyped /\ \A q \in Sessions : Home[q] \in Servers
  BY CounterAssumption DEF EventInv, Servers
<1>1. CASE Load(s) \/ Abandon(s)
  <2>1. UNCHANGED <<user, ledger>> /\ \A v \in Servers : Known(v)' = Known(v)
    BY <1>1 DEF Load, Abandon, Known
  <2>2. \A q \in Sessions : q # s => copy'[q] = copy[q]
    BY <1>0, <1>1 DEF Load, Abandon, CounterTyped
  <2>3. copy'[s] \in {NoCopy, user[Home[s]]}
    BY <1>0, <1>1 DEF Load, Abandon, CounterTyped
  <2> QED
    BY <1>0, <2>1, <2>2, <2>3 DEF CountedInv, NeverOvercounted, CopiesBelow, Idle
<1>2. CASE Increment(s)
  <2>1. PICK v \in Servers : v = Home[s]
    BY <1>0
  <2>2. PICK e : /\ Makes(v, e) /\ e.kind = "increment"
                 /\ user'[v].value = copy[s].value + 1
                 /\ \A u \in Servers : u # v => user'[u] = user[u]
                 /\ copy' = [copy EXCEPT ![s] = NoCopy] /\ ~Idle(s)
                 /\ UNCHANGED <<synced, sent, requests, reply>>
    BY <1>2, <2>1, IncrementEffect
  <2>3. copy[s].value \in Nat /\ Known(v) \in Nat /\ copy[s].value <= Known(v)
    <3>1. copy[s] \in UserRow /\ IsFiniteSet(ledger[v])
      BY <1>0, <2>2 DEF CounterTyped, Idle
    <3>2. Known(v) \in Nat
      <4>1. Increments(ledger[v]) \in SUBSET ledger[v]
        BY DEF Increments
      <4> QED
        BY <3>1, <4>1, FS_Subset, FS_CardinalityType DEF Known
    <3> QED
      BY <2>1, <2>2, <3>1, <3>2 DEF UserRow, CountedInv, CopiesBelow
  <2>4. user'[v].value <= Known(v) + IF e.kind = "increment" THEN 1 ELSE 0
    BY <2>2, <2>3
  <2> QED
    BY <2>1, <2>2, <2>4, CountedMake
<1>3. CASE ResetCounters(s)
  <2>1. PICK v \in Servers : v = Home[s] /\ v = "iran"
    BY <1>0, <1>3, ResetEffect
  <2>2. PICK e : /\ Makes(v, e) /\ e.kind = "reset"
                 /\ user'["iran"].value = IF copy[s].value = 0 THEN user["iran"].value ELSE 0
                 /\ user'["foreign"] = user["foreign"]
                 /\ copy' = [copy EXCEPT ![s] = NoCopy]
                 /\ UNCHANGED <<synced, sent, requests, reply>>
    BY <1>3, <2>1, ResetEffect
  <2>3. \A u \in Servers : u # v => user'[u] = user[u]
    BY <2>1, <2>2 DEF Servers
  <2>4. user[v].value \in Nat /\ user[v].value <= Known(v) /\ Known(v) \in Nat
    <3>1. IsFiniteSet(ledger[v]) /\ Increments(ledger[v]) \in SUBSET ledger[v]
      BY <1>0 DEF CounterTyped, Increments
    <3>2. Known(v) \in Nat
      BY <3>1, FS_Subset, FS_CardinalityType DEF Known
    <3> QED
      BY <1>0, <3>2 DEF CounterTyped, UserRow, CountedInv, NeverOvercounted
  <2>5. user'[v].value <= Known(v) + IF e.kind = "increment" THEN 1 ELSE 0
    BY <2>1, <2>2, <2>4
  <2> QED
    BY <2>1, <2>2, <2>3, <2>5, CountedMake
<1> QED
  BY <1>1, <1>2, <1>3

\* The receiver takes an event it did not have.
LEMMA CountedTake ==
    ASSUME EventInv, CountedInv, NEW m \in requests, ReceiveEvent(m), Taken(m)
    PROVE  CountedInv'
<1>1. PICK w \in Servers, v \in Servers : w = m.src /\ v = Peer(w) /\ v # w
  BY PassesIsNext, Peers DEF Taken
<1>2. PICK e : Takes(m, w, v, e)
  BY <1>1, TakeEffect
<1>3. /\ e \notin ledger[v] /\ ledger'[v] = ledger[v] \cup {e} /\ ledger'[w] = ledger[w]
      /\ user'[w] = user[w] /\ copy' = copy
      /\ \/ e.kind = "increment" /\ user'[v].value \in {user[v].value, user[v].value + 1}
         \/ e.kind = "reset" /\ user'[v].value = Rebuilt(ledger[v], e.at)
  BY <1>2 DEF Takes
<1>4. /\ CounterTyped /\ IsFiniteSet(ledger[v]) /\ \A q \in Sessions : Home[q] \in Servers
      /\ user[v].value \in Nat /\ user[v].value <= Known(v)
      /\ \A u \in Servers : u = v \/ u = w
  BY <1>1, CounterAssumption
     DEF EventInv, CounterTyped, Servers, UserRow, CountedInv, NeverOvercounted
<1>5. /\ Known(v) \in Nat /\ Known(v)' \in Nat
      /\ Known(v)' = IF e.kind = "increment" THEN Known(v) + 1 ELSE Known(v)
  BY <1>3, <1>4, KnownGrows DEF Known
<1>6. Known(w)' = Known(w)
  BY <1>3 DEF Known
<1>7. user'[v].value <= Known(v)'
  <2>1. CASE e.kind = "increment"
    BY <1>3, <1>4, <1>5, <2>1
  <2>2. CASE e.kind = "reset"
    BY <1>3, <1>4, <1>5, <2>2, RebuiltBelow DEF Known
  <2> QED
    BY <1>3, <2>1, <2>2
<1>8. NeverOvercounted'
  BY <1>3, <1>4, <1>6, <1>7 DEF CountedInv, NeverOvercounted
<1>9. CopiesBelow'
  <2> SUFFICES ASSUME NEW q \in Sessions, ~Idle(q)' PROVE copy'[q].value <= Known(Home[q])'
    BY DEF CopiesBelow
  <2>1. copy'[q] = copy[q] /\ ~Idle(q) /\ Home[q] \in Servers
    BY <1>3, <1>4 DEF Idle
  <2>2. copy[q].value \in Nat /\ copy[q].value <= Known(Home[q])
    BY <1>4, <2>1 DEF CounterTyped, Idle, UserRow, CountedInv, CopiesBelow
  <2>3. Known(v) <= Known(v)'
    BY <1>5
  <2> QED
    BY <1>4, <1>5, <1>6, <2>1, <2>2, <2>3
<1> QED
  BY <1>8, <1>9 DEF CountedInv

\* Every step keeps the counters below what is known.
LEMMA CountedSteps ==
    ASSUME EventInv, CountedInv, [CounterNext]_counterVars PROVE CountedInv'
<1>1. CASE UNCHANGED <<user, ledger, copy>>
  BY <1>1 DEF CountedInv, NeverOvercounted, CopiesBelow, Known, Idle
<1>2. ASSUME NEW m \in requests, ReceiveEvent(m), ~Taken(m) PROVE UNCHANGED <<user, ledger, copy>>
  BY <1>2, NotTaken
<1> QED
  BY <1>1, <1>2, CountedWrite, CountedTake
     DEF CounterNext, Done, counterVars, Send, SendTimesOut, Delivered, Rejected, Refuse

\* Counters and copies are below what is known in every reachable state.
LEMMA CountedHolds == CounterSpec => []CountedInv
<1>1. ASSUME CounterInit PROVE CountedInv
  <2>1. ASSUME NEW v \in Servers PROVE user[v].value <= Known(v)
    <3>1. user[v].value = 0 /\ Increments(ledger[v]) = {}
      BY <1>1 DEF CounterInit, Increments
    <3>2. Known(v) = 0
      BY <3>1, FS_EmptySet DEF Known
    <3> QED
      BY <3>1, <3>2
  <2>2. CopiesBelow
    BY <1>1 DEF CounterInit, CopiesBelow, Idle
  <2> QED
    BY <2>1, <2>2 DEF CountedInv, NeverOvercounted
<1>2. EventInv /\ CountedInv /\ [CounterNext]_counterVars => EventInv' /\ CountedInv'
  BY CounterSteps, CountedSteps
<1> QED
  BY <1>1, <1>2, CounterStarts, PTL DEF CounterSpec

\* Whatever transactions race and however far the clocks are apart, neither server ever
\* shows a counter above the increments in its own ledger: a race may lose an increment,
\* and never invents one (user_counter_sync.py, sync.py:2788).
THEOREM NothingIsInvented == CounterSpec => []NeverOvercounted
<1>1. CountedInv => NeverOvercounted
  BY DEF CountedInv
<1> QED
  BY <1>1, CountedHolds, PTL

-----------------------------------------------------------------------------
(* Types of the counters *)

\* Every event moves the clock, so what is counted is bounded by it.
EventUpTo(e, n) == e.epoch <= n + 1

UserUpTo(r, n) == r.epoch <= n + 1 /\ 1 <= r.version /\ r.version <= n + 1

ClockCounts ==
    /\ now <= MaxEvents
    /\ \A v \in Servers : Len(changes[v]) <= now
    /\ \A v \in Servers : \A i \in Told(v) : EventUpTo(changes[v][i], now)
    /\ \A v \in Servers : UserUpTo(user[v], now)
    /\ \A s \in Sessions : ~Idle(s) => UserUpTo(copy[s], now)
    /\ retries \in [Servers -> 0..MaxRetries]

\* Later is a larger bound.
LEMMA LaterBound ==
    ASSUME NEW n \in Nat
    PROVE  /\ \A e \in EventRow : EventUpTo(e, n) => EventUpTo(e, n + 1)
           /\ \A r \in UserRow : UserUpTo(r, n) => UserUpTo(r, n + 1)
BY CounterAssumption DEF EventRow, UserRow, EventUpTo, UserUpTo

\* A server makes an event.
LEMMA ClockMake ==
    ASSUME EventInv, ClockCounts, NEW s \in Sessions, NEW v \in Servers, v = Home[s],
           NEW e, Makes(v, e), now < MaxEvents, EventUpTo(e, now + 1),
           copy' = [copy EXCEPT ![s] = NoCopy], retries' = retries,
           \A u \in Servers : u # v => user'[u] = user[u], UserUpTo(user'[v], now + 1)
    PROVE  ClockCounts'
<1>1. /\ CounterTyped /\ Channel /\ now \in Nat /\ now' = now + 1 /\ MaxEvents \in Nat
      /\ \A u \in Servers : user[u] \in UserRow
  BY CounterAssumption DEF EventInv, CounterTyped, Makes
<1>2. /\ Len(changes'[v]) = Len(changes[v]) + 1 /\ Len(changes[v]) \in Nat
      /\ changes'[v][Len(changes[v]) + 1] = e
      /\ \A u \in Servers : u # v => changes'[u] = changes[u]
      /\ \A u \in Servers : \A i \in Told(u) : changes'[u][i] = changes[u][i] /\ i \in Told(u)'
      /\ \A u \in Servers : \A i \in Told(u)' :
            i \in Told(u) \/ (u = v /\ i = Len(changes[v]) + 1)
  BY <1>1, OutboxGrows
<1>3. \A u \in Servers : Len(changes'[u]) <= now'
  <2>1. \A u \in Servers : Len(changes[u]) <= now /\ Len(changes[u]) \in Nat
    BY <1>1 DEF ClockCounts, CounterTyped
  <2> QED
    BY <1>1, <1>2, <2>1
<1>4. ASSUME NEW u \in Servers, NEW i \in Told(u)' PROVE EventUpTo(changes'[u][i], now')
  <2>1. CASE i \in Told(u)
    <3>1. changes[u][i] \in EventRow /\ EventUpTo(changes[u][i], now)
      BY <1>1, <2>1 DEF CounterTyped, Told, ClockCounts
    <3> QED
      BY <1>1, <1>2, <2>1, <3>1, LaterBound
  <2>2. CASE u = v /\ i = Len(changes[v]) + 1
    BY <1>1, <1>2, <2>2
  <2> QED
    BY <1>2, <2>1, <2>2
<1>5. \A u \in Servers : UserUpTo(user'[u], now')
  BY <1>1, LaterBound DEF ClockCounts
<1>6. ASSUME NEW q \in Sessions, ~Idle(q)' PROVE UserUpTo(copy'[q], now')
  <2>1. copy'[q] = copy[q] /\ ~Idle(q) /\ copy[q] \in UserRow
    BY <1>1, <1>6 DEF CounterTyped, Idle
  <2> QED
    BY <1>1, <2>1, LaterBound DEF ClockCounts
<1>7. now' <= MaxEvents
  BY <1>1
<1> QED
  BY <1>3, <1>4, <1>5, <1>6, <1>7 DEF ClockCounts

\* Local writers.
LEMMA ClockWrite ==
    ASSUME EventInv, ClockCounts, NEW s \in Sessions,
           Load(s) \/ Increment(s) \/ ResetCounters(s) \/ Abandon(s)
    PROVE  ClockCounts'
<1>0. /\ CounterTyped /\ now \in Nat /\ \A q \in Sessions : Home[q] \in Servers
  BY CounterAssumption DEF EventInv, CounterTyped, Servers
<1>1. CASE Load(s) \/ Abandon(s)
  <2>1. UNCHANGED <<user, changes, now, retries>>
    BY <1>1 DEF Load, Abandon
  <2>2. /\ \A q \in Sessions : q # s => copy'[q] = copy[q]
        /\ copy'[s] \in {NoCopy, user[Home[s]]}
    BY <1>0, <1>1 DEF Load, Abandon, CounterTyped
  <2>3. \A q \in Sessions : ~Idle(q)' => UserUpTo(copy'[q], now)
    BY <1>0, <2>2 DEF ClockCounts, Idle
  <2> QED
    BY <2>1, <2>3 DEF ClockCounts, Told
<1>2. CASE Increment(s)
  <2>1. PICK v \in Servers : v = Home[s]
    BY <1>0
  <2>2. PICK e : /\ Makes(v, e) /\ e.kind = "increment" /\ e.epoch = copy[s].epoch
                 /\ copy' = [copy EXCEPT ![s] = NoCopy] /\ ~Idle(s)
                 /\ user' = [user EXCEPT ![v].value = copy[s].value + 1]
    <3>1. PICK e : e = [id |-> now + 1, kind |-> "increment", epoch |-> copy[s].epoch,
                        at |-> Clock(v)]
      OBVIOUS
    <3>2. /\ ledger' = [ledger EXCEPT ![v] = @ \cup {e}]
          /\ changes' = [changes EXCEPT ![v] = Append(@, e)] /\ now' = now + 1
          /\ watermark' = watermark /\ copy' = [copy EXCEPT ![s] = NoCopy] /\ ~Idle(s)
          /\ user' = [user EXCEPT ![v].value = copy[s].value + 1]
      BY <1>2, <2>1, <3>1 DEF Increment, Emit
    <3>3. /\ Clock(v) \in Int /\ (v = "iran" => Clock(v) = now + 1)
          /\ (v = "foreign" => Clock(v) = now + 1 + Skew) /\ copy[s].epoch \in Nat \ {0}
      <4>1. /\ Clock(v) \in Int /\ (v = "iran" => Clock(v) = now + 1)
            /\ (v = "foreign" => Clock(v) = now + 1 + Skew)
        BY <1>0, CounterAssumption DEF Clock, ClockAt
      <4>2. copy[s] \in UserRow
        BY <1>0, <3>2 DEF CounterTyped, Idle
      <4> QED
        BY <4>1, <4>2 DEF UserRow
    <3>4. /\ e \in EventRow /\ e.id = now + 1 /\ e.at = Clock(v)
          /\ e.kind = "increment" /\ e.epoch = copy[s].epoch
      BY <1>0, <3>1, <3>3 DEF EventRow
    <3>5. Makes(v, e)
      BY <3>2, <3>3, <3>4 DEF Makes
    <3> QED
      BY <3>2, <3>4, <3>5
  <2>3. /\ now < MaxEvents /\ retries' = retries /\ copy[s] \in UserRow /\ user[v] \in UserRow
    BY <1>0, <1>2, <2>2 DEF Increment, CounterTyped, Idle
  <2>4. EventUpTo(e, now + 1)
    <3>1. e.epoch <= now + 1 /\ e.epoch \in Nat
      BY <2>2, <2>3 DEF ClockCounts, UserUpTo, UserRow
    <3> QED
      BY <1>0, <3>1 DEF EventUpTo
  <2>5. UserUpTo(user'[v], now + 1) /\ \A u \in Servers : u # v => user'[u] = user[u]
    <3>1. PICK h : h = [user[v] EXCEPT !.value = copy[s].value + 1]
      OBVIOUS
    <3>2. h.epoch = user[v].epoch /\ h.version = user[v].version
      BY <2>3, <3>1 DEF UserRow
    <3>3. user' = [user EXCEPT ![v] = h]
      BY <2>2, <3>1
    <3>4. user'[v] = h /\ \A u \in Servers : u # v => user'[u] = user[u]
      BY <1>0, <3>3 DEF CounterTyped
    <3>5. UserUpTo(user[v], now + 1)
      BY <1>0, <2>3, LaterBound DEF ClockCounts
    <3> QED
      BY <3>2, <3>4, <3>5 DEF UserUpTo
  <2> QED
    BY <2>1, <2>2, <2>3, <2>4, <2>5, ClockMake
<1>3. CASE ResetCounters(s)
  <2>1. PICK v \in Servers : v = Home[s] /\ v = "iran"
    BY <1>0, <1>3, ResetEffect
  <2>2. PICK e : /\ Makes(v, e) /\ e.kind = "reset" /\ e.at = now + 1
                 /\ e.epoch = user[v].epoch + 1 /\ user' \in [Servers -> UserRow]
                 /\ user'[v].epoch = e.epoch
                 /\ user'["foreign"] = user["foreign"]
                 /\ copy' = [copy EXCEPT ![s] = NoCopy]
    BY <1>3, <2>1, ResetEffect
  <2>3. \A u \in Servers : u # v => user'[u] = user[u]
    BY <2>1, <2>2 DEF Servers
  <2>4. now < MaxEvents /\ retries' = retries /\ user[v] \in UserRow /\ UserUpTo(user[v], now)
    BY <1>0, <1>3 DEF ResetCounters, CounterTyped, ClockCounts
  <2>5. EventUpTo(e, now + 1)
    BY <1>0, <2>2, <2>4, CounterAssumption DEF EventUpTo, UserUpTo, UserRow
  <2>6. user'[v].version \in {user[v].version, user[v].version + 1}
    BY <1>0, <1>3, <2>1 DEF ResetCounters, CounterTyped
  <2>7. UserUpTo(user'[v], now + 1)
    BY <1>0, <2>2, <2>4, <2>6 DEF UserUpTo, UserRow
  <2> QED
    BY <2>1, <2>2, <2>3, <2>4, <2>5, <2>7, ClockMake
<1> QED
  BY <1>1, <1>2, <1>3

\* The receiver.
LEMMA ClockTake ==
    ASSUME EventInv, ClockCounts, NEW m \in requests, ReceiveEvent(m)
    PROVE  ClockCounts'
<1>1. /\ UNCHANGED <<changes, copy, now, retries>> /\ CounterTyped
  BY DEF ReceiveEvent, EventInv
<1>2. CASE Taken(m)
  <2>1. PICK w \in Servers, v \in Servers : w = m.src /\ v = Peer(w) /\ v # w
    BY <1>2, PassesIsNext, Peers DEF Taken
  <2>2. PICK e : e = changes[w][watermark[w] + 1]
    OBVIOUS
  <2>3. Takes(m, w, v, e)
    BY <1>2, <2>1, <2>2, TakeEffect
  <2>4. e \in EventRow /\ EventUpTo(e, now)
    <3>1. watermark[w] + 1 \in Told(w)
      BY <1>2, <2>1, PassesIsNext, LogTyped DEF Told, EventInv, Taken
    <3> QED
      BY <1>1, <2>2, <2>3, <3>1 DEF Takes, ClockCounts
  <2>5. user'[v].epoch \in {user[v].epoch, e.epoch}
    BY <2>3 DEF Takes
  <2>6. user'[v].version = user[v].version
    <3>1. PICK d : Apply(v, e, d)
      <4>1. m.seq = watermark[w] + 1
        BY <2>3 DEF Takes
      <4> QED
        BY <2>1, <2>2, <4>1 DEF ReceiveEvent
    <3>2. user[v] \in UserRow /\ user \in [Servers -> UserRow]
      BY <1>1 DEF CounterTyped
    <3> QED
      BY <3>1, <3>2 DEF Apply, UserRow
  <2>7. UserUpTo(user'[v], now)
    BY <2>4, <2>5, <2>6 DEF UserUpTo, EventUpTo, ClockCounts
  <2>8. \A u \in Servers : UserUpTo(user'[u], now)
    BY <2>1, <2>3, <2>7 DEF Takes, Servers, ClockCounts
  <2> QED
    BY <1>1, <2>8 DEF ClockCounts, Told, Idle
<1>3. CASE ~Taken(m)
  <2>1. user' = user
    BY <1>3, NotTaken
  <2> QED
    BY <1>1, <2>1 DEF ClockCounts, Told, Idle
<1> QED
  BY <1>2, <1>3

\* Every step keeps the bounds.
LEMMA ClockSteps ==
    ASSUME EventInv, ClockCounts, [CounterNext]_counterVars PROVE ClockCounts'
<1>1. CASE UNCHANGED <<user, changes, copy, now>> /\ retries' \in [Servers -> 0..MaxRetries]
  BY <1>1 DEF ClockCounts, Told, Idle
<1>2. ASSUME NEW v \in Servers, Send(v) \/ SendTimesOut(v) \/ Delivered(v) \/ Rejected(v)
      PROVE  UNCHANGED <<user, changes, copy, now>> /\ retries' \in [Servers -> 0..MaxRetries]
  <2>1. retries[v] < MaxRetries => retries[v] + 1 \in 0..MaxRetries
    BY CounterAssumption DEF ClockCounts
  <2> QED
    BY <1>2, <2>1 DEF Send, SendTimesOut, Delivered, Rejected, ClockCounts
<1>3. ASSUME NEW m \in requests, Refuse(m)
      PROVE  UNCHANGED <<user, changes, copy, now>> /\ retries' \in [Servers -> 0..MaxRetries]
  <2>1. m.src \in Servers /\ (retries[m.src] < MaxRetries => retries[m.src] + 1 \in 0..MaxRetries)
    BY CounterAssumption DEF ClockCounts, EventInv, CounterTyped
  <2> QED
    BY <1>3, <2>1 DEF Refuse, ClockCounts
<1>4. CASE UNCHANGED counterVars
  BY <1>1, <1>4 DEF counterVars, ClockCounts
<1> QED
  BY <1>1, <1>2, <1>3, <1>4, ClockWrite, ClockTake DEF CounterNext, Done

\* What a server knows of is bounded by the clock: every event has a number of its own.
LEMMA KnownByClock ==
    ASSUME EventInv, NEW v \in Servers
    PROVE  Known(v) \in Nat /\ Known(v) <= now
<1>1. /\ CounterTyped /\ Channel /\ TimesGrow /\ LedgerIsLog(v) /\ now \in Nat
      /\ IsFiniteSet(ledger[v])
  BY DEF EventInv, CounterTyped
<1>2. Increments(ledger[v]) \in SUBSET ledger[v]
  BY DEF Increments
<1>3. \A x \in ledger[v] : x.id \in 1..now
  BY <1>1, LedgerIsPast DEF EventRow
<1>4. \A x, y \in ledger[v] : x.id = y.id => x = y
  <2>1. ASSUME NEW x \in ledger[v]
        PROVE  \E u \in Servers : \E i \in Told(u) : x = changes[u][i]
    <3>1. Peer(v) \in Servers
      BY Peers
    <3>2. 1..watermark[Peer(v)] \subseteq Told(Peer(v))
      BY <1>1, <3>1 DEF Channel, InOrder, Told, CounterTyped
    <3> QED
      BY <1>1, <2>1, <3>1, <3>2 DEF LedgerIsLog
  <2>2. ASSUME NEW x \in ledger[v], NEW y \in ledger[v], x.id = y.id PROVE x = y
    <3>1. PICK u \in Servers : \E i \in Told(u) : x = changes[u][i]
      BY <2>1
    <3>2. PICK i \in Told(u) : x = changes[u][i]
      BY <3>1
    <3>3. PICK w \in Servers : \E j \in Told(w) : y = changes[w][j]
      BY <2>1
    <3>4. PICK j \in Told(w) : y = changes[w][j]
      BY <3>3
    <3>5. u = w
      BY <1>1, <2>2, <3>2, <3>4 DEF TimesGrow, Servers
    <3>6. i \in Int /\ j \in Int /\ x.id \in Int
      BY <1>3 DEF Told
    <3>7. ~(i < j) /\ ~(j < i)
      BY <1>1, <2>2, <3>2, <3>4, <3>5, <3>6 DEF TimesGrow
    <3> QED
      BY <3>2, <3>4, <3>5, <3>6, <3>7
  <2> QED
    BY <2>2
<1>5. PICK f : f = [x \in Increments(ledger[v]) |-> x.id]
  OBVIOUS
<1>6. f \in Injection(Increments(ledger[v]), 1..now)
  BY <1>2, <1>3, <1>4, <1>5 DEF Injection, IsInjective
<1>7. IsFiniteSet(1..now) /\ Cardinality(1..now) = now
  BY <1>1, FS_Interval
<1> QED
  BY <1>6, <1>7, FS_Injection, FS_CardinalityType DEF Known

\* Every variable keeps its kind and its bounds, whatever races: periods and versions
\* are never more than the events made, and no counter is.
THEOREM CounterTypeCorrect == CounterSpec => []CounterTypeOK
<1>1. ASSUME CounterInit PROVE ClockCounts
  <2>1. CounterTyped
    BY <1>1, CounterStarts DEF EventInv
  <2>2. /\ now = 0 /\ \A v \in Servers : /\ user[v] = [value |-> 0, epoch |-> 1, version |-> 1]
                                         /\ changes[v] = <<>> /\ Len(changes[v]) = 0
    BY <1>1 DEF CounterInit
  <2>3. \A v \in Servers : Told(v) = {}
    BY <2>2 DEF Told
  <2>4. \A v \in Servers : UserUpTo(user[v], now)
    BY <2>2 DEF UserUpTo
  <2>5. \A s \in Sessions : Idle(s)
    BY <1>1 DEF CounterInit, Idle
  <2>6. retries \in [Servers -> 0..MaxRetries]
    BY <1>1, CounterAssumption DEF CounterInit
  <2> QED
    BY <2>2, <2>3, <2>4, <2>5, <2>6, CounterAssumption DEF ClockCounts
<1>2. EventInv /\ ClockCounts /\ [CounterNext]_counterVars => EventInv' /\ ClockCounts'
  BY CounterSteps, ClockSteps
<1>3. ASSUME EventInv, ClockCounts, CountedInv, CounterInv PROVE CounterTypeOK
  <2>0. /\ CounterTyped /\ Channel /\ now \in Nat /\ now <= MaxEvents /\ MaxEvents \in Nat
        /\ \A q \in Sessions : Home[q] \in Servers
        /\ \A v \in Servers : Len(changes[v]) \in Nat /\ Len(changes[v]) <= MaxEvents
    BY <1>3, CounterAssumption DEF EventInv, CounterTyped, ClockCounts, Servers
  <2>1. \A v \in Servers : Known(v) \in Nat /\ Known(v) <= MaxEvents
    BY <1>3, <2>0, KnownByClock
  <2>2. \A r \in UserRow, n \in Nat :
           r.value <= n /\ n <= MaxEvents /\ UserUpTo(r, now) => r \in Rows
    BY <2>0 DEF UserRow, UserUpTo, Rows
  <2>3. user \in [Servers -> Rows]
    <3>1. \A v \in Servers : /\ user[v] \in UserRow /\ user[v].value <= Known(v)
                             /\ UserUpTo(user[v], now)
      BY <1>3, <2>0 DEF CounterTyped, CountedInv, NeverOvercounted, ClockCounts
    <3>2. \A v \in Servers : user[v] \in Rows
      BY <2>1, <2>2, <3>1
    <3> QED
      BY <2>0, <3>2 DEF CounterTyped
  <2>4. copy \in [Sessions -> Rows \cup {NoCopy}]
    <3>1. \A s \in Sessions : ~Idle(s) => /\ copy[s] \in UserRow
                                         /\ copy[s].value <= Known(Home[s])
                                         /\ UserUpTo(copy[s], now)
      BY <1>3, <2>0 DEF CounterTyped, CountedInv, CopiesBelow, ClockCounts, Idle
    <3>2. \A s \in Sessions : copy[s] \in Rows \cup {NoCopy}
      BY <2>0, <2>1, <2>2, <3>1 DEF Idle
    <3> QED
      BY <2>0, <3>2 DEF CounterTyped
  <2>5. \A v \in Servers : \A i \in Told(v) : changes[v][i] \in Events
    <3> SUFFICES ASSUME NEW v \in Servers, NEW i \in Told(v) PROVE changes[v][i] \in Events
      OBVIOUS
    <3>1. PICK e : e = changes[v][i]
      OBVIOUS
    <3>2. e \in EventRow /\ EventUpTo(e, now) /\ e.id <= now
      BY <1>3, <2>0, <3>1 DEF EventInv, CounterTyped, Told, ClockCounts, TimesGrow
    <3>3. e \in Events
      BY <2>0, <3>2 DEF EventRow, EventUpTo, Events
    <3> QED
      BY <3>1, <3>3
  <2>6. \A v \in Servers : changes[v] \in Seq(Events)
    <3> SUFFICES ASSUME NEW v \in Servers PROVE changes[v] \in Seq(Events)
      OBVIOUS
    <3>1. changes[v] \in Seq(EventRow) /\ Len(changes[v]) \in Nat
      BY <2>0 DEF CounterTyped
    <3>2. changes[v] \in [1..Len(changes[v]) -> EventRow]
      BY <3>1, LenProperties
    <3>3. changes[v] \in [1..Len(changes[v]) -> Events]
      BY <2>5, <3>2 DEF Told
    <3> QED
      BY <3>1, <3>3, SeqDef
  <2>7. \A v \in Servers : ledger[v] \subseteq Events
    <3> SUFFICES ASSUME NEW v \in Servers, NEW x \in ledger[v] PROVE x \in Events
      OBVIOUS
    <3>1. LedgerIsLog(v) /\ Peer(v) \in Servers
      BY <1>3, Peers DEF EventInv
    <3>2. 1..watermark[Peer(v)] \subseteq Told(Peer(v))
      BY <2>0, <3>1 DEF Channel, InOrder, Told, CounterTyped
    <3> QED
      BY <2>5, <3>1, <3>2 DEF LedgerIsLog
  <2>8. /\ synced \in [Servers -> 0..MaxEvents] /\ watermark \in [Servers -> 0..MaxEvents]
        /\ sent \in [Servers -> 0..MaxEvents]
    <3>1. \A v \in Servers : /\ synced[v] \in 0..MaxEvents /\ watermark[v] \in 0..MaxEvents
                             /\ sent[v] \in 0..MaxEvents
      BY <2>0 DEF CounterTyped, Channel, InOrder
    <3> QED
      BY <2>0, <3>1 DEF CounterTyped
  <2>9. requests \subseteq Messages
    <3> SUFFICES ASSUME NEW m \in requests PROVE m \in Messages
      OBVIOUS
    <3>1. /\ m \in [src : Servers, seq : Nat \ {0}, live : BOOLEAN]
          /\ m.src \in Servers /\ m.seq <= Len(changes[m.src])
      BY <2>0 DEF CounterTyped, Channel, RequestSound
    <3>2. m.seq \in 1..MaxEvents
      BY <2>0, <3>1
    <3> QED
      BY <3>1, <3>2 DEF Messages
  <2> QED
    BY <1>3, <2>0, <2>3, <2>4, <2>6, <2>7, <2>8, <2>9
       DEF CounterTyped, ClockCounts, CounterTypeOK, CounterInv
<1>4. CounterInv /\ [CounterNext]_counterVars => CounterInv'
  BY CountSteps
<1> QED
  BY <1>1, <1>2, <1>3, <1>4, CounterStarts, CountStarts, CountedHolds, PTL DEF CounterSpec

-----------------------------------------------------------------------------
(* Nothing is refused *)

\* Whatever runs between a transaction's read and its write, no counter event on its way
\* is refused for what it says, so none is quarantined with every later change of the
\* user behind it (sync.py:2903-2951): as long as the two clocks differ by no more than
\* USER_COUNTER_MAX_FUTURE_SKEW (user_counter_sync.py:22,63) and fewer events are made
\* than a counter can hold.
THEOREM NothingIsRefused ==
    ASSUME Skew <= FutureSkew, -Skew <= FutureSkew, MaxEvents < MaxValue
    PROVE  CounterSpec => []NeverRefused
<1>0. Skew \in Int /\ FutureSkew \in Nat /\ MaxValue \in Nat /\ MaxEvents \in Nat
  BY CounterAssumption
<1>1. ASSUME EventInv, CounterTypeOK, CountedInv PROVE NeverRefused
  <2> SUFFICES ASSUME NEW m \in requests, Passes(m)
               PROVE  Decision(Peer(m.src), changes[m.src][m.seq]) \notin {"error", "deferred"}
    BY DEF NeverRefused
  <2>1. /\ m.src \in Servers /\ m.seq = watermark[m.src] + 1
        /\ watermark[m.src] < Len(changes[m.src]) /\ watermark[m.src] \in Nat
    BY <1>1, PassesIsNext
  <2>2. PICK w \in Servers, v \in Servers : w = m.src /\ v = Peer(w) /\ v # w
    BY <2>1, Peers
  <2>3. PICK e : e = changes[w][watermark[w] + 1]
    OBVIOUS
  <2>4. /\ CounterTyped /\ TimesGrow /\ watermark[w] + 1 \in Told(w) /\ now \in Nat
        /\ now <= MaxEvents
    <3>0. now \in 0..MaxEvents
      BY <1>1 DEF CounterTypeOK
    <3>1. CounterTyped /\ TimesGrow /\ now \in Nat /\ now <= MaxEvents
      BY <1>0, <1>1, <3>0 DEF EventInv
    <3>2. Len(changes[w]) \in Nat
      BY <3>1, LogTyped
    <3> QED
      BY <2>1, <2>2, <3>1, <3>2 DEF Told
  <2>5. e.id \in Nat /\ e.id <= now
    BY <2>3, <2>4, LogTyped DEF TimesGrow
  <2>6. ~TooFarAhead(v, e)
    <3>1. CASE w = "iran"
      <4>1. v = "foreign" /\ e.at = e.id
        BY <2>2, <2>3, <2>4, <3>1 DEF TimesGrow, Servers
      <4> QED
        BY <1>0, <2>4, <2>5, <4>1 DEF TooFarAhead, ClockAt
    <3>2. CASE w = "foreign"
      <4>1. v = "iran" /\ e.at = e.id + Skew
        BY <2>2, <2>3, <2>4, <3>2 DEF TimesGrow, Servers
      <4> QED
        BY <1>0, <2>4, <2>5, <4>1 DEF TooFarAhead, ClockAt
    <3> QED
      BY <3>1, <3>2 DEF Servers
  <2>7. Known(v) \in Nat /\ Known(v) <= MaxEvents
    BY <1>0, <1>1, <2>4, KnownByClock
  <2>8. user[v].value \in Nat /\ ~(user[v].value >= MaxValue)
    <3>1. user[v].value \in Nat
      BY <2>4 DEF CounterTyped, UserRow
    <3>2. user[v].value <= Known(v)
      BY <1>1 DEF CountedInv, NeverOvercounted
    <3> QED
      BY <1>0, <2>7, <3>1, <3>2
  <2>9. ~(Rebuilt(ledger[v], e.at) > MaxValue)
    <3>1. IsFiniteSet(ledger[v])
      BY <2>4 DEF CounterTyped
    <3>2. {x \in Increments(ledger[v]) : x.at >= e.at} \in SUBSET ledger[v]
      BY DEF Increments
    <3>3. Rebuilt(ledger[v], e.at) \in Nat
      BY <3>1, <3>2, FS_Subset, FS_CardinalityType DEF Rebuilt
    <3>4. Rebuilt(ledger[v], e.at) <= Known(v)
      BY <3>1, RebuiltBelow DEF Known
    <3> QED
      BY <1>0, <2>7, <3>3, <3>4
  <2>10. /\ e \in EventRow
         /\ e.kind = "increment" => Decision(v, e) \in {"excluded", "counted"}
         /\ e.kind = "reset" => Decision(v, e) = "rebuilt"
    BY <1>1, <2>1, <2>2, <2>3, <2>6, <2>8, <2>9, NextIsTaken
  <2>11. Decision(v, e) \in {"excluded", "counted", "rebuilt"}
    BY <2>10 DEF EventRow
  <2> QED
    BY <2>1, <2>2, <2>3, <2>11
<1>2. EventInv /\ [CounterNext]_counterVars => EventInv'
  BY CounterSteps
<1> QED
  BY <1>1, <1>2, CounterStarts, CounterTypeCorrect, CountedHolds, PTL DEF CounterSpec

=============================================================================
