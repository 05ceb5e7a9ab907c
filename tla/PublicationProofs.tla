------------------------- MODULE PublicationProofs --------------------------
(***************************************************************************)
(* An offer has one message in the channel, and the message never goes     *)
(* back, although the feeder hands the offer over again for every version  *)
(* and phase, calls time out after they were carried out, edits are        *)
(* repeated, and the offer changes while a call for it is on its way.      *)
(***************************************************************************)
EXTENDS OfferPublication, WellFoundedInduction, TLAPS

-----------------------------------------------------------------------------
(* The inductive invariant *)

OfferRow == [status : {"active", "closed"}, phase : PhaseNames,
             revision : Nat, version : Nat]

\* The fields of a delivery row; what is not absent shows something
RowFields == {"state", "content", "stamp", "started"}

Shown == Nat \X (PhaseNames \cup {"closed"})

InFlight == {"leased", "ambiguous", "pending_reconcile"}

RowSound(row) ==
    /\ DOMAIN row = RowFields
    /\ row.started \in BOOLEAN
    /\ row.state # "absent" => row.content \in Shown
    /\ row.state \in InFlight => row.started

Typed ==
    /\ offer \in [Offers -> OfferRow]
    /\ DOMAIN pub = Offers
    /\ \A o \in Offers : /\ DOMAIN pub[o] = {"message", "version", "status", "phase"}
                         /\ pub[o].message \in BOOLEAN
    /\ DOMAIN job = Keys
    /\ \A k \in Keys : RowSound(job[k])
    /\ DOMAIN channel = Offers
    /\ \A o \in Offers : /\ DOMAIN channel[o] = {"copies", "content"}
                         /\ channel[o].copies \in Nat
                         /\ channel[o].copies > 0 => channel[o].content \in Shown

\* One call at a time is on its way to the channel, or in doubt.
OneCall == \A k, x \in Keys : (job[k].state \in InFlight /\ job[x].state \in InFlight) => k = x

\* A publication on its way is the first; one that was carried out is recorded
\* or in doubt; and there is never a second message.
FirstCall == \A k \in Keys : (k[2] = "publish" /\ job[k].state = "leased") => channel[k[1]].copies = 0

DoubtIsHeld ==
    \A o \in Offers : (channel[o].copies > 0 /\ ~pub[o].message) =>
        \E k \in Keys : k[1] = o /\ job[k].state = "ambiguous"

\* x is not ahead of y: revision first, then phase.
NotAhead(x, y) ==
    \/ Rank(x)[1] < Rank(y)[1]
    \/ Rank(x)[1] = Rank(y)[1] /\ Rank(x)[2] <= Rank(y)[2]

\* The message is not ahead of the offer, and a call on its way lies between them.
MessageBehind == \A o \in Offers : channel[o].copies > 0 => NotAhead(channel[o].content, Content(o))

CallBetween ==
    \A k \in Keys : job[k].state = "leased" =>
        /\ NotAhead(job[k].content, Content(k[1]))
        /\ channel[k[1]].copies > 0 => NotAhead(channel[k[1]].content, job[k].content)

PublicationInv ==
    /\ Typed /\ OneCall /\ FirstCall /\ DoubtIsHeld /\ MessageBehind /\ CallBetween
    /\ PublishedOnce

-----------------------------------------------------------------------------
(* Contents are ordered *)

\* Ranks are pairs of numbers, and tell contents apart.
LEMMA RankFacts ==
    ASSUME NEW x \in Shown
    PROVE  /\ Rank(x)[1] \in Nat /\ Rank(x)[2] \in 0..3
           /\ NotAhead(x, x)
           /\ \A y \in Shown : (Rank(x)[1] = Rank(y)[1] /\ Rank(x)[2] = Rank(y)[2]) => x = y
<1>1. \A y \in Shown : /\ y = <<y[1], y[2]>> /\ y[1] \in Nat
                       /\ y[2] \in {"normal", "overtime", "tail", "closed"}
                       /\ Rank(y)[1] = y[1]
                       /\ y[2] = "normal" => Rank(y)[2] = 0
                       /\ y[2] = "overtime" => Rank(y)[2] = 1
                       /\ y[2] = "tail" => Rank(y)[2] = 2
                       /\ y[2] = "closed" => Rank(y)[2] = 3
  BY DEF Shown, PhaseNames, Rank
<1>2. Rank(x)[1] \in Nat /\ Rank(x)[2] \in 0..3
  BY <1>1
<1>3. NotAhead(x, x)
  BY <1>2 DEF NotAhead
<1>4. ASSUME NEW y \in Shown, Rank(x)[1] = Rank(y)[1], Rank(x)[2] = Rank(y)[2]
      PROVE  x = y
  <2>1. x[1] = y[1]
    BY <1>1, <1>4
  <2>2. x[2] = y[2]
    BY <1>1, <1>4
  <2> QED
    BY <1>1, <2>1, <2>2
<1> QED
  BY <1>2, <1>3, <1>4

\* The order is transitive.
LEMMA NotAheadTransitive ==
    ASSUME NEW x \in Shown, NEW y \in Shown, NEW z \in Shown, NotAhead(x, y), NotAhead(y, z)
    PROVE  NotAhead(x, z)
<1>1. /\ Rank(x)[1] \in Nat /\ Rank(x)[2] \in 0..3
      /\ Rank(y)[1] \in Nat /\ Rank(y)[2] \in 0..3
      /\ Rank(z)[1] \in Nat /\ Rank(z)[2] \in 0..3
  BY RankFacts
<1> QED
  BY <1>1 DEF NotAhead

\* What the offer is now can be shown.
LEMMA ContentIsShown ==
    ASSUME NEW of \in [Offers -> OfferRow], NEW o \in Offers
    PROVE  <<of[o].revision, IF of[o].status = "active" THEN of[o].phase ELSE "closed">> \in Shown
BY DEF OfferRow, Shown, PhaseNames

\* The offers of keys.
LEMMA KeyParts == \A k \in Keys : k[1] \in Offers /\ k[2] \in Actions
BY DEF Keys

-----------------------------------------------------------------------------
(* Steps that begin no call and end none in the channel *)

\* Rows change only to rows that are not in flight, and a doubt stays.
RowsQuiet ==
    /\ DOMAIN job' = Keys
    /\ \A k \in Keys : /\ RowSound(job'[k])
                       /\ \/ job'[k] = job[k]
                          \/ job'[k].state \notin InFlight /\ job[k].state # "ambiguous"

\* The records of what was published stay, as far as the message goes.
MessageKept ==
    /\ DOMAIN pub' = Offers
    /\ \A o \in Offers : /\ DOMAIN pub'[o] = {"message", "version", "status", "phase"}
                         /\ pub'[o].message = pub[o].message

\* Offers move on.
OffersAdvance ==
    /\ offer' \in [Offers -> OfferRow]
    /\ \A o \in Offers : NotAhead(Content(o), Content(o)')

\* Such a step keeps the invariant.
LEMMA QuietStep ==
    ASSUME PublicationInv, RowsQuiet, MessageKept, OffersAdvance, channel' = channel
    PROVE  PublicationInv'
<1>1. /\ Typed /\ OneCall /\ FirstCall /\ DoubtIsHeld /\ MessageBehind /\ CallBetween
      /\ PublishedOnce
  BY DEF PublicationInv
<1>2. Typed'
  BY <1>1 DEF Typed, RowsQuiet, MessageKept, OffersAdvance
<1>3. \A k \in Keys : job'[k].state \in InFlight => job'[k] = job[k]
  BY DEF RowsQuiet
<1>4. OneCall'
  BY <1>1, <1>3 DEF OneCall
<1>5. FirstCall'
  BY <1>1, <1>3 DEF FirstCall, InFlight
<1>6. DoubtIsHeld'
  BY <1>1 DEF DoubtIsHeld, RowsQuiet, MessageKept
<1>7. \A o \in Offers : Content(o) \in Shown /\ Content(o)' \in Shown
  BY <1>1, <1>2, ContentIsShown DEF Typed, Content, Active
<1>8. MessageBehind'
  <2> SUFFICES ASSUME NEW o \in Offers, channel[o].copies > 0
               PROVE  NotAhead(channel[o].content, Content(o)')
    BY DEF MessageBehind
  <2>1. channel[o].content \in Shown /\ NotAhead(channel[o].content, Content(o))
    BY <1>1 DEF Typed, MessageBehind
  <2>2. NotAhead(Content(o), Content(o)')
    BY DEF OffersAdvance
  <2> QED
    BY <1>7, <2>1, <2>2, NotAheadTransitive
<1>9. CallBetween'
  <2> SUFFICES ASSUME NEW k \in Keys, job'[k].state = "leased"
               PROVE  /\ NotAhead(job'[k].content, Content(k[1])')
                      /\ channel[k[1]].copies > 0 =>
                             NotAhead(channel[k[1]].content, job'[k].content)
    BY DEF CallBetween
  <2>1. job'[k] = job[k] /\ k[1] \in Offers
    BY <1>3, KeyParts DEF InFlight
  <2>2. /\ job[k].content \in Shown /\ NotAhead(job[k].content, Content(k[1]))
        /\ channel[k[1]].copies > 0 => NotAhead(channel[k[1]].content, job[k].content)
    BY <1>1, <2>1 DEF CallBetween, Typed, RowSound
  <2>3. NotAhead(Content(k[1]), Content(k[1])')
    BY <2>1 DEF OffersAdvance
  <2>4. NotAhead(job[k].content, Content(k[1])')
    BY <1>7, <2>1, <2>2, <2>3, NotAheadTransitive
  <2> QED
    BY <2>1, <2>2, <2>4
<1>10. PublishedOnce'
  BY <1>1 DEF PublishedOnce
<1> QED
  BY <1>2, <1>4, <1>5, <1>6, <1>8, <1>9, <1>10 DEF PublicationInv

\* An unchanged offer table advances.
LEMMA SameOffers ==
    ASSUME Typed, offer' = offer PROVE OffersAdvance
<1>1. \A o \in Offers : Content(o)' = Content(o) /\ Content(o) \in Shown
  BY ContentIsShown DEF Typed, Content, Active
<1> QED
  BY <1>1, RankFacts DEF OffersAdvance, Typed

\* An unchanged publication table keeps its messages.
LEMMA SamePub == ASSUME Typed, pub' = pub PROVE MessageKept
BY DEF Typed, MessageKept

\* Handing an offer over supersedes waiting rows and adds one, and touches no row
\* that is in flight.
LEMMA HandedOffQuiet ==
    ASSUME Typed, NEW o \in Offers, NEW a, NEW k \in Keys
    PROVE  /\ RowSound(HandedOff(job, o, a)[k])
           /\ \/ HandedOff(job, o, a)[k] = job[k]
              \/ /\ HandedOff(job, o, a)[k].state \in {"superseded", "pending"}
                 /\ job[k].state \in {"pending", "absent"}
<1> DEFINE row == HandedOff(job, o, a)[k]
           old == [job[k] EXCEPT !.state = "superseded"]
           new == [state |-> "pending", content |-> Content(o),
                   stamp |-> Stamp(o, a), started |-> FALSE]
<1>1. RowSound(job[k]) /\ Content(o) \in Shown
  BY ContentIsShown DEF Typed, Content, Active
<1>2. \/ row = job[k]
      \/ row = old /\ job[k].state = "pending"
      \/ row = new /\ job[k].state = "absent"
  BY DEF HandedOff, Obsolete
<1>3. CASE row = job[k]
  BY <1>1, <1>3
<1>4. CASE row = old /\ job[k].state = "pending"
  <2>1. /\ DOMAIN old = RowFields /\ old.state = "superseded"
        /\ old.content = job[k].content /\ old.started = job[k].started
    BY <1>1 DEF RowSound, RowFields
  <2> HIDE DEF old, row
  <2>2. RowSound(old)
    BY <1>1, <1>4, <2>1 DEF RowSound, InFlight
  <2> QED
    BY <1>4, <2>1, <2>2 DEF row
<1>5. CASE row = new /\ job[k].state = "absent"
  <2>1. DOMAIN new = RowFields /\ new.state = "pending" /\ new.content = Content(o)
        /\ new.started = FALSE
    BY DEF RowFields
  <2> HIDE DEF new, row
  <2>2. RowSound(new)
    BY <1>1, <2>1 DEF RowSound, InFlight
  <2> QED
    BY <1>5, <2>1, <2>2 DEF row
<1> QED
  BY <1>2, <1>3, <1>4, <1>5

\* A batch of the feeder is quiet, whether or not a conflict ends it.
LEMMA BatchQuiet ==
    ASSUME Typed, NEW here, NEW next, NEW candidates \in SUBSET Offers, NEW action,
           Batch(here, next, candidates, action)
    PROVE  RowsQuiet
<1>1. CASE job' = job
  BY <1>1 DEF RowsQuiet, Typed
<1>2. CASE job' = [k \in Keys |-> IF k[1] \in candidates
                                 THEN HandedOff(job, k[1], action[k[1]])[k]
                                 ELSE job[k]]
  <2> SUFFICES ASSUME NEW k \in Keys
               PROVE  /\ RowSound(job'[k])
                      /\ \/ job'[k] = job[k]
                         \/ job'[k].state \notin InFlight /\ job[k].state # "ambiguous"
    BY <1>2 DEF RowsQuiet
  <2>1. k[1] \in Offers
    BY KeyParts
  <2>2. CASE k[1] \in candidates
    <3>1. job'[k] = HandedOff(job, k[1], action[k[1]])[k]
      BY <1>2, <2>2
    <3> QED
      BY <2>1, <3>1, HandedOffQuiet DEF InFlight
  <2>3. CASE k[1] \notin candidates
    BY <1>2, <2>3 DEF Typed
  <2> QED
    BY <2>2, <2>3
<1> QED
  BY <1>1, <1>2 DEF Batch

\* The three batches of the feeder cycle
LEMMA FeedSteps ==
    ASSUME PublicationInv, FeedPublications \/ FeedEdits \/ FeedLifecycle
    PROVE  PublicationInv'
<1>1. Typed
  BY DEF PublicationInv
<1>2. RowsQuiet
  <2>1. /\ PublicationCandidates \in SUBSET Offers /\ EditCandidates \in SUBSET Offers
        /\ LifecycleCandidates \in SUBSET Offers
    BY DEF PublicationCandidates, EditCandidates, LifecycleCandidates
  <2> QED
    BY <1>1, <2>1, BatchQuiet DEF FeedPublications, FeedEdits, FeedLifecycle
<1>3. offer' = offer /\ channel' = channel
  BY DEF FeedPublications, FeedEdits, FeedLifecycle
<1>4. MessageKept
  <2>1. CASE pub' = pub
    BY <1>1, <2>1, SamePub
  <2>2. CASE pub' = [o \in Offers |-> IF o \in LifecycleCandidates
                                     THEN [pub[o] EXCEPT !.phase = PhaseOf(o)]
                                     ELSE pub[o]]
    BY <1>1, <2>2 DEF MessageKept, Typed
  <2> QED
    BY <2>1, <2>2 DEF FeedPublications, FeedEdits, FeedLifecycle
<1> QED
  BY <1>1, <1>2, <1>3, <1>4, SameOffers, QuietStep

\* A pressed button hands the offer over as well.
LEMMA ButtonStep ==
    ASSUME PublicationInv, NEW o \in Offers, ButtonRefresh(o)
    PROVE  PublicationInv'
<1>1. Typed
  BY DEF PublicationInv
<1>2. PICK a : job' = HandedOff(job, o, a)
  BY DEF ButtonRefresh
<1>3. RowsQuiet
  <2>1. DOMAIN job' = Keys
    BY <1>2 DEF HandedOff
  <2> QED
    BY <1>1, <1>2, <2>1, HandedOffQuiet DEF RowsQuiet, InFlight
<1>4. offer' = offer /\ channel' = channel /\ pub' = pub
  BY DEF ButtonRefresh
<1> QED
  BY <1>1, <1>3, <1>4, SameOffers, SamePub, QuietStep

\* Trades, closing and the clock only move an offer on.
LEMMA OfferSteps ==
    ASSUME PublicationInv, NEW o \in Offers, Trade(o) \/ Close(o) \/ PhasePasses(o)
    PROVE  PublicationInv'
<1>1. Typed /\ offer[o] \in OfferRow
  BY DEF PublicationInv, Typed
<1>2. pub' = pub /\ job' = job /\ channel' = channel
  BY DEF Trade, Close, PhasePasses
<1>3. RowsQuiet
  BY <1>1, <1>2 DEF RowsQuiet, Typed
<1>4. \E row \in OfferRow :
         /\ offer' = [offer EXCEPT ![o] = row]
         /\ \/ row.revision > offer[o].revision
            \/ /\ row.revision = offer[o].revision /\ row.status = offer[o].status
               /\ offer[o].status = "active"
               /\ \/ offer[o].phase = "normal" /\ row.phase \in {"overtime", "tail"}
                  \/ offer[o].phase = "overtime" /\ row.phase = "tail"
  <2>1. CASE Trade(o)
    <3> DEFINE row == [offer[o] EXCEPT !.revision = @ + 1, !.version = @ + 1]
    <3>1. /\ offer[o].revision \in Nat /\ offer[o].version \in Nat
          /\ offer[o].revision + 1 \in Nat /\ offer[o].version + 1 \in Nat
      BY <1>1 DEF OfferRow
    <3>2. row \in OfferRow /\ row.revision = offer[o].revision + 1
      BY <1>1, <3>1 DEF OfferRow
    <3>3. offer' = [offer EXCEPT ![o] = row]
      BY <2>1 DEF Trade
    <3> HIDE DEF row
    <3>4. row.revision > offer[o].revision
      BY <3>1, <3>2
    <3> QED
      BY <3>2, <3>3, <3>4
  <2>2. CASE Close(o)
    <3> DEFINE row == [offer[o] EXCEPT !.status = "closed", !.revision = @ + 1,
                                       !.version = @ + 1]
    <3>1. /\ offer[o].revision \in Nat /\ offer[o].version \in Nat
          /\ offer[o].revision + 1 \in Nat /\ offer[o].version + 1 \in Nat
      BY <1>1 DEF OfferRow
    <3>2. row \in OfferRow /\ row.revision = offer[o].revision + 1
      BY <1>1, <3>1 DEF OfferRow
    <3>3. offer' = [offer EXCEPT ![o] = row]
      BY <2>2 DEF Close
    <3> HIDE DEF row
    <3>4. row.revision > offer[o].revision
      BY <3>1, <3>2
    <3> QED
      BY <3>2, <3>3, <3>4
  <2>3. CASE PhasePasses(o)
    <3>1. PICK next \in {"overtime", "tail"} :
             /\ offer' = [offer EXCEPT ![o].phase = next]
             /\ \/ offer[o].phase = "normal"
                \/ next = "tail" /\ offer[o].phase # "tail"
      BY <2>3 DEF PhasePasses
    <3> DEFINE row == [offer[o] EXCEPT !.phase = next]
    <3>2. /\ row \in OfferRow /\ row.revision = offer[o].revision
          /\ row.status = offer[o].status /\ row.phase = next
      BY <1>1 DEF OfferRow, PhaseNames
    <3>3. offer' = [offer EXCEPT ![o] = row]
      BY <3>1
    <3>4. offer[o].phase \in PhaseNames /\ offer[o].status = "active"
      BY <1>1, <2>3 DEF OfferRow, PhasePasses, Active
    <3> QED
      BY <3>1, <3>2, <3>3, <3>4 DEF PhaseNames
  <2> QED
    BY <2>1, <2>2, <2>3
<1>5. PICK row \in OfferRow :
         /\ offer' = [offer EXCEPT ![o] = row]
         /\ \/ row.revision > offer[o].revision
            \/ /\ row.revision = offer[o].revision /\ row.status = offer[o].status
               /\ offer[o].status = "active"
               /\ \/ offer[o].phase = "normal" /\ row.phase \in {"overtime", "tail"}
                  \/ offer[o].phase = "overtime" /\ row.phase = "tail"
  BY <1>4
<1>6. /\ offer' \in [Offers -> OfferRow] /\ offer'[o] = row
      /\ \A q \in Offers : q # o => offer'[q] = offer[q]
  BY <1>1, <1>5 DEF Typed
<1>7. \A q \in Offers : Content(q) \in Shown /\ Content(q)' \in Shown
  BY <1>1, <1>6, ContentIsShown DEF Typed, Content, Active
<1>8. NotAhead(Content(o), Content(o)')
  <2>1. /\ Rank(Content(o))[1] = offer[o].revision /\ Rank(Content(o)')[1] = row.revision
        /\ offer[o].revision \in Nat /\ row.revision \in Nat
    BY <1>1, <1>6 DEF Rank, Content, OfferRow
  <2>2. CASE row.revision > offer[o].revision
    BY <2>1, <2>2 DEF NotAhead
  <2>3. CASE /\ row.revision = offer[o].revision /\ row.status = offer[o].status
             /\ offer[o].status = "active"
             /\ \/ offer[o].phase = "normal" /\ row.phase \in {"overtime", "tail"}
                \/ offer[o].phase = "overtime" /\ row.phase = "tail"
    <3>1. Content(o)[2] = offer[o].phase /\ Content(o)'[2] = row.phase
      BY <1>6, <2>3 DEF Content, Active
    <3>2. Rank(Content(o))[2] <= Rank(Content(o)')[2]
      BY <2>3, <3>1 DEF Rank
    <3> QED
      BY <2>1, <2>3, <3>2 DEF NotAhead
  <2> QED
    BY <1>5, <2>2, <2>3
<1>9. OffersAdvance
  <2>1. \A q \in Offers : q # o => Content(q)' = Content(q)
    BY <1>6 DEF Content, Active
  <2> QED
    BY <1>6, <1>7, <1>8, <2>1, RankFacts DEF OffersAdvance
<1> QED
  BY <1>1, <1>2, <1>3, <1>9, SamePub, QuietStep

-----------------------------------------------------------------------------
(* The worker *)

\* Every other key keeps its row.
LEMMA OneRow ==
    ASSUME Typed, NEW k \in Keys, NEW row, RowSound(row), job' = [job EXCEPT ![k] = row]
    PROVE  /\ DOMAIN job' = Keys /\ job'[k] = row
           /\ \A x \in Keys : x # k => job'[x] = job[x]
           /\ \A x \in Keys : RowSound(job'[x])
BY DEF Typed

\* A row leaves the queue or waits again, without a trace in the channel.
LEMMA OneRowQuiet ==
    ASSUME PublicationInv, NEW k \in Keys, NEW row, RowSound(row),
           row.state \notin InFlight, job[k].state # "ambiguous",
           job' = [job EXCEPT ![k] = row],
           offer' = offer, channel' = channel, MessageKept
    PROVE  PublicationInv'
<1>1. Typed
  BY DEF PublicationInv
<1>2. RowsQuiet
  BY <1>1, OneRow DEF RowsQuiet
<1> QED
  BY <1>1, <1>2, SameOffers, QuietStep

\* A verdict settles a row, or hands the offer over in its place.
LEMMA SettleStep ==
    ASSUME PublicationInv, NEW k \in Keys, Settle(k)
    PROVE  PublicationInv'
<1>1. /\ Typed /\ RowSound(job[k]) /\ k[1] \in Offers
      /\ job[k].state \in {"pending", "pending_reconcile"}
  BY KeyParts DEF PublicationInv, Typed, Settle
<1>2. offer' = offer /\ channel' = channel
  BY DEF Settle
<1> DEFINE v == Verdict(k)
<1>3. ASSUME NEW st \in FinalStates,
             job' = [job EXCEPT ![k].state = st],
             \/ pub' = pub
             \/ pub' = [pub EXCEPT ![k[1]].status = "disabled",
                                   ![k[1]].version = offer[k[1]].version]
      PROVE  PublicationInv'
  <2> DEFINE row == [job[k] EXCEPT !.state = st]
  <2>1. st \notin InFlight /\ st # "absent"
    BY <1>3 DEF FinalStates, InFlight
  <2>2. job' = [job EXCEPT ![k] = row]
    BY <1>3
  <2>3. /\ DOMAIN row = RowFields /\ row.state = st /\ row.content = job[k].content
        /\ row.started = job[k].started
    BY <1>1 DEF RowSound, RowFields
  <2> HIDE DEF row
  <2>4. RowSound(row)
    BY <1>1, <2>1, <2>3 DEF RowSound
  <2>5. MessageKept
    <3>1. CASE pub' = pub
      BY <1>1, <3>1, SamePub
    <3>2. CASE pub' = [pub EXCEPT ![k[1]].status = "disabled",
                                  ![k[1]].version = offer[k[1]].version]
      BY <1>1, <3>2 DEF MessageKept, Typed
    <3> QED
      BY <1>3, <3>1, <3>2
  <2> QED
    BY <1>1, <1>2, <2>1, <2>2, <2>3, <2>4, <2>5, OneRowQuiet
<1>4. CASE /\ job' = [HandedOff(job, k[1], v) EXCEPT ![k].state = "superseded"]
           /\ pub' = pub
  <2> DEFINE H == HandedOff(job, k[1], v)
             row == [H[k] EXCEPT !.state = "superseded"]
  <2>1. DOMAIN H = Keys
    BY DEF HandedOff
  <2>2. \A x \in Keys :
          /\ RowSound(H[x])
          /\ \/ H[x] = job[x]
             \/ H[x].state \in {"superseded", "pending"} /\ job[x].state \in {"pending", "absent"}
    BY <1>1, HandedOffQuiet
  <2>3. job' = [H EXCEPT ![k] = row]
    BY <1>4
  <2>4. H[k].state # "absent"
    BY <1>1, <2>2
  <2> HIDE DEF H
  <2>5. /\ DOMAIN row = RowFields /\ row.state = "superseded" /\ row.content = H[k].content
        /\ row.started = H[k].started
    BY <2>2 DEF RowSound, RowFields
  <2> HIDE DEF row
  <2>6. RowSound(row)
    BY <2>2, <2>4, <2>5 DEF RowSound, InFlight
  <2>7. /\ DOMAIN job' = Keys /\ job'[k] = row
        /\ \A x \in Keys : x # k => job'[x] = H[x]
    BY <2>1, <2>3
  <2>8. RowsQuiet
    BY <1>1, <2>2, <2>5, <2>6, <2>7 DEF RowsQuiet, InFlight
  <2> QED
    BY <1>1, <1>2, <1>4, <2>8, SameOffers, SamePub, QuietStep
<1>5. "superseded" \in FinalStates
  BY DEF FinalStates
<1> QED
  BY <1>3, <1>4, <1>5 DEF Settle

\* A lost edit is repeated, a call that was not made waits again, a refused one
\* ends.
LEMMA ReturnSteps ==
    ASSUME PublicationInv, NEW k \in Keys, Repeat(k) \/ NotSent(k) \/ Refused(k)
    PROVE  PublicationInv'
<1>1. /\ Typed /\ RowSound(job[k]) /\ job[k].state \in {"pending_reconcile", "leased"}
  BY DEF PublicationInv, Typed, Repeat, NotSent, Refused
<1>2. offer' = offer /\ channel' = channel /\ pub' = pub
  BY DEF Repeat, NotSent, Refused
<1>3. CASE Repeat(k)
  <2> DEFINE row == [job[k] EXCEPT !.state = "pending", !.started = FALSE]
  <2>1. job' = [job EXCEPT ![k] = row]
    BY <1>3 DEF Repeat
  <2>2. /\ DOMAIN row = RowFields /\ row.state = "pending" /\ row.content = job[k].content
        /\ row.started = FALSE
    BY <1>1 DEF RowSound, RowFields
  <2> HIDE DEF row
  <2>3. RowSound(row)
    BY <1>1, <2>2 DEF RowSound, InFlight
  <2> QED
    BY <1>1, <1>2, <2>1, <2>2, <2>3, SamePub, OneRowQuiet DEF InFlight
<1>4. CASE NotSent(k) \/ Refused(k)
  <2>1. PICK st \in {"pending", "permanent_undeliverable"} :
           job' = [job EXCEPT ![k].state = st]
    BY <1>4 DEF NotSent, Refused
  <2> DEFINE row == [job[k] EXCEPT !.state = st]
  <2>2. job' = [job EXCEPT ![k] = row]
    BY <2>1
  <2>3. /\ DOMAIN row = RowFields /\ row.state = st /\ row.content = job[k].content
        /\ row.started = job[k].started
    BY <1>1 DEF RowSound, RowFields
  <2> HIDE DEF row
  <2>4. RowSound(row)
    BY <1>1, <2>3 DEF RowSound, InFlight
  <2> QED
    BY <1>1, <1>2, <2>2, <2>3, <2>4, SamePub, OneRowQuiet DEF InFlight
<1> QED
  BY <1>3, <1>4

\* A row whose verdict is to send shows the offer as it is, and a publication
\* among them is for an offer without a message.
LEMMA SendIsCurrent ==
    ASSUME Typed, NEW k \in Keys, Verdict(k) = "send"
    PROVE  /\ job[k].content = Content(k[1])
           /\ k[2] = "publish" => ~pub[k[1]].message
<1>1. k[1] \in Offers /\ k[2] \in Actions /\ k[2] # "send"
  BY KeyParts DEF Actions, EditActions, LifecycleActions
<1>2. offer[k[1]].phase \in PhaseNames /\ offer[k[1]].phase # "send"
  BY <1>1 DEF Typed, OfferRow, PhaseNames
<1>3. pub[k[1]].message \in BOOLEAN
  BY <1>1 DEF Typed
<1> QED
  BY <1>1, <1>2, <1>3 DEF Verdict

\* A call begins: nothing else is in flight, and it carries what the offer is now.
LEMMA DispatchStep ==
    ASSUME PublicationInv, NEW k \in Keys, Dispatch(k)
    PROVE  PublicationInv'
<1>1. /\ Typed /\ OneCall /\ FirstCall /\ DoubtIsHeld /\ MessageBehind /\ CallBetween
      /\ PublishedOnce
  BY DEF PublicationInv
<1>2. /\ k[1] \in Offers /\ RowSound(job[k]) /\ job[k].state = "pending"
      /\ offer' = offer /\ channel' = channel /\ pub' = pub
      /\ job[k].content = Content(k[1])
      /\ k[2] = "publish" => ~pub[k[1]].message
  BY <1>1, KeyParts, SendIsCurrent DEF Typed, Dispatch
<1>3. PICK row : row = [job[k] EXCEPT !.state = "leased", !.started = TRUE]
  OBVIOUS
<1>4. /\ DOMAIN row = RowFields /\ row.state = "leased" /\ row.content = job[k].content
      /\ row.started = TRUE
  BY <1>2, <1>3 DEF RowSound, RowFields
<1>5. RowSound(row)
  BY <1>2, <1>4 DEF RowSound
<1>6. job' = [job EXCEPT ![k] = row]
  BY <1>3 DEF Dispatch
<1>7. /\ DOMAIN job' = Keys /\ job'[k] = row
      /\ \A x \in Keys : x # k => job'[x] = job[x]
      /\ \A x \in Keys : RowSound(job'[x])
  BY <1>1, <1>5, <1>6, OneRow
<1>8. \A x \in Keys : job[x].state \notin InFlight
  <2> SUFFICES ASSUME NEW x \in Keys, job[x].state \in InFlight PROVE FALSE
    OBVIOUS
  <2>1. x # k
    BY <1>2 DEF InFlight
  <2>2. job[x].started
    BY <1>1 DEF Typed, RowSound
  <2>3. Unsettled(x)
    BY <2>2 DEF Unsettled, InFlight
  <2> QED
    BY <2>1, <2>3 DEF Dispatch, Busy
<1>9. \A x \in Keys : job'[x].state \in InFlight => x = k
  BY <1>7, <1>8
<1>10. Typed'
  BY <1>1, <1>2, <1>7 DEF Typed
<1>11. OneCall'
  BY <1>9 DEF OneCall
<1>12. \A o \in Offers : channel[o].copies > 0 => pub[o].message
  BY <1>1, <1>8 DEF DoubtIsHeld, InFlight
<1>13. FirstCall'
  <2>1. k[2] = "publish" => channel[k[1]].copies = 0
    BY <1>1, <1>2, <1>12 DEF Typed
  <2> QED
    BY <1>2, <1>9, <2>1 DEF FirstCall, InFlight
<1>14. DoubtIsHeld'
  BY <1>2, <1>12 DEF DoubtIsHeld
<1>15. \A o \in Offers : Content(o)' = Content(o) /\ Content(o) \in Shown
  BY <1>1, <1>2, ContentIsShown DEF Typed, Content, Active
<1>16. MessageBehind'
  BY <1>1, <1>2, <1>15 DEF MessageBehind
<1>17. CallBetween'
  <2>1. NotAhead(Content(k[1]), Content(k[1]))
    BY <1>2, <1>15, RankFacts
  <2>2. channel[k[1]].copies > 0 => NotAhead(channel[k[1]].content, Content(k[1]))
    BY <1>1, <1>2 DEF MessageBehind
  <2> QED
    BY <1>2, <1>4, <1>7, <1>9, <1>15, <2>1, <2>2 DEF CallBetween, InFlight
<1>18. PublishedOnce'
  BY <1>1, <1>2 DEF PublishedOnce
<1> QED
  BY <1>10, <1>11, <1>13, <1>14, <1>16, <1>17, <1>18 DEF PublicationInv

\* The one call in flight ends, with or without an effect in the channel: what
\* keeps the invariant is that a message that appears is recorded, or in doubt.
LEMMA CallEnds ==
    ASSUME PublicationInv, NEW k \in Keys, job[k].state \in InFlight,
           NEW row, RowSound(row), row.state # "leased", job' = [job EXCEPT ![k] = row],
           offer' \in [Offers -> OfferRow], \A o \in Offers : Content(o)' = Content(o),
           DOMAIN pub' = Offers,
           \A o \in Offers : /\ DOMAIN pub'[o] = {"message", "version", "status", "phase"}
                             /\ pub'[o].message \in BOOLEAN
                             /\ o # k[1] => pub'[o].message = pub[o].message,
           DOMAIN channel' = Offers,
           \A o \in Offers : o # k[1] => channel'[o] = channel[o],
           DOMAIN channel'[k[1]] = {"copies", "content"}, channel'[k[1]].copies \in 0..1,
           channel'[k[1]].copies > 0 =>
               /\ channel'[k[1]].content \in Shown
               /\ NotAhead(channel'[k[1]].content, Content(k[1]))
               /\ pub'[k[1]].message \/ row.state = "ambiguous"
    PROVE  PublicationInv'
<1>1. /\ Typed /\ OneCall /\ FirstCall /\ DoubtIsHeld /\ MessageBehind /\ CallBetween
      /\ PublishedOnce /\ k[1] \in Offers
  BY KeyParts DEF PublicationInv
<1>2. /\ DOMAIN job' = Keys /\ job'[k] = row
      /\ \A x \in Keys : x # k => job'[x] = job[x]
      /\ \A x \in Keys : RowSound(job'[x])
  BY <1>1, OneRow
<1>3. \A x \in Keys : job'[x].state \in InFlight => x = k
  BY <1>1, <1>2 DEF OneCall
<1>4. \A x \in Keys : job'[x].state # "leased"
  BY <1>2, <1>3 DEF InFlight
<1>5. Typed'
  <2>1. \A o \in Offers : /\ DOMAIN channel'[o] = {"copies", "content"}
                          /\ channel'[o].copies \in Nat
                          /\ channel'[o].copies > 0 => channel'[o].content \in Shown
    BY <1>1 DEF Typed
  <2> QED
    BY <1>2, <2>1 DEF Typed
<1>6. OneCall' /\ FirstCall' /\ CallBetween'
  BY <1>3, <1>4 DEF OneCall, FirstCall, CallBetween
<1>7. DoubtIsHeld'
  <2> SUFFICES ASSUME NEW o \in Offers, channel'[o].copies > 0, ~pub'[o].message
               PROVE  \E x \in Keys : x[1] = o /\ job'[x].state = "ambiguous"
    BY DEF DoubtIsHeld
  <2>1. CASE o = k[1]
    BY <1>2, <2>1
  <2>2. CASE o # k[1]
    <3>1. channel[o].copies > 0 /\ ~pub[o].message
      BY <2>2
    <3>2. PICK x \in Keys : x[1] = o /\ job[x].state = "ambiguous"
      BY <1>1, <3>1 DEF DoubtIsHeld
    <3> QED
      BY <1>2, <2>2, <3>2
  <2> QED
    BY <2>1, <2>2
<1>8. MessageBehind'
  BY <1>1 DEF MessageBehind
<1>9. PublishedOnce'
  BY <1>1 DEF PublishedOnce
<1> QED
  BY <1>5, <1>6, <1>7, <1>8, <1>9 DEF PublicationInv

\* What a call that is carried out leaves in the channel: one message, between
\* what was there and what the offer is.
LEMMA LandedEffect ==
    ASSUME PublicationInv, NEW k \in Keys, job[k].state = "leased", Landed(k)
    PROVE  /\ DOMAIN channel' = Offers
           /\ \A o \in Offers : o # k[1] => channel'[o] = channel[o]
           /\ DOMAIN channel'[k[1]] = {"copies", "content"}
           /\ channel'[k[1]].copies \in 0..1
           /\ channel'[k[1]].content = job[k].content
           /\ job[k].content \in Shown
           /\ NotAhead(job[k].content, Content(k[1]))
           /\ channel[k[1]].copies > 0 =>
                  /\ k[2] # "publish"
                  /\ NotAhead(channel[k[1]].content, job[k].content)
           /\ k[2] # "publish" => channel'[k[1]].copies = channel[k[1]].copies
<1>1. /\ Typed /\ FirstCall /\ CallBetween /\ PublishedOnce /\ k[1] \in Offers
      /\ RowSound(job[k])
  BY KeyParts DEF PublicationInv, Typed
<1>2. /\ job[k].content \in Shown
      /\ NotAhead(job[k].content, Content(k[1]))
      /\ channel[k[1]].copies > 0 => NotAhead(channel[k[1]].content, job[k].content)
      /\ k[2] = "publish" => channel[k[1]].copies = 0
      /\ channel[k[1]].copies \in Nat /\ channel[k[1]].copies <= 1
      /\ DOMAIN channel[k[1]] = {"copies", "content"} /\ DOMAIN channel = Offers
  BY <1>1 DEF RowSound, CallBetween, FirstCall, PublishedOnce, Typed
<1>3. PICK n : n = IF k[2] = "publish" THEN channel[k[1]].copies + 1 ELSE channel[k[1]].copies
  OBVIOUS
<1>4. channel' = [channel EXCEPT ![k[1]] = [channel[k[1]] EXCEPT !.copies = n,
                                                                !.content = job[k].content]]
  BY <1>1, <1>2, <1>3 DEF Landed
<1>5. n \in 0..1 /\ (k[2] # "publish" => n = channel[k[1]].copies)
  BY <1>2, <1>3
<1>6. /\ DOMAIN channel' = Offers
      /\ \A o \in Offers : o # k[1] => channel'[o] = channel[o]
      /\ DOMAIN channel'[k[1]] = {"copies", "content"}
      /\ channel'[k[1]].copies = n /\ channel'[k[1]].content = job[k].content
  BY <1>1, <1>2, <1>4
<1> QED
  BY <1>2, <1>5, <1>6

\* Recording a result stores the message and leaves what the offer shows.
LEMMA RecordedEffect ==
    ASSUME Typed, NEW k \in Keys, Recorded(k)
    PROVE  /\ offer' \in [Offers -> OfferRow] /\ \A o \in Offers : Content(o)' = Content(o)
           /\ DOMAIN pub' = Offers
           /\ \A o \in Offers : /\ DOMAIN pub'[o] = {"message", "version", "status", "phase"}
                                /\ pub'[o].message \in BOOLEAN
                                /\ o # k[1] => pub'[o].message = pub[o].message
           /\ pub'[k[1]].message
           /\ job' = [job EXCEPT ![k].state = "sent"]
<1>1. k[1] \in Offers /\ offer[k[1]] \in OfferRow
  BY KeyParts DEF Typed
<1>2. PICK v \in Nat :
         /\ offer' = [offer EXCEPT ![k[1]].version = v]
         /\ pub' = [pub EXCEPT ![k[1]].message = TRUE, ![k[1]].version = v,
                               ![k[1]].status = IF Active(k[1]) THEN "sent" ELSE "disabled"]
  <2>1. offer[k[1]].version \in Nat /\ offer[k[1]].version + 1 \in Nat
    BY <1>1 DEF OfferRow
  <2> QED
    BY <2>1 DEF Recorded
<1>3. PICK row : row = [offer[k[1]] EXCEPT !.version = v]
  OBVIOUS
<1>4. /\ row \in OfferRow /\ row.status = offer[k[1]].status
      /\ row.phase = offer[k[1]].phase /\ row.revision = offer[k[1]].revision
  BY <1>1, <1>3 DEF OfferRow
<1>5. offer' = [offer EXCEPT ![k[1]] = row]
  BY <1>2, <1>3
<1>6. offer' \in [Offers -> OfferRow] /\ \A o \in Offers : o # k[1] => offer'[o] = offer[o]
  BY <1>1, <1>4, <1>5 DEF Typed
<1>7. offer'[k[1]] = row
  BY <1>1, <1>5 DEF Typed
<1>8. \A o \in Offers : Content(o)' = Content(o)
  BY <1>4, <1>6, <1>7 DEF Content, Active
<1>9. PICK p : p = [pub[k[1]] EXCEPT !.message = TRUE, !.version = v,
                                     !.status = IF Active(k[1]) THEN "sent" ELSE "disabled"]
  OBVIOUS
<1>10. /\ DOMAIN p = {"message", "version", "status", "phase"} /\ p.message = TRUE
  BY <1>1, <1>9 DEF Typed
<1>11. pub' = [pub EXCEPT ![k[1]] = p]
  BY <1>2, <1>9
<1>12. /\ DOMAIN pub' = Offers /\ pub'[k[1]] = p
       /\ \A o \in Offers : o # k[1] => pub'[o] = pub[o]
  BY <1>1, <1>11 DEF Typed
<1>13. \A o \in Offers : /\ DOMAIN pub'[o] = {"message", "version", "status", "phase"}
                         /\ pub'[o].message \in BOOLEAN
                         /\ o # k[1] => pub'[o].message = pub[o].message
  BY <1>10, <1>12 DEF Typed
<1> QED
  BY <1>6, <1>8, <1>10, <1>12, <1>13 DEF Recorded

\* A row after its state changed
LEMMA RowInState ==
    ASSUME NEW row, RowSound(row), row.state # "absent",
           NEW st, st # "absent", row.started \/ st \notin InFlight
    PROVE  \E r : r = [row EXCEPT !.state = st] /\ RowSound(r) /\ r.state = st
<1>1. PICK r : r = [row EXCEPT !.state = st]
  OBVIOUS
<1>2. /\ DOMAIN r = RowFields /\ r.state = st /\ r.content = row.content
      /\ r.started = row.started
  BY <1>1 DEF RowSound, RowFields
<1>3. RowSound(r)
  BY <1>2 DEF RowSound
<1> QED
  BY <1>1, <1>2, <1>3

\* A call is carried out and its result recorded.
LEMMA DeliveredStep ==
    ASSUME PublicationInv, NEW k \in Keys, Delivered(k)
    PROVE  PublicationInv'
<1>1. /\ Typed /\ RowSound(job[k]) /\ job[k].state = "leased" /\ job[k].state \in InFlight
      /\ Landed(k) /\ Recorded(k)
  BY DEF PublicationInv, Typed, Delivered, InFlight
<1>2. PICK r : r = [job[k] EXCEPT !.state = "sent"] /\ RowSound(r) /\ r.state = "sent"
  BY <1>1, RowInState DEF InFlight
<1>3. job' = [job EXCEPT ![k] = r]
  BY <1>1, <1>2, RecordedEffect
<1>4. /\ offer' \in [Offers -> OfferRow] /\ \A o \in Offers : Content(o)' = Content(o)
      /\ DOMAIN pub' = Offers
      /\ \A o \in Offers : /\ DOMAIN pub'[o] = {"message", "version", "status", "phase"}
                           /\ pub'[o].message \in BOOLEAN
                           /\ o # k[1] => pub'[o].message = pub[o].message
      /\ pub'[k[1]].message
  BY <1>1, RecordedEffect
<1>5. /\ DOMAIN channel' = Offers
      /\ \A o \in Offers : o # k[1] => channel'[o] = channel[o]
      /\ DOMAIN channel'[k[1]] = {"copies", "content"} /\ channel'[k[1]].copies \in 0..1
      /\ channel'[k[1]].content \in Shown
      /\ NotAhead(channel'[k[1]].content, Content(k[1]))
  BY <1>1, LandedEffect
<1> QED
  BY <1>1, <1>2, <1>3, <1>4, <1>5, CallEnds

\* A call times out: it may have been carried out, and then a publication stays in
\* doubt.
LEMMA UnknownStep ==
    ASSUME PublicationInv, NEW k \in Keys, Unknown(k)
    PROVE  PublicationInv'
<1>1. /\ Typed /\ RowSound(job[k]) /\ job[k].state = "leased" /\ job[k].state \in InFlight
      /\ offer' = offer /\ pub' = pub /\ k[1] \in Offers
      /\ OneCall /\ DoubtIsHeld /\ MessageBehind /\ PublishedOnce
  BY KeyParts DEF PublicationInv, Typed, Unknown, InFlight
<1>2. PICK st \in UnknownStates(k) : job' = [job EXCEPT ![k].state = st]
  BY DEF Unknown
<1>3. /\ st # "absent" /\ st # "leased" /\ job[k].started
      /\ k[2] = "publish" => st = "ambiguous"
  BY <1>1, <1>2 DEF UnknownStates, RowSound
<1>4. PICK r : r = [job[k] EXCEPT !.state = st] /\ RowSound(r) /\ r.state = st
  <2>1. job[k].state # "absent" /\ (job[k].started \/ st \notin InFlight)
    BY <1>1, <1>3
  <2> HIDE DEF InFlight
  <2> QED
    BY <1>1, <1>3, <2>1, RowInState
<1>5. job' = [job EXCEPT ![k] = r]
  BY <1>2, <1>4
<1>6. /\ offer' \in [Offers -> OfferRow] /\ \A o \in Offers : Content(o)' = Content(o)
      /\ DOMAIN pub' = Offers
      /\ \A o \in Offers : /\ DOMAIN pub'[o] = {"message", "version", "status", "phase"}
                           /\ pub'[o].message \in BOOLEAN
                           /\ o # k[1] => pub'[o].message = pub[o].message
  BY <1>1 DEF Typed, Content, Active
<1>7. channel[k[1]].copies > 0 => pub[k[1]].message
  BY <1>1 DEF DoubtIsHeld, OneCall, InFlight
<1>8. CASE Landed(k)
  <2>1. /\ DOMAIN channel' = Offers
        /\ \A o \in Offers : o # k[1] => channel'[o] = channel[o]
        /\ DOMAIN channel'[k[1]] = {"copies", "content"} /\ channel'[k[1]].copies \in 0..1
        /\ channel'[k[1]].content \in Shown
        /\ NotAhead(channel'[k[1]].content, Content(k[1]))
        /\ k[2] # "publish" => channel'[k[1]].copies = channel[k[1]].copies
    BY <1>1, <1>8, LandedEffect
  <2>2. channel'[k[1]].copies > 0 => (pub'[k[1]].message \/ r.state = "ambiguous")
    BY <1>1, <1>3, <1>4, <1>7, <2>1
  <2> QED
    BY <1>1, <1>3, <1>4, <1>5, <1>6, <2>1, <2>2, CallEnds
<1>9. CASE channel' = channel
  <2>1. /\ DOMAIN channel' = Offers
        /\ \A o \in Offers : o # k[1] => channel'[o] = channel[o]
        /\ DOMAIN channel'[k[1]] = {"copies", "content"} /\ channel'[k[1]].copies \in 0..1
        /\ channel'[k[1]].copies > 0 =>
               /\ channel'[k[1]].content \in Shown
               /\ NotAhead(channel'[k[1]].content, Content(k[1]))
    BY <1>1, <1>9 DEF Typed, MessageBehind, PublishedOnce
  <2>2. channel'[k[1]].copies > 0 => (pub'[k[1]].message \/ r.state = "ambiguous")
    BY <1>1, <1>7, <1>9
  <2> QED
    BY <1>1, <1>3, <1>4, <1>5, <1>6, <2>1, <2>2, CallEnds
<1> QED
  BY <1>8, <1>9 DEF Unknown

\* The operator settles a doubt by what the channel shows.
LEMMA ResolveStep ==
    ASSUME PublicationInv, NEW k \in Keys, Resolve(k)
    PROVE  PublicationInv'
<1>1. /\ Typed /\ RowSound(job[k]) /\ job[k].state = "ambiguous" /\ job[k].state \in InFlight
      /\ channel' = channel /\ k[1] \in Offers
      /\ MessageBehind /\ PublishedOnce
  BY KeyParts DEF PublicationInv, Typed, Resolve, InFlight
<1>2. /\ DOMAIN channel' = Offers
      /\ \A o \in Offers : o # k[1] => channel'[o] = channel[o]
      /\ DOMAIN channel'[k[1]] = {"copies", "content"} /\ channel'[k[1]].copies \in 0..1
      /\ channel'[k[1]].copies > 0 =>
             /\ channel'[k[1]].content \in Shown
             /\ NotAhead(channel'[k[1]].content, Content(k[1]))
  BY <1>1 DEF Typed, MessageBehind, PublishedOnce
<1>3. CASE Recorded(k)
  <2>1. PICK r : r = [job[k] EXCEPT !.state = "sent"] /\ RowSound(r) /\ r.state = "sent"
    BY <1>1, RowInState DEF InFlight
  <2>2. job' = [job EXCEPT ![k] = r]
    BY <1>1, <1>3, <2>1, RecordedEffect
  <2>3. /\ offer' \in [Offers -> OfferRow] /\ \A o \in Offers : Content(o)' = Content(o)
        /\ DOMAIN pub' = Offers
        /\ \A o \in Offers : /\ DOMAIN pub'[o] = {"message", "version", "status", "phase"}
                             /\ pub'[o].message \in BOOLEAN
                             /\ o # k[1] => pub'[o].message = pub[o].message
        /\ pub'[k[1]].message
    BY <1>1, <1>3, RecordedEffect
  <2> QED
    BY <1>1, <1>2, <2>1, <2>2, <2>3, CallEnds
<1>4. CASE /\ channel[k[1]].copies = 0
           /\ job' = [job EXCEPT ![k].state = "pending", ![k].started = FALSE]
           /\ offer' = offer /\ pub' = pub
  <2>1. PICK r : r = [job[k] EXCEPT !.state = "pending", !.started = FALSE]
    OBVIOUS
  <2>2. /\ DOMAIN r = RowFields /\ r.state = "pending" /\ r.content = job[k].content
        /\ r.started = FALSE
    BY <1>1, <2>1 DEF RowSound, RowFields
  <2>3. RowSound(r)
    BY <1>1, <2>2 DEF RowSound, InFlight
  <2>4. job' = [job EXCEPT ![k] = r]
    BY <1>4, <2>1
  <2>5. /\ offer' \in [Offers -> OfferRow] /\ \A o \in Offers : Content(o)' = Content(o)
        /\ DOMAIN pub' = Offers
        /\ \A o \in Offers : /\ DOMAIN pub'[o] = {"message", "version", "status", "phase"}
                             /\ pub'[o].message \in BOOLEAN
                             /\ o # k[1] => pub'[o].message = pub[o].message
    BY <1>1, <1>4 DEF Typed, Content, Active
  <2>6. ~(channel'[k[1]].copies > 0)
    BY <1>1, <1>4
  <2> QED
    BY <1>1, <1>2, <2>2, <2>3, <2>4, <2>5, <2>6, CallEnds
<1> QED
  BY <1>3, <1>4 DEF Resolve

-----------------------------------------------------------------------------
(* Every step *)

\* Nothing is published at first.
LEMMA InitInv == ASSUME Init PROVE PublicationInv
<1>1. Typed
  <2>1. offer \in [Offers -> OfferRow]
    BY DEF Init, OfferRow, PhaseNames
  <2>2. /\ DOMAIN pub = Offers
        /\ \A o \in Offers : /\ DOMAIN pub[o] = {"message", "version", "status", "phase"}
                             /\ pub[o].message \in BOOLEAN
    BY DEF Init
  <2>3. /\ DOMAIN AbsentRow = RowFields /\ AbsentRow.state = "absent"
        /\ AbsentRow.started = FALSE
    BY DEF AbsentRow, RowFields
  <2>4. RowSound(AbsentRow)
    BY <2>3 DEF RowSound, InFlight
  <2>5. DOMAIN job = Keys /\ \A k \in Keys : RowSound(job[k])
    BY <2>4 DEF Init
  <2>6. /\ DOMAIN channel = Offers
        /\ \A o \in Offers : DOMAIN channel[o] = {"copies", "content"} /\ channel[o].copies = 0
    BY DEF Init
  <2> QED
    BY <2>1, <2>2, <2>5, <2>6 DEF Typed
<1>2. \A k \in Keys : job[k].state = "absent"
  BY DEF Init, AbsentRow
<1>3. \A o \in Offers : channel[o].copies = 0
  BY DEF Init
<1>4. OneCall /\ FirstCall /\ CallBetween
  BY <1>2 DEF OneCall, FirstCall, CallBetween, InFlight
<1>5. DoubtIsHeld /\ MessageBehind /\ PublishedOnce
  BY <1>3 DEF DoubtIsHeld, MessageBehind, PublishedOnce
<1> QED
  BY <1>1, <1>4, <1>5 DEF PublicationInv

\* Steps of every action keep the invariant.
LEMMA NextInv == ASSUME PublicationInv, [Next]_vars PROVE PublicationInv'
<1>1. CASE FeedPublications \/ FeedEdits \/ FeedLifecycle
  BY <1>1, FeedSteps
<1>2. ASSUME NEW o \in Offers, Trade(o) \/ Close(o) \/ PhasePasses(o) \/ ButtonRefresh(o)
      PROVE  PublicationInv'
  BY <1>2, OfferSteps, ButtonStep
<1>3. ASSUME NEW k \in Keys, Dispatch(k) \/ Settle(k) \/ Repeat(k) \/ Answer(k) \/ Resolve(k)
      PROVE  PublicationInv'
  BY <1>3, DispatchStep, SettleStep, ReturnSteps, DeliveredStep, UnknownStep, ResolveStep
     DEF Answer
<1>4. CASE UNCHANGED vars
  <2>1. /\ offer' = offer /\ pub' = pub /\ job' = job /\ channel' = channel
    BY <1>4 DEF vars
  <2>2. Typed /\ RowsQuiet
    BY <2>1 DEF PublicationInv, Typed, RowsQuiet
  <2> QED
    BY <2>1, <2>2, SameOffers, SamePub, QuietStep
<1> QED
  BY <1>1, <1>2, <1>3, <1>4 DEF Next, Step

\* A message changes only to something strictly newer.
LEMMA NewerStep ==
    ASSUME PublicationInv, [Next]_vars, NEW o \in Offers, channel[o].copies > 0,
           channel'[o].content # channel[o].content
    PROVE  LET x == Rank(channel[o].content)
               y == Rank(channel'[o].content)
           IN  x[1] < y[1] \/ (x[1] = y[1] /\ x[2] < y[2])
<1>1. PICK k \in Keys : job[k].state = "leased" /\ Landed(k)
  BY DEF vars, Next, Step, FeedPublications, FeedEdits, FeedLifecycle, Trade, Close,
         PhasePasses, ButtonRefresh, Dispatch, Settle, Repeat, Answer, Delivered, Unknown,
         NotSent, Refused, Resolve
<1>2. /\ \A q \in Offers : q # k[1] => channel'[q] = channel[q]
      /\ channel'[k[1]].content = job[k].content /\ job[k].content \in Shown
      /\ channel[k[1]].copies > 0 => NotAhead(channel[k[1]].content, job[k].content)
  BY <1>1, LandedEffect
<1>3. o = k[1]
  BY <1>2
<1>4. channel[o].content \in Shown
  BY DEF PublicationInv, Typed
<1>5. NotAhead(channel[o].content, channel'[o].content) /\ channel'[o].content \in Shown
  BY <1>2, <1>3
<1>6. /\ Rank(channel[o].content)[1] \in Nat /\ Rank(channel'[o].content)[1] \in Nat
      /\ Rank(channel[o].content)[2] \in 0..3 /\ Rank(channel'[o].content)[2] \in 0..3
      /\ ~ /\ Rank(channel[o].content)[1] = Rank(channel'[o].content)[1]
           /\ Rank(channel[o].content)[2] = Rank(channel'[o].content)[2]
  BY <1>4, <1>5, RankFacts
<1> QED
  BY <1>5, <1>6 DEF NotAhead

\* The invariant holds in every reachable state.
LEMMA InvariantHolds == Spec => []PublicationInv
<1>1. Init => PublicationInv
  BY InitInv
<1>2. PublicationInv /\ [Next]_vars => PublicationInv'
  BY NextInv
<1> QED
  BY <1>1, <1>2, PTL DEF Spec

\* An offer never has two messages in the channel, however often it is handed over,
\* retried after a timeout, or resolved by hand (telegram_offer_queue_service.py).
THEOREM OfferPublishedOnce == Spec => []PublishedOnce
<1>1. PublicationInv => PublishedOnce
  BY DEF PublicationInv
<1> QED
  BY <1>1, InvariantHolds, PTL

\* A message in the channel never goes back to an older revision or an earlier
\* phase (telegram_delivery_offer_freshness.py).
THEOREM MessageNeverOlder == Spec => NeverShownOlder
<1>1. PublicationInv /\ [Next]_vars =>
        [\A o \in Offers :
          (channel[o].copies > 0 /\ channel'[o].content # channel[o].content) =>
              LET x == Rank(channel[o].content)
                  y == Rank(channel'[o].content)
              IN  x[1] < y[1] \/ (x[1] = y[1] /\ x[2] < y[2])]_vars
  BY NewerStep
<1> QED
  BY <1>1, InvariantHolds, PTL DEF Spec, NeverShownOlder

-----------------------------------------------------------------------------
(* Types: how a row may move, and what the counters count *)

\* A row of action a: only a publication comes before there is a message.
Fits(o, a) == a \in Actions \ {"publish"} => pub[o].message

\* A row is created from the offer of now, or keeps what it shows and its time.
Created(k, row) ==
    /\ job[k].state = "absent" /\ Fits(k[1], k[2])
    /\ DOMAIN row = RowFields
    /\ row.state = "pending" /\ row.started = FALSE
    /\ row.content = Content(k[1]) /\ row.stamp = Stamp(k[1], k[2])

Moved(k, row) ==
    /\ job[k].state # "absent" /\ row.state \in LiveStates \cup FinalStates
    /\ row.state = "ambiguous" => job[k].state = "leased"
    /\ row.content = job[k].content /\ row.stamp = job[k].stamp

RowMoves(k, row) == row = job[k] \/ Created(k, row) \/ Moved(k, row)

RowsMove == \A k \in Keys : RowMoves(k, job'[k])

\* A row in another state.
LEMMA StateMoves ==
    ASSUME NEW k \in Keys, RowSound(job[k]), job[k].state # "absent",
           NEW st \in LiveStates \cup FinalStates, st = "ambiguous" => job[k].state = "leased"
    PROVE  /\ Moved(k, [job[k] EXCEPT !.state = st])
           /\ \A b \in BOOLEAN : Moved(k, [job[k] EXCEPT !.state = st, !.started = b])
BY DEF RowSound, RowFields, Moved

\* One row moves and the others stay.
LEMMA OneMoves ==
    ASSUME Typed, NEW k \in Keys, NEW row, RowMoves(k, row), job' = [job EXCEPT ![k] = row]
    PROVE  RowsMove
BY DEF Typed, RowsMove, RowMoves

\* Handing an offer over creates the row of its action and supersedes waiting ones.
LEMMA HandedMoves ==
    ASSUME Typed, NEW o \in Offers, NEW a, Fits(o, a), NEW k \in Keys
    PROVE  RowMoves(k, HandedOff(job, o, a)[k])
<1>1. RowSound(job[k]) /\ k[1] \in Offers /\ k[2] \in Actions
  BY KeyParts DEF Typed
<1>2. PICK row : row = HandedOff(job, o, a)[k]
  OBVIOUS
<1>3. CASE row = job[k]
  BY <1>2, <1>3 DEF RowMoves
<1>4. CASE Obsolete(o, k) /\ row = [job[k] EXCEPT !.state = "superseded"]
  <2>1. job[k].state # "absent" /\ "superseded" \in LiveStates \cup FinalStates
    BY <1>4 DEF Obsolete, FinalStates
  <2>2. Moved(k, [job[k] EXCEPT !.state = "superseded"])
    BY <1>1, <2>1, StateMoves
  <2> QED
    BY <1>2, <1>4, <2>2 DEF RowMoves
<1>5. CASE /\ k[1] = o /\ k = KeyOf(o, a) /\ job[k].state = "absent"
           /\ row = [state |-> "pending", content |-> Content(o),
                     stamp |-> Stamp(o, a), started |-> FALSE]
  <2>1. k[2] = a
    BY <1>5 DEF KeyOf
  <2> QED
    BY <1>1, <1>2, <1>5, <2>1 DEF RowMoves, Created, RowFields
<1> QED
  BY <1>2, <1>3, <1>4, <1>5 DEF HandedOff

\* A batch of the feeder.
LEMMA BatchMoves ==
    ASSUME Typed, NEW here, NEW next, NEW candidates \in SUBSET Offers, NEW action,
           \A o \in candidates : Fits(o, action[o]),
           Batch(here, next, candidates, action)
    PROVE  RowsMove
<1>1. CASE job' = job
  BY <1>1 DEF RowsMove, RowMoves
<1>2. CASE job' = [k \in Keys |-> IF k[1] \in candidates
                                 THEN HandedOff(job, k[1], action[k[1]])[k]
                                 ELSE job[k]]
  <2> SUFFICES ASSUME NEW k \in Keys PROVE RowMoves(k, job'[k])
    BY DEF RowsMove
  <2>1. CASE k[1] \in candidates
    <3>1. RowMoves(k, HandedOff(job, k[1], action[k[1]])[k])
      BY <2>1, HandedMoves
    <3> QED
      BY <1>2, <2>1, <3>1
  <2>2. CASE k[1] \notin candidates
    BY <1>2, <2>2 DEF RowMoves
  <2> QED
    BY <2>1, <2>2
<1> QED
  BY <1>1, <1>2 DEF Batch

\* The feeder hands an offer that has no message over for publication only.
LEMMA FeedMoves ==
    ASSUME Typed, FeedPublications \/ FeedEdits \/ FeedLifecycle
    PROVE  RowsMove
<1>1. /\ PublicationCandidates \in SUBSET Offers /\ EditCandidates \in SUBSET Offers
      /\ LifecycleCandidates \in SUBSET Offers
  BY DEF PublicationCandidates, EditCandidates, LifecycleCandidates
<1>2. PICK current : current = [o \in Offers |-> CurrentAction(o)]
  OBVIOUS
<1>3. PICK phases : phases = [o \in Offers |-> PhaseOf(o)]
  OBVIOUS
<1>4. \A o \in PublicationCandidates : Fits(o, current[o])
  BY <1>1, <1>2 DEF PublicationCandidates, Fits, CurrentAction
<1>5. \A o \in EditCandidates : Fits(o, current[o])
  BY <1>1 DEF EditCandidates, Fits
<1>6. \A o \in LifecycleCandidates : Fits(o, phases[o])
  BY <1>1 DEF LifecycleCandidates, Fits
<1>7. CASE FeedPublications
  BY <1>1, <1>2, <1>4, <1>7, BatchMoves DEF FeedPublications
<1>8. CASE FeedEdits
  BY <1>1, <1>2, <1>5, <1>8, BatchMoves DEF FeedEdits
<1>9. CASE FeedLifecycle
  BY <1>1, <1>3, <1>6, <1>9, BatchMoves DEF FeedLifecycle
<1> QED
  BY <1>7, <1>8, <1>9

\* What is known of an offer's message: it is in the channel, edits come after it, and a
\* publication in doubt is not recorded.
MessagesKnown ==
    /\ \A o \in Offers : pub[o].message => channel[o].copies > 0
    /\ \A k \in Keys : k[2] # "publish" /\ job[k].state # "absent" => pub[k[1]].message
    /\ \A k \in Keys : k[2] = "publish" /\ job[k].state = "ambiguous" => ~pub[k[1]].message

\* A row that is settled by its freshness, or replaced by another action.
LEMMA SettleMoves ==
    ASSUME Typed, MessagesKnown, NEW k \in Keys, Settle(k)
    PROVE  RowsMove
<1>1. /\ RowSound(job[k]) /\ k[1] \in Offers /\ k[2] \in Actions
      /\ job[k].state \in {"pending", "pending_reconcile"} /\ job[k].state # "absent"
  BY KeyParts DEF Typed, Settle
<1>2. PICK v : v = Verdict(k)
  OBVIOUS
<1>3. Fits(k[1], v)
  <2>1. CASE k[2] # "publish"
    BY <1>1, <2>1 DEF MessagesKnown, Fits
  <2>2. CASE k[2] = "publish"
    <3>1. v \in {"sent_noop", "superseded", "publish", "quarantined", "send"}
      BY <1>1, <1>2, <2>2 DEF Verdict, Typed
    <3> QED
      BY <3>1 DEF Fits, Actions, EditActions, LifecycleActions
  <2> QED
    BY <2>1, <2>2
<1>4. ASSUME NEW st \in FinalStates, job' = [job EXCEPT ![k].state = st] PROVE RowsMove
  <2>1. Moved(k, [job[k] EXCEPT !.state = st])
    <3>1. st \in LiveStates \cup FinalStates /\ st # "ambiguous"
      BY <1>4 DEF FinalStates
    <3> QED
      BY <1>1, <3>1, StateMoves
  <2>2. job' = [job EXCEPT ![k] = [job[k] EXCEPT !.state = st]]
    BY <1>4
  <2> QED
    BY <2>1, <2>2, OneMoves DEF RowMoves
<1>5. CASE job' = [HandedOff(job, k[1], v) EXCEPT ![k].state = "superseded"]
  <2>1. PICK H : H = HandedOff(job, k[1], v)
    OBVIOUS
  <2>2. DOMAIN H = Keys
    BY <2>1 DEF HandedOff
  <2>3. \A x \in Keys : RowMoves(x, H[x]) /\ RowSound(H[x])
    BY <1>1, <1>3, <2>1, HandedMoves, HandedOffQuiet
  <2>4. PICK row : row = [H[k] EXCEPT !.state = "superseded"]
    OBVIOUS
  <2>5. row.state = "superseded" /\ row.content = H[k].content /\ row.stamp = H[k].stamp
    BY <2>3, <2>4 DEF RowSound, RowFields
  <2>6. job' = [H EXCEPT ![k] = row]
    BY <1>5, <2>1, <2>4
  <2>7. H[k].content = job[k].content /\ H[k].stamp = job[k].stamp
    BY <1>1, <2>3 DEF RowMoves, Created, Moved
  <2>8. Moved(k, row)
    BY <1>1, <2>5, <2>7 DEF Moved, FinalStates
  <2>9. job'[k] = row /\ \A x \in Keys : x # k => job'[x] = H[x]
    BY <2>2, <2>6
  <2> QED
    BY <2>3, <2>8, <2>9 DEF RowsMove, RowMoves
<1>6. "superseded" \in FinalStates
  BY DEF FinalStates
<1> QED
  BY <1>2, <1>4, <1>5, <1>6 DEF Settle

\* A call begins or ends.
LEMMA CallMoves ==
    ASSUME Typed, NEW k \in Keys, Dispatch(k) \/ Repeat(k) \/ Answer(k) \/ Resolve(k)
    PROVE  RowsMove
<1>1. RowSound(job[k]) /\ job[k].state # "absent"
  BY DEF Typed, Dispatch, Repeat, Answer, Delivered, Unknown, NotSent, Refused, Resolve
<1>2. ASSUME NEW st \in {"pending", "pending_reconcile", "sent", "ambiguous",
                         "permanent_undeliverable"},
             job' = [job EXCEPT ![k].state = st],
             st = "ambiguous" => job[k].state = "leased"
      PROVE  RowsMove
  <2>1. st \in LiveStates \cup FinalStates
    BY <1>2 DEF LiveStates, FinalStates
  <2>2. job' = [job EXCEPT ![k] = [job[k] EXCEPT !.state = st]]
    BY <1>2
  <2>3. Moved(k, [job[k] EXCEPT !.state = st])
    BY <1>1, <1>2, <2>1, StateMoves
  <2> QED
    BY <2>2, <2>3, OneMoves DEF RowMoves
<1>3. ASSUME NEW st \in {"pending", "leased"}, NEW b \in BOOLEAN,
             job' = [job EXCEPT ![k].state = st, ![k].started = b]
      PROVE  RowsMove
  <2>1. st \in LiveStates \cup FinalStates /\ st # "ambiguous"
    BY <1>3 DEF LiveStates
  <2>2. job' = [job EXCEPT ![k] = [job[k] EXCEPT !.state = st, !.started = b]]
    BY <1>3
  <2>3. Moved(k, [job[k] EXCEPT !.state = st, !.started = b])
    BY <1>1, <2>1, StateMoves
  <2> QED
    BY <2>2, <2>3, OneMoves DEF RowMoves
<1>4. CASE Dispatch(k) \/ Repeat(k) \/ Resolve(k)
  BY <1>2, <1>3, <1>4 DEF Dispatch, Repeat, Resolve, Recorded
<1>5. CASE Answer(k)
  BY <1>2, <1>5 DEF Answer, Delivered, Recorded, Unknown, UnknownStates, NotSent, Refused
<1> QED
  BY <1>4, <1>5

\* Whatever happens, rows are created from the offer of now or keep what they show.
LEMMA AllMove == ASSUME Typed, MessagesKnown, [Next]_vars PROVE RowsMove
<1>1. ASSUME NEW o \in Offers, ButtonRefresh(o) PROVE RowsMove
  <2>1. PICK a : pub[o].message /\ job' = HandedOff(job, o, a)
    BY <1>1 DEF ButtonRefresh
  <2>2. Fits(o, a)
    BY <2>1 DEF Fits
  <2> QED
    BY <2>1, <2>2, HandedMoves DEF RowsMove
<1>2. CASE job' = job
  BY <1>2 DEF RowsMove, RowMoves
<1>3. ASSUME NEW o \in Offers, Trade(o) \/ Close(o) \/ PhasePasses(o) PROVE job' = job
  BY <1>3 DEF Trade, Close, PhasePasses
<1> QED
  BY <1>1, <1>2, <1>3, FeedMoves, SettleMoves, CallMoves DEF Next, Step, vars

\* A message is recorded for the offer of a call that was on its way or in doubt.
Records(k) == Delivered(k) \/ (Resolve(k) /\ channel[k[1]].copies > 0)

\* Steps other than those record nothing.
LEMMA RecordsOnly ==
    ASSUME Typed, [Next]_vars, \A k \in Keys : ~Records(k)
    PROVE  \A o \in Offers : pub'[o].message = pub[o].message
<1>1. CASE pub' = pub
  BY <1>1
<1>2. CASE FeedLifecycle
  BY <1>2 DEF FeedLifecycle, Typed
<1>3. ASSUME NEW k \in Keys, Settle(k) PROVE \A o \in Offers : pub'[o].message = pub[o].message
  <2>1. CASE pub' = [pub EXCEPT ![k[1]].status = "disabled",
                                ![k[1]].version = offer[k[1]].version]
    BY <2>1, KeyParts DEF Typed
  <2> QED
    BY <1>1, <1>3, <2>1 DEF Settle
<1> QED
  BY <1>1, <1>2, <1>3
     DEF vars, Next, Step, FeedPublications, FeedEdits, Trade, Close, PhasePasses, ButtonRefresh,
         Dispatch, Repeat, Answer, Unknown, NotSent, Refused, Resolve, Records

\* No step takes a message out of the channel.
LEMMA CopiesStay ==
    ASSUME PublicationInv, [Next]_vars
    PROVE  \A o \in Offers : channel[o].copies > 0 => channel'[o].copies > 0
<1>1. Typed
  BY DEF PublicationInv
<1>2. CASE channel' = channel
  BY <1>2
<1>3. ASSUME NEW k \in Keys, Landed(k)
      PROVE  \A o \in Offers : channel[o].copies > 0 => channel'[o].copies > 0
  <2>1. k[1] \in Offers /\ \A o \in Offers : channel[o].copies \in Nat
    BY <1>1, KeyParts DEF Typed
  <2>2. PICK c : c = IF k[2] = "publish" THEN channel[k[1]].copies + 1 ELSE channel[k[1]].copies
    OBVIOUS
  <2>3. channel' = [channel EXCEPT ![k[1]].copies = c, ![k[1]].content = job[k].content]
    BY <1>3, <2>2 DEF Landed
  <2>4. channel'[k[1]].copies = c /\ \A o \in Offers : o # k[1] => channel'[o] = channel[o]
    BY <1>1, <2>1, <2>3 DEF Typed
  <2>5. channel[k[1]].copies > 0 => c > 0
    BY <2>1, <2>2
  <2> QED
    BY <2>1, <2>4, <2>5
<1> QED
  BY <1>2, <1>3
     DEF vars, Next, Step, FeedPublications, FeedEdits, FeedLifecycle, Trade, Close,
         PhasePasses, ButtonRefresh, Dispatch, Settle, Repeat, Answer, Delivered, Unknown,
         NotSent, Refused, Resolve

\* The call that records a publication is the first to do so, and finds it there.
LEMMA FirstRecord ==
    ASSUME PublicationInv, MessagesKnown, NEW k \in Keys, Records(k), [Next]_vars
    PROVE  /\ Recorded(k) /\ job[k].state \in {"leased", "ambiguous"}
           /\ k[2] = "publish" => ~pub[k[1]].message
           /\ k[2] # "publish" => pub[k[1]].message
           /\ channel'[k[1]].copies > 0
<1>1. /\ Typed /\ FirstCall /\ k[1] \in Offers /\ channel[k[1]].copies \in Nat
      /\ job[k].state \in {"leased", "ambiguous"} /\ Recorded(k)
  <2>1. Typed /\ FirstCall /\ k[1] \in Offers /\ channel[k[1]].copies \in Nat
    BY KeyParts DEF PublicationInv, Typed
  <2> QED
    BY <2>1 DEF Records, Delivered, Resolve
<1>2. k[2] = "publish" => ~pub[k[1]].message
  BY <1>1 DEF MessagesKnown, FirstCall
<1>3. k[2] # "publish" => pub[k[1]].message
  BY <1>1 DEF MessagesKnown
<1>4. channel'[k[1]].copies > 0
  <2>1. CASE channel[k[1]].copies > 0
    BY <1>1, <2>1, CopiesStay
  <2>2. CASE Delivered(k) /\ k[2] = "publish"
    <3>1. channel' = [channel EXCEPT ![k[1]].copies = channel[k[1]].copies + 1,
                                     ![k[1]].content = job[k].content]
      BY <2>2 DEF Delivered, Landed
    <3>2. channel'[k[1]].copies = channel[k[1]].copies + 1
      BY <1>1, <3>1 DEF Typed
    <3> QED
      BY <1>1, <3>2
  <2> QED
    BY <1>1, <1>3, <2>1, <2>2 DEF Records, MessagesKnown
<1> QED
  BY <1>1, <1>2, <1>3, <1>4

\* What is known of the messages stays known.
LEMMA MessagesStep ==
    ASSUME PublicationInv, MessagesKnown, [Next]_vars
    PROVE  MessagesKnown'
<1>1. /\ Typed /\ OneCall /\ FirstCall /\ RowsMove
      /\ \A k \in Keys : k[1] \in Offers
  BY AllMove, KeyParts DEF PublicationInv
<1>2. CASE \A o \in Offers : pub'[o].message = pub[o].message
  <2>1. \A o \in Offers : pub'[o].message => channel'[o].copies > 0
    BY <1>2, CopiesStay DEF MessagesKnown
  <2>2. ASSUME NEW k \in Keys, k[2] # "publish", job'[k].state # "absent"
        PROVE  pub'[k[1]].message
    <3>1. k[1] \in Offers /\ k[2] \in Actions /\ RowMoves(k, job'[k])
      BY <1>1, KeyParts DEF RowsMove
    <3> QED
      BY <1>2, <2>2, <3>1 DEF RowMoves, Created, Moved, Fits, MessagesKnown
  <2>3. ASSUME NEW k \in Keys, k[2] = "publish", job'[k].state = "ambiguous"
        PROVE  ~pub'[k[1]].message
    <3>1. k[1] \in Offers /\ job[k].state \in {"ambiguous", "leased"}
      BY <1>1, <2>3 DEF RowsMove, RowMoves, Created, Moved
    <3> QED
      BY <1>1, <1>2, <2>3, <3>1 DEF MessagesKnown, FirstCall, Typed
  <2> QED
    BY <2>1, <2>2, <2>3 DEF MessagesKnown
<1>3. ASSUME NEW k \in Keys, Records(k)
      PROVE  MessagesKnown'
  <2>1. /\ \A o \in Offers : o # k[1] => pub'[o].message = pub[o].message
        /\ pub'[k[1]].message
        /\ job' = [job EXCEPT ![k].state = "sent"]
    BY <1>1, <1>3, FirstRecord, RecordedEffect
  <2>2. /\ job'[k].state = "sent" /\ \A x \in Keys : x # k => job'[x] = job[x]
    BY <1>1, <2>1 DEF Typed, RowSound, RowFields
  <2>3. \A o \in Offers : pub[o].message => pub'[o].message
    BY <2>1
  <2>4. \A o \in Offers : pub'[o].message => channel'[o].copies > 0
    BY <1>3, <2>1, CopiesStay, FirstRecord DEF MessagesKnown
  <2>5. \A x \in Keys : x[2] # "publish" /\ job'[x].state # "absent" => pub'[x[1]].message
    BY <1>1, <2>1, <2>2, <2>3 DEF MessagesKnown
  <2>6. \A x \in Keys : job'[x].state # "ambiguous"
    BY <1>1, <1>3, <2>2, FirstRecord DEF OneCall, InFlight
  <2> QED
    BY <2>4, <2>5, <2>6 DEF MessagesKnown
<1> QED
  BY <1>1, <1>2, <1>3, RecordsOnly

\* How often an offer changed: an offer on sale may still change once more.
Changed ==
    /\ case \in Cases
    /\ \A o \in Offers : /\ offer[o].revision <= case.revisions
                         /\ Active(o) => offer[o].revision < case.revisions

\* The version of an offer counts its changes and the recording of its message.
VersionsCount ==
    \A o \in Offers :
        /\ 1 <= offer[o].version
        /\ offer[o].version <= 1 + offer[o].revision + IF pub[o].message THEN 1 ELSE 0

\* A case's bound on the changes.
LEMMA RevisionBound ==
    ASSUME case \in Cases
    PROVE  /\ case.revisions \in Nat /\ 1 <= case.revisions /\ case.revisions <= MaxRevision
           /\ case.faults \in Nat /\ case.refusals \in Nat
BY PublicationConstants DEF CaseType

\* What a step does to the row of an offer.
OfferMoves(o) ==
    \/ offer'[o] = offer[o]
    \/ /\ offer'[o].status = offer[o].status /\ offer'[o].revision = offer[o].revision
       /\ offer'[o].version = offer[o].version
    \/ /\ Active(o) /\ offer'[o].revision = offer[o].revision + 1
       /\ offer'[o].version = offer[o].version + 1
       /\ offer'[o].status = "closed" \/ offer[o].revision + 1 < case.revisions
    \/ /\ offer'[o].status = offer[o].status /\ offer'[o].revision = offer[o].revision
       /\ offer'[o].version = offer[o].version + 1
       /\ ~pub[o].message /\ pub'[o].message

\* Offers change by trades, by closing, by time, and by the recording of their message.
LEMMA OffersMove ==
    ASSUME PublicationInv, MessagesKnown, [Next]_vars
    PROVE  \A o \in Offers : OfferMoves(o)
<1>1. Typed /\ offer \in [Offers -> OfferRow]
  BY DEF PublicationInv, Typed
<1>2. CASE offer' = offer
  BY <1>2 DEF OfferMoves
<1>3. ASSUME NEW q \in Offers, Trade(q) \/ Close(q) \/ PhasePasses(q)
      PROVE  \A o \in Offers : OfferMoves(o)
  <2>1. offer[q] \in OfferRow /\ offer[q].revision \in Nat /\ offer[q].version \in Nat
    BY <1>1 DEF OfferRow
  <2>2. CASE Trade(q)
    <3>1. PICK row : row = [offer[q] EXCEPT !.revision = offer[q].revision + 1,
                                            !.version = offer[q].version + 1]
      OBVIOUS
    <3>2. row.revision = offer[q].revision + 1 /\ row.version = offer[q].version + 1
      BY <2>1, <3>1 DEF OfferRow
    <3>3. offer' = [offer EXCEPT ![q] = row]
      BY <2>2, <3>1 DEF Trade
    <3> QED
      BY <1>1, <2>2, <3>2, <3>3 DEF OfferMoves, Trade
  <2>3. CASE Close(q)
    <3>1. PICK row : row = [offer[q] EXCEPT !.status = "closed",
                                            !.revision = offer[q].revision + 1,
                                            !.version = offer[q].version + 1]
      OBVIOUS
    <3>2. /\ row.revision = offer[q].revision + 1 /\ row.version = offer[q].version + 1
          /\ row.status = "closed"
      BY <2>1, <3>1 DEF OfferRow
    <3>3. offer' = [offer EXCEPT ![q] = row]
      BY <2>3, <3>1 DEF Close
    <3> QED
      BY <1>1, <2>3, <3>2, <3>3 DEF OfferMoves, Close
  <2>4. CASE PhasePasses(q)
    <3>1. PICK p : offer' = [offer EXCEPT ![q].phase = p]
      BY <2>4 DEF PhasePasses
    <3>2. PICK row : row = [offer[q] EXCEPT !.phase = p]
      OBVIOUS
    <3>3. /\ row.revision = offer[q].revision /\ row.version = offer[q].version
          /\ row.status = offer[q].status
      BY <2>1, <3>2 DEF OfferRow
    <3>4. offer' = [offer EXCEPT ![q] = row]
      BY <3>1, <3>2
    <3> QED
      BY <1>1, <3>3, <3>4 DEF OfferMoves
  <2> QED
    BY <1>3, <2>2, <2>3, <2>4
<1>4. ASSUME NEW k \in Keys, Records(k) PROVE \A o \in Offers : OfferMoves(o)
  <2>1. /\ k[1] \in Offers /\ Recorded(k) /\ (k[2] = "publish" => ~pub[k[1]].message)
        /\ pub'[k[1]].message
    BY <1>1, <1>4, KeyParts, FirstRecord, RecordedEffect
  <2>2. PICK v : /\ v = IF k[2] = "publish" THEN offer[k[1]].version + 1 ELSE offer[k[1]].version
                 /\ offer' = [offer EXCEPT ![k[1]].version = v]
    BY <2>1 DEF Recorded
  <2>3. PICK row : row = [offer[k[1]] EXCEPT !.version = v]
    OBVIOUS
  <2>4. /\ row.revision = offer[k[1]].revision /\ row.version = v
        /\ row.status = offer[k[1]].status
    BY <1>1, <2>1, <2>3 DEF OfferRow
  <2>5. offer' = [offer EXCEPT ![k[1]] = row]
    BY <2>2, <2>3
  <2> QED
    BY <1>1, <2>1, <2>2, <2>4, <2>5 DEF OfferMoves
<1> QED
  BY <1>2, <1>3, <1>4
     DEF vars, Next, Step, FeedPublications, FeedEdits, FeedLifecycle, ButtonRefresh, Dispatch,
         Settle, Repeat, Answer, Unknown, NotSent, Refused, Resolve, Records

\* No message is forgotten.
LEMMA MessageStays ==
    ASSUME PublicationInv, MessagesKnown, [Next]_vars, NEW o \in Offers, pub[o].message
    PROVE  pub'[o].message
<1>1. Typed
  BY DEF PublicationInv
<1>2. ASSUME NEW k \in Keys, Records(k) PROVE pub'[o].message
  BY <1>1, <1>2, FirstRecord, RecordedEffect
<1> QED
  BY <1>1, <1>2, RecordsOnly

\* The counts stay right.
LEMMA CountsStep ==
    ASSUME PublicationInv, MessagesKnown, Changed, VersionsCount, [Next]_vars
    PROVE  Changed' /\ VersionsCount'
<1>1. case' = case
  BY DEF Next, vars
<1>2. SUFFICES ASSUME NEW o \in Offers
               PROVE  /\ offer'[o].revision <= case.revisions
                      /\ Active(o)' => offer'[o].revision < case.revisions
                      /\ 1 <= offer'[o].version
                      /\ offer'[o].version <=
                            1 + offer'[o].revision + IF pub'[o].message THEN 1 ELSE 0
  BY <1>1 DEF Changed, VersionsCount
<1>3. /\ offer[o].revision \in Nat /\ offer[o].version \in Nat /\ case.revisions \in Nat
      /\ pub[o].message \in BOOLEAN
  BY RevisionBound DEF PublicationInv, Typed, OfferRow, Changed
<1>4. pub[o].message => pub'[o].message
  BY MessageStays
<1>5. OfferMoves(o)
  BY OffersMove
<1>6. /\ offer'[o].revision <= case.revisions
      /\ Active(o)' => offer'[o].revision < case.revisions
  BY <1>3, <1>5 DEF OfferMoves, Changed, Active
<1>7. /\ 1 <= offer'[o].version
      /\ offer'[o].version <= 1 + offer'[o].revision + IF pub'[o].message THEN 1 ELSE 0
  BY <1>3, <1>4, <1>5 DEF OfferMoves, VersionsCount
<1> QED
  BY <1>6, <1>7

\* A nonempty set of naturals has a least one.
LEMMA LeastStamp ==
    ASSUME NEW S \in SUBSET Nat, S # {}
    PROVE  Min(S) \in S
<1> DEFINE R == OpToRel(<, Nat)
<1>1. IsWellFoundedOn(R, Nat)
  BY NatLessThanWellFounded
<1> HIDE DEF R
<1>2. PICK n \in S : \A y \in S : ~ (<<y, n>> \in R)
  BY <1>1, WFMin
<1>3. \A y \in S : ~(y < n)
  BY <1>2 DEF R, OpToRel
<1>4. \A y \in S : n =< y
  BY <1>3
<1> QED
  BY <1>4 DEF Min

\* A nonempty set of naturals up to some number has a greatest one.
LEMMA GreatestStamp ==
    ASSUME NEW b \in Nat, NEW S \in SUBSET (0..b), S # {}
    PROVE  Max(S) \in S
<1> DEFINE T == {b - u : u \in S}
           R == OpToRel(<, Nat)
<1>0. \A u \in S : b - u \in T
  OBVIOUS
<1>1. T \subseteq Nat /\ T # {}
  <2>1. T \subseteq Nat
    OBVIOUS
  <2> QED
    BY <1>0, <2>1
<1>2. IsWellFoundedOn(R, Nat)
  BY NatLessThanWellFounded
<1> HIDE DEF R
<1>3. PICK n \in T : \A y \in T : ~ (<<y, n>> \in R)
  BY <1>1, <1>2, WFMin
<1>4. \A y \in T : ~(y < n)
  BY <1>1, <1>3 DEF R, OpToRel
<1>5. PICK m \in S : n = b - m
  OBVIOUS
<1>6. \A u \in S : ~(b - u < b - m)
  BY <1>0, <1>4, <1>5
<1>7. \A u \in S : m >= u
  BY <1>6
<1> QED
  BY <1>7 DEF Max

\* What a delivery row holds
RowKind(row) ==
    \/ row = AbsentRow
    \/ /\ row.state \in LiveStates \cup FinalStates
       /\ row.content \in Contents /\ row.stamp \in Nat

\* The rows and the channel, and a time after all stamps
RowsTyped ==
    /\ \A k \in Keys : RowKind(job[k])
    /\ \E b \in Nat : \A k \in Keys : job[k].stamp \in 0..b
    /\ channel \in [Offers -> [copies : Nat, content : Contents \cup {NoContent}]]

\* A new stamp is an old one, or the next after all.
LEMMA StampAfter ==
    ASSUME NEW b \in Nat, \A k \in Keys : job[k].stamp \in 0..b, NEW o, NEW a
    PROVE  Stamp(o, a) \in 0..(b + 1)
<1> DEFINE rows == {job[k].stamp : k \in RowsOf(o)}
           waiting == {k \in RowsOf(o) : k[2] \in EditActions /\ k[3] > pub[o].version}
           stamps == {job[k].stamp : k \in waiting}
<1>1. RowsOf(o) \subseteq Keys
  BY DEF RowsOf
<1>2. {0} \cup rows \in SUBSET (0..b) /\ {0} \cup rows # {}
  BY <1>1
<1>3. Max({0} \cup rows) \in 0..b
  BY <1>2, GreatestStamp
<1>4. waiting # {} => stamps # {}
  OBVIOUS
<1>5. stamps \in SUBSET (0..b) /\ stamps \in SUBSET Nat
  BY <1>1
<1>6. stamps # {} => Min(stamps) \in 0..b
  BY <1>5, LeastStamp
<1>7. PICK M : M = Max({0} \cup rows)
  OBVIOUS
<1>8. PICK m : m = Min(stamps)
  OBVIOUS
<1>9. Stamp(o, a) = CASE a \notin EditActions -> 0
                      [] a \in EditActions /\ waiting = {} -> 1 + M
                      [] OTHER -> m
  BY <1>7, <1>8 DEF Stamp
<1>10. M \in 0..b /\ (waiting # {} => m \in 0..b)
  BY <1>3, <1>4, <1>6, <1>7, <1>8
<1> HIDE DEF rows, waiting, stamps
<1> QED
  BY <1>9, <1>10

\* What an offer shows is a content.
LEMMA ContentKind ==
    ASSUME PublicationInv, Changed, NEW o \in Offers
    PROVE  Content(o) \in Contents
<1>1. offer[o].revision \in Nat /\ offer[o].phase \in PhaseNames
  BY DEF PublicationInv, Typed, OfferRow
<1>2. offer[o].revision \in 0..MaxRevision
  BY <1>1, RevisionBound, PublicationConstants DEF Changed
<1> QED
  BY <1>1, <1>2 DEF Content, Contents

\* Rows stay rows.
LEMMA RowsStep ==
    ASSUME PublicationInv, MessagesKnown, Changed, RowsTyped, [Next]_vars
    PROVE  RowsTyped'
<1>1. Typed /\ RowsMove /\ \A k \in Keys : k[1] \in Offers
  BY AllMove, KeyParts DEF PublicationInv
<1>2. PICK b \in Nat : \A k \in Keys : job[k].stamp \in 0..b
  BY DEF RowsTyped
<1>3. ASSUME NEW k \in Keys PROVE RowKind(job'[k]) /\ job'[k].stamp \in 0..(b + 1)
  <2>1. RowKind(job[k]) /\ job[k].stamp \in 0..b /\ job[k].stamp \in 0..(b + 1)
    BY <1>2 DEF RowsTyped
  <2>2. CASE job'[k] = job[k]
    BY <2>1, <2>2
  <2>3. CASE Created(k, job'[k])
    <3>1. Stamp(k[1], k[2]) \in 0..(b + 1)
      BY <1>2, StampAfter
    <3>2. Content(k[1]) \in Contents
      BY <1>1, ContentKind
    <3> QED
      BY <2>3, <3>1, <3>2 DEF Created, RowKind, LiveStates
  <2>4. CASE Moved(k, job'[k])
    <3>1. job[k] # AbsentRow
      BY <2>4 DEF Moved, AbsentRow
    <3> QED
      BY <2>1, <2>4, <3>1 DEF Moved, RowKind
  <2> QED
    BY <1>1, <2>2, <2>3, <2>4 DEF RowsMove, RowMoves
<1>4. channel' \in [Offers -> [copies : Nat, content : Contents \cup {NoContent}]]
  <2>1. CASE channel' = channel
    BY <2>1 DEF RowsTyped
  <2>2. ASSUME NEW k \in Keys, job[k].state = "leased", Landed(k)
        PROVE  channel' \in [Offers -> [copies : Nat, content : Contents \cup {NoContent}]]
    <3>1. job[k].content \in Contents
      BY <2>2 DEF RowsTyped, RowKind, AbsentRow
    <3>2. channel[k[1]] \in [copies : Nat, content : Contents \cup {NoContent}]
      BY <1>1 DEF RowsTyped
    <3>3. PICK c : c = IF k[2] = "publish" THEN channel[k[1]].copies + 1 ELSE channel[k[1]].copies
      OBVIOUS
    <3>4. c \in Nat
      BY <3>2, <3>3
    <3>5. channel' = [channel EXCEPT ![k[1]].copies = c, ![k[1]].content = job[k].content]
      BY <2>2, <3>3 DEF Landed
    <3> QED
      BY <1>1, <3>1, <3>4, <3>5 DEF RowsTyped
  <2> QED
    BY <2>1, <2>2
       DEF vars, Next, Step, FeedPublications, FeedEdits, FeedLifecycle, Trade, Close,
           PhasePasses, ButtonRefresh, Dispatch, Settle, Repeat, Answer, Delivered, Unknown,
           NotSent, Refused, Resolve
<1>5. b + 1 \in Nat
  OBVIOUS
<1> QED
  BY <1>3, <1>4, <1>5 DEF RowsTyped

\* What offer_publication_states holds of an offer
PubRow == [message : BOOLEAN, version : {0} \cup Versions,
           status : {"pending", "sent", "disabled"}, phase : {"none"} \cup LifecycleActions]

\* The versions a step may record are versions.
LEMMA VersionKind ==
    ASSUME PublicationInv, Changed, VersionsCount, NEW o \in Offers
    PROVE  offer[o].version \in Versions /\ offer[o].revision \in 0..MaxRevision
<1>1. /\ offer[o].revision \in Nat /\ offer[o].version \in Nat /\ case.revisions \in Nat
      /\ case.revisions <= MaxRevision /\ offer[o].revision <= case.revisions
      /\ MaxRevision \in Nat
  BY RevisionBound, PublicationConstants DEF PublicationInv, Typed, OfferRow, Changed
<1> QED
  BY <1>1 DEF VersionsCount, Versions

\* The publication table keeps its form.
LEMMA PubStep ==
    ASSUME PublicationInv, MessagesKnown, Changed, VersionsCount, pub \in [Offers -> PubRow],
           [Next]_vars
    PROVE  pub' \in [Offers -> PubRow]
<1>1. /\ \A o \in Offers : offer[o].version \in Versions
      /\ \A o \in Offers : offer'[o].version \in Versions
  <2>1. PublicationInv' /\ Changed' /\ VersionsCount'
    BY NextInv, CountsStep
  <2>2. \A o \in Offers : offer'[o].version \in Versions
    <3> SUFFICES ASSUME NEW o \in Offers PROVE offer'[o].version \in Versions
      OBVIOUS
    <3>1. /\ case' = case /\ case.revisions \in Nat /\ case.revisions <= MaxRevision
          /\ MaxRevision \in Nat
      BY RevisionBound, PublicationConstants DEF Next, vars, Changed
    <3>2. offer'[o].revision \in Nat /\ offer'[o].version \in Nat
      BY <2>1 DEF PublicationInv, Typed, OfferRow
    <3>3. /\ offer'[o].revision <= case.revisions /\ 1 <= offer'[o].version
          /\ offer'[o].version <= 1 + offer'[o].revision + IF pub'[o].message THEN 1 ELSE 0
      BY <2>1, <3>1 DEF Changed, VersionsCount
    <3> QED
      BY <3>1, <3>2, <3>3 DEF Versions
  <2> QED
    BY <2>2, VersionKind
<1>2. CASE pub' = pub
  BY <1>2
<1>3. CASE FeedLifecycle
  <2> SUFFICES ASSUME NEW o \in LifecycleCandidates
               PROVE  [pub[o] EXCEPT !.phase = PhaseOf(o)] \in PubRow
    BY <1>3 DEF FeedLifecycle
  <2>1. pub[o] \in PubRow /\ PhaseOf(o) \in {"none"} \cup LifecycleActions
    BY DEF LifecycleCandidates, PhaseOf
  <2> QED
    BY <2>1 DEF PubRow
<1>4. ASSUME NEW k \in Keys, Settle(k) PROVE pub' \in [Offers -> PubRow]
  <2>1. k[1] \in Offers /\ pub[k[1]] \in PubRow /\ offer[k[1]].version \in {0} \cup Versions
    BY <1>1, KeyParts
  <2>2. CASE pub' = [pub EXCEPT ![k[1]].status = "disabled",
                                ![k[1]].version = offer[k[1]].version]
    BY <2>1, <2>2 DEF PubRow
  <2> QED
    BY <1>2, <1>4, <2>2 DEF Settle
<1>5. ASSUME NEW k \in Keys, Records(k) PROVE pub' \in [Offers -> PubRow]
  <2>1. /\ k[1] \in Offers /\ pub[k[1]] \in PubRow /\ Recorded(k)
        /\ offer[k[1]] \in OfferRow /\ DOMAIN offer = Offers
    BY <1>5, KeyParts, FirstRecord DEF PublicationInv, Typed
  <2>0. PICK st : st = IF Active(k[1]) THEN "sent" ELSE "disabled"
    OBVIOUS
  <2>2. PICK v : /\ offer' = [offer EXCEPT ![k[1]].version = v]
                 /\ pub' = [pub EXCEPT ![k[1]].message = TRUE, ![k[1]].version = v,
                                       ![k[1]].status = st]
    BY <2>0, <2>1 DEF Recorded
  <2>3. offer'[k[1]].version = v
    BY <2>1, <2>2 DEF OfferRow
  <2>4. v \in {0} \cup Versions
    BY <1>1, <2>1, <2>3
  <2> QED
    BY <2>0, <2>1, <2>2, <2>4 DEF PubRow
<1> QED
  BY <1>2, <1>3, <1>4, <1>5
     DEF vars, Next, Step, FeedPublications, FeedEdits, Trade, Close, PhasePasses, ButtonRefresh,
         Dispatch, Repeat, Answer, Unknown, NotSent, Refused, Resolve, Records

\* The feeder's place in its cycle, and the failures so far
FeederTyped ==
    /\ feeder \in {"publications", "edits", "lifecycle"}
    /\ faults \in 0..case.faults /\ refusals \in 0..case.refusals

\* They stay within their bounds.
LEMMA FeederStep == ASSUME Changed, FeederTyped, [Next]_vars PROVE FeederTyped'
<1>1. case' = case
  BY DEF Next, vars
<1>2. feeder' \in {"publications", "edits", "lifecycle"}
  BY DEF FeederTyped, vars, Next, Step, FeedPublications, FeedEdits, FeedLifecycle, Batch, Trade,
         Close, PhasePasses, ButtonRefresh, Dispatch, Settle, Repeat, Answer, Delivered, Unknown,
         NotSent, Refused, Resolve
<1>3. /\ faults' = faults \/ (faults < case.faults /\ faults' = faults + 1)
      /\ refusals' = refusals \/ (refusals < case.refusals /\ refusals' = refusals + 1)
  BY DEF vars, Next, Step, FeedPublications, FeedEdits, FeedLifecycle, Trade,
         Close, PhasePasses, ButtonRefresh, Dispatch, Settle, Repeat, Answer, Delivered, Unknown,
         NotSent, Refused, Resolve
<1>4. case.faults \in Nat /\ case.refusals \in Nat
  BY RevisionBound DEF Changed
<1> QED
  BY <1>1, <1>2, <1>3, <1>4 DEF FeederTyped

ValuesInv ==
    /\ MessagesKnown /\ Changed /\ VersionsCount /\ RowsTyped /\ FeederTyped
    /\ pub \in [Offers -> PubRow]

\* Every variable keeps its kind.  An offer's version counts its changes and the one
\* recording of its message, so none grows without end; and a message that the table of
\* publications records is in the channel (telegram_offer_queue_feedback.py).
THEOREM PublicationTypeCorrect == Spec => []TypeOK
<1>1. ASSUME Init PROVE ValuesInv
  <2>1. MessagesKnown /\ VersionsCount
    BY <1>1, KeyParts DEF Init, MessagesKnown, VersionsCount, AbsentRow
  <2>2. Changed
    BY <1>1, RevisionBound DEF Init, Changed
  <2>3. RowsTyped
    <3>1. \A k \in Keys : job[k].stamp \in 0..0
      BY <1>1 DEF Init, AbsentRow
    <3> QED
      BY <1>1, <3>1 DEF Init, RowsTyped, RowKind
  <2>4. FeederTyped
    BY <1>1, RevisionBound DEF Init, FeederTyped
  <2>5. pub \in [Offers -> PubRow]
    BY <1>1 DEF Init, PubRow
  <2> QED
    BY <2>1, <2>2, <2>3, <2>4, <2>5 DEF ValuesInv
<1>2. PublicationInv /\ ValuesInv /\ [Next]_vars => ValuesInv'
  BY MessagesStep, CountsStep, RowsStep, FeederStep, PubStep DEF ValuesInv
<1>3. ASSUME PublicationInv, ValuesInv PROVE TypeOK
  <2>1. offer \in [Offers -> [status : {"active", "closed"}, phase : PhaseNames,
                              revision : 0..MaxRevision, version : Versions]]
    <3>1. \A o \in Offers : offer[o].version \in Versions /\ offer[o].revision \in 0..MaxRevision
      BY <1>3, VersionKind DEF ValuesInv
    <3> QED
      BY <1>3, <3>1 DEF PublicationInv, Typed, OfferRow
  <2>2. channel \in [Offers -> [copies : Nat, content : Contents \cup {NoContent}]]
    BY <1>3 DEF ValuesInv, RowsTyped
  <2>3. \A k \in Keys :
          \/ job[k] = AbsentRow
          \/ /\ job[k].state \in LiveStates \cup FinalStates
             /\ job[k].content \in Contents
             /\ job[k].stamp \in Nat /\ job[k].started \in BOOLEAN
             /\ job[k].state = "leased" => job[k].started
    BY <1>3 DEF PublicationInv, Typed, RowSound, InFlight, ValuesInv, RowsTyped, RowKind
  <2> QED
    BY <1>3, <2>1, <2>2, <2>3
       DEF PublicationInv, Typed, ValuesInv, MessagesKnown, Changed, FeederTyped, PubRow, TypeOK
<1> QED
  BY <1>1, <1>2, <1>3, InvariantHolds, PTL DEF Spec

=============================================================================
