-------------------------- MODULE OfferTradeProofs -------------------------
(***************************************************************************)
(* Theorems about OfferTrade, for any offers, requests, users, sessions,   *)
(* deadlines, limits and retries.                                          *)
(***************************************************************************)
EXTENDS OfferTrade, FiniteSetTheorems, TLAPS

Statuses == {"none", "completed", "overtime", "closed"} \cup Rejections

Places == {"wire", "key", "user", "late", "exec", "row", "decide", "relock"}

Fields == {"pc", "req", "mode", "caller", "at", "gated", "tries", "seen", "view", "locks"}

\* A session at work; an approval answers nobody, and only an approval takes the
\* lock of the key late or its row again
Working(s) ==
    /\ DOMAIN s = Fields
    /\ s.pc \in Places
    /\ s.req \in Requests
    /\ s.mode \in {"direct", "approve"}
    /\ s.caller \in {"client", "source", "replay", "gone"}
    /\ s.at \in Nat
    /\ s.mode = "approve" => s.caller = "gone"
    /\ s.pc \in {"late", "relock"} => s.mode = "approve"

\* From here on a session has the lock of its key
HasKey(s) ==
    \/ s.pc \in {"exec", "row", "decide"}
    \/ s.pc = "user" /\ s.mode = "direct"

\* A session that decides has the offer as it is, under its lock; a direct one
\* has a key that no trade has used
Sound(s, offs, led) ==
    /\ Working(s)
    /\ HasKey(s) => KeyLock(s.req) \subseteq s.locks
    /\ s.pc = "decide" => /\ <<"offer", OfferOf[s.req]>> \in s.locks
                          /\ s.view = offs[OfferOf[s.req]]
    /\ HasKey(s) /\ s.mode = "direct" /\ s.req \in Keyed => led[s.req] # "completed"

Typed ==
    /\ DOMAIN offers = Offers
    /\ DOMAIN tx = Tx
    /\ ledger \in [Requests -> Statuses]
    /\ trades \in [Requests -> Nat]
    /\ told \in [Requests -> {"none"} \cup Answers]
    /\ since \in [Requests -> Nat]
    /\ now \in Nat

SessionsSound == \A t \in Tx : tx[t] = Idle \/ Sound(tx[t], offers, ledger)

\* No lock is held twice
LocksApart == \A t, u \in Tx : t # u => Held(t) \cap Held(u) = {}

\* A key has one trade when its row is completed, and none otherwise
KeyCounted == \A r \in Keyed : trades[r] = IF ledger[r] = "completed" THEN 1 ELSE 0

TradeInv ==
    /\ Typed
    /\ SessionsSound
    /\ LocksApart
    /\ KeyCounted

-----------------------------------------------------------------------------
(* Sessions.                                                               *)

\* A session at work is not idle, and holds its locks.
LEMMA WorkingIsNotIdle ==
    ASSUME NEW s, Working(s)
    PROVE  s # Idle /\ s.pc # "idle"
BY DEF Working, Places, Idle

\* What a session at some place is.
LEMMA AtWork ==
    ASSUME TradeInv, NEW t \in Tx, tx[t].pc \in Places
    PROVE  /\ tx[t] # Idle /\ Working(tx[t]) /\ Sound(tx[t], offers, ledger)
           /\ Held(t) = tx[t].locks
BY DEF TradeInv, SessionsSound, Sound, Working, Idle, Held, Places

\* A session that is not idle.
LEMMA NotIdle ==
    ASSUME TradeInv, NEW t \in Tx, tx[t] # Idle
    PROVE  /\ Working(tx[t]) /\ Sound(tx[t], offers, ledger)
           /\ Held(t) = tx[t].locks
BY DEF TradeInv, SessionsSound, Sound, Held

\* A step of one session that writes no row and takes no lock of another.
LEMMA SessionStep ==
    ASSUME TradeInv, NEW t \in Tx,
           DOMAIN tx' = Tx,
           \A u \in Tx : u # t => tx'[u] = tx[u],
           tx'[t] = Idle \/ (Sound(tx'[t], offers, ledger) /\ Free(t, tx'[t].locks)),
           UNCHANGED <<offers, ledger, trades>>,
           told' \in [Requests -> {"none"} \cup Answers],
           since' \in [Requests -> Nat],
           now' \in Nat
    PROVE  TradeInv'
<1>1. Typed /\ SessionsSound /\ LocksApart /\ KeyCounted
  BY DEF TradeInv
<1>2. Typed'
  BY <1>1 DEF Typed
<1>3. SessionsSound'
  BY <1>1 DEF SessionsSound
<1>4. (tx'[t] = Idle => Held(t)' = {}) /\ (tx'[t] # Idle => Held(t)' = tx'[t].locks)
  BY DEF Held
<1>5. \A u \in Tx : u # t => Held(u)' = Held(u)
  BY DEF Held
<1>6. LocksApart'
  BY <1>1, <1>4, <1>5 DEF LocksApart, Free
<1>7. KeyCounted'
  BY <1>1 DEF KeyCounted
<1> QED
  BY <1>2, <1>3, <1>6, <1>7 DEF TradeInv

\* A session ends and writes no row.
LEMMA FinishStep ==
    ASSUME TradeInv, NEW t \in Tx, tx[t].pc \in Places, NEW a \in Answers, Finish(t, a),
           UNCHANGED <<offers, ledger, trades>>
    PROVE  TradeInv'
<1>1. Typed /\ Working(tx[t])
  BY AtWork DEF TradeInv
<1>2. /\ tx' = [tx EXCEPT ![t] = Idle] /\ since' = since /\ now' = now
      /\ told' = [told EXCEPT ![tx[t].req] = a] \/ told' = told
  BY DEF Finish
<1>3. told' \in [Requests -> {"none"} \cup Answers]
  BY <1>1, <1>2 DEF Typed, Working
<1>4. DOMAIN tx' = Tx /\ tx'[t] = Idle /\ \A u \in Tx : u # t => tx'[u] = tx[u]
  BY <1>1, <1>2 DEF Typed
<1>5. /\ tx'[t] = Idle \/ (Sound(tx'[t], offers, ledger) /\ Free(t, tx'[t].locks))
      /\ since' \in [Requests -> Nat] /\ now' \in Nat
  BY <1>1, <1>2, <1>4 DEF Typed
<1> QED
  BY <1>3, <1>4, <1>5, SessionStep, Zenon

\* A row stays, or an open overtime request ends.
KeptOrClosed(q) ==
    \/ ledger'[q] = ledger[q]
    \/ ledger[q] = "overtime" /\ ledger'[q] = "closed"

\* A session that has decided commits the row of its key and its offer, and ends:
\* its locks keep every other session away from both.
LEMMA CommitStep ==
    ASSUME TradeInv, NEW t \in Tx, tx[t].pc = "decide", NEW a \in Answers, Finish(t, a),
           ledger' \in [Requests -> Statuses],
           \A q \in Requests : q # tx[t].req \/ q \notin Keyed => KeptOrClosed(q),
           DOMAIN offers' = Offers,
           \A p \in Offers : p # OfferOf[tx[t].req] => offers'[p] = offers[p],
           trades' \in [Requests -> Nat],
           KeyCounted'
    PROVE  TradeInv'
<1>1. /\ Typed /\ SessionsSound /\ LocksApart
  BY DEF TradeInv
<1>2. /\ Working(tx[t]) /\ Sound(tx[t], offers, ledger) /\ Held(t) = tx[t].locks
  BY AtWork DEF Places
<1>3. /\ KeyLock(tx[t].req) \subseteq Held(t) /\ <<"offer", OfferOf[tx[t].req]>> \in Held(t)
  BY <1>2 DEF Sound, HasKey
<1>4. /\ tx' = [tx EXCEPT ![t] = Idle] /\ since' = since /\ now' = now
      /\ told' = [told EXCEPT ![tx[t].req] = a] \/ told' = told
  BY DEF Finish
<1>5. told' \in [Requests -> {"none"} \cup Answers]
  BY <1>1, <1>2, <1>4 DEF Typed, Working
<1>6. /\ DOMAIN tx' = Tx
      /\ \A u \in Tx : tx'[u] = IF u = t THEN Idle ELSE tx[u]
  BY <1>1, <1>4 DEF Typed
<1>7. Typed'
  BY <1>1, <1>4, <1>5, <1>6 DEF Typed
<1>8. SessionsSound'
  <2> SUFFICES ASSUME NEW u \in Tx, tx'[u] # Idle
               PROVE  Sound(tx'[u], offers', ledger')
    BY DEF SessionsSound
  <2>1. u # t /\ tx'[u] = tx[u] /\ tx[u] # Idle
    BY <1>6
  <2>2. /\ Working(tx[u]) /\ Sound(tx[u], offers, ledger) /\ Held(u) = tx[u].locks
    BY <2>1, NotIdle
  <2>3. Held(u) \cap Held(t) = {}
    BY <1>1, <2>1 DEF LocksApart
  <2>4. ASSUME tx[u].pc = "decide"
        PROVE  offers'[OfferOf[tx[u].req]] = offers[OfferOf[tx[u].req]]
    <3>1. <<"offer", OfferOf[tx[u].req]>> \in Held(u)
      BY <2>2, <2>4 DEF Sound
    <3>2. OfferOf[tx[u].req] # OfferOf[tx[t].req]
      BY <1>3, <2>3, <3>1
    <3>3. OfferOf[tx[u].req] \in Offers
      BY <2>2, OfferTradeAssumption DEF Working
    <3> QED
      BY <3>2, <3>3
  <2>5. ASSUME HasKey(tx[u]), tx[u].mode = "direct", tx[u].req \in Keyed
        PROVE  ledger'[tx[u].req] # "completed"
    <3>1. KeyLock(tx[u].req) \subseteq Held(u)
      BY <2>2, <2>5 DEF Sound
    <3>2. <<"key", tx[u].req>> \in Held(u)
      BY <2>5, <3>1 DEF KeyLock
    <3>3. tx[u].req # tx[t].req
      BY <1>3, <2>3, <2>5, <3>2 DEF KeyLock
    <3>4. tx[u].req \in Requests
      BY <2>2 DEF Working
    <3> QED
      BY <2>2, <2>5, <3>3, <3>4 DEF Sound, KeptOrClosed
  <2> QED
    BY <2>1, <2>2, <2>4, <2>5 DEF Sound
<1>9. LocksApart'
  <2>1. Held(t)' = {} /\ \A u \in Tx : u # t => Held(u)' = Held(u)
    BY <1>6 DEF Held
  <2> QED
    BY <1>1, <2>1 DEF LocksApart
<1> QED
  BY <1>7, <1>8, <1>9 DEF TradeInv

\* A row is written beside the sessions: of an offer that none has locked, and no
\* key gets or loses its trade.
LEMMA BesideStep ==
    ASSUME TradeInv, NEW O \in SUBSET Offers,
           \A o \in O : \A t \in Tx : <<"offer", o>> \notin Held(t),
           DOMAIN offers' = Offers,
           \A p \in Offers : p \notin O => offers'[p] = offers[p],
           ledger' \in [Requests -> Statuses],
           \A q \in Requests : ledger'[q] = "completed" <=> ledger[q] = "completed",
           UNCHANGED <<trades, tx, told, since, now>>
    PROVE  TradeInv'
<1>1. /\ Typed /\ SessionsSound /\ LocksApart /\ KeyCounted
  BY DEF TradeInv
<1>2. Typed'
  BY <1>1 DEF Typed
<1>3. SessionsSound'
  <2> SUFFICES ASSUME NEW u \in Tx, tx[u] # Idle
               PROVE  Sound(tx[u], offers', ledger')
    BY DEF SessionsSound
  <2>1. /\ Working(tx[u]) /\ Sound(tx[u], offers, ledger) /\ Held(u) = tx[u].locks
    BY NotIdle
  <2>2. tx[u].req \in Requests /\ OfferOf[tx[u].req] \in Offers
    BY <2>1, OfferTradeAssumption DEF Working
  <2>3. ASSUME tx[u].pc = "decide"
        PROVE  offers'[OfferOf[tx[u].req]] = offers[OfferOf[tx[u].req]]
    BY <2>1, <2>2, <2>3 DEF Sound
  <2> QED
    BY <2>1, <2>2, <2>3 DEF Sound
<1>4. LocksApart'
  BY <1>1 DEF LocksApart, Held
<1>5. KeyCounted'
  BY <1>1, OfferTradeAssumption DEF KeyCounted
<1> QED
  BY <1>2, <1>3, <1>4, <1>5 DEF TradeInv

-----------------------------------------------------------------------------
(* The invariant holds at first and every action keeps it.                 *)

\* No session is at work and nothing has been traded.
LEMMA InitTradeInv == Init => TradeInv
<1> SUFFICES ASSUME Init PROVE TradeInv
  OBVIOUS
<1>1. Typed
  BY DEF Init, Typed, Statuses
<1>2. \A t \in Tx : tx[t] = Idle
  BY DEF Init
<1>3. SessionsSound /\ LocksApart
  BY <1>2 DEF SessionsSound, LocksApart, Held
<1>4. KeyCounted
  BY OfferTradeAssumption DEF Init, KeyCounted
<1> QED
  BY <1>1, <1>3, <1>4 DEF TradeInv

\* A new session, before it has any lock or with the lock of its row.
LEMMA NewSession ==
    ASSUME TradeInv, NEW r \in Requests, NEW mode \in {"direct", "approve"},
           NEW caller \in {"client", "source", "replay", "gone"}, NEW at \in Nat,
           NEW gated \in BOOLEAN,
           mode = "approve" => caller = "gone"
    PROVE  LET s == Session(r, mode, caller, at, gated)
           IN  /\ Working(s)
               /\ s.pc = IF mode = "approve" THEN "user" ELSE "key"
               /\ s.mode = mode
               /\ s.locks = IF mode = "approve" THEN {<<"row", r>>} ELSE {}
               /\ Sound(s, offers, ledger)
               /\ s # Idle
<1> DEFINE s == Session(r, mode, caller, at, gated)
<1>1. /\ DOMAIN s = Fields
      /\ s.pc = IF mode = "approve" THEN "user" ELSE "key"
      /\ s.req = r /\ s.mode = mode /\ s.caller = caller /\ s.at = at
      /\ s.locks = IF mode = "approve" THEN {<<"row", r>>} ELSE {}
  BY DEF Session, Fields
<1> HIDE DEF s
<1>2. Working(s)
  BY <1>1 DEF Working, Places
<1>3. Sound(s, offers, ledger)
  BY <1>1, <1>2 DEF Sound, HasKey
<1> QED
  BY <1>1, <1>2, <1>3, WorkingIsNotIdle DEF s

\* A request starts a session at the home server or on the wire.
LEMMA StartStep ==
    ASSUME TradeInv, NEW t \in Tx, NEW r \in Requests,
           Receive(t, r) \/ Forward(t, r) \/ Approve(t, r) \/ Replay(t, r)
    PROVE  TradeInv'
<1>1. Typed /\ DOMAIN tx = Tx /\ now \in Nat /\ since[r] \in Nat
  BY DEF TradeInv, Typed
<1>2. CASE Receive(t, r)
  <2>1. PICK gated \in BOOLEAN : tx' = [tx EXCEPT ![t] = Session(r, "direct", "client", now, gated)]
    BY <1>2 DEF Receive
  <2> DEFINE s == Session(r, "direct", "client", now, gated)
  <2>2. Sound(s, offers, ledger) /\ s.locks = {}
    BY <1>1, NewSession
  <2> HIDE DEF s
  <2>3. tx' = [tx EXCEPT ![t] = s]
    BY <2>1 DEF s
  <2>4. /\ DOMAIN tx' = Tx /\ tx'[t] = s /\ \A u \in Tx : u # t => tx'[u] = tx[u]
    BY <1>1, <2>3
  <2>5. told' \in [Requests -> {"none"} \cup Answers] /\ UNCHANGED <<offers, ledger, trades, since, now>>
    BY <1>1, <1>2 DEF Receive, Typed, home, edge
  <2>6. Free(t, s.locks)
    BY <2>2 DEF Free
  <2> QED
    BY <1>1, <2>2, <2>4, <2>5, <2>6, SessionStep DEF Typed
<1>3. CASE Forward(t, r)
  <2>1. PICK gated \in BOOLEAN :
           tx' = [tx EXCEPT ![t] = [Session(r, "direct", "source", now, gated)
                                    EXCEPT !.pc = "wire", !.seen = 0]]
    BY <1>3 DEF Forward
  <2> DEFINE n == Session(r, "direct", "source", now, gated)
             s == [n EXCEPT !.pc = "wire", !.seen = 0]
  <2>2. Working(n) /\ n.mode = "direct" /\ n.locks = {}
    BY <1>1, NewSession
  <2>3. tx' = [tx EXCEPT ![t] = s]
    BY <2>1
  <2> HIDE DEF n
  <2>4. /\ DOMAIN s = Fields /\ s.pc = "wire" /\ s.req = n.req /\ s.mode = n.mode
        /\ s.caller = n.caller /\ s.at = n.at /\ s.locks = n.locks
    BY <2>2 DEF Working, Fields
  <2> HIDE DEF s
  <2>5. Sound(s, offers, ledger) /\ s.locks = {}
    BY <2>2, <2>4 DEF Sound, HasKey, Working, Places
  <2>6. /\ DOMAIN tx' = Tx /\ tx'[t] = s /\ \A u \in Tx : u # t => tx'[u] = tx[u]
    BY <1>1, <2>3
  <2>7. told' \in [Requests -> {"none"} \cup Answers] /\ UNCHANGED <<offers, ledger, trades, since, now>>
    BY <1>1, <1>3 DEF Forward, Typed, home, edge
  <2>8. Free(t, s.locks)
    BY <2>5 DEF Free
  <2> QED
    BY <1>1, <2>5, <2>6, <2>7, <2>8, SessionStep DEF Typed
<1>4. CASE Approve(t, r)
  <2>no. PICK no \in BOOLEAN : no = FALSE
    OBVIOUS
  <2> DEFINE s == Session(r, "approve", "gone", now, no)
  <2>0. now \in Nat /\ FALSE \in BOOLEAN /\ "gone" \in {"client", "source", "replay", "gone"}
        /\ "approve" \in {"direct", "approve"}
    BY <1>1
  <2>1. Sound(s, offers, ledger) /\ s.locks = {<<"row", r>>}
    BY <2>0, <2>no, NewSession
  <2> HIDE DEF s
  <2>2. /\ tx' = [tx EXCEPT ![t] = s] /\ Free(t, s.locks)
        /\ UNCHANGED <<offers, ledger, trades, told, since, now>>
    BY <1>4, <2>no, <2>1 DEF Approve, home, edge, s
  <2>3. /\ DOMAIN tx' = Tx /\ tx'[t] = s /\ \A u \in Tx : u # t => tx'[u] = tx[u]
    BY <1>1, <2>2
  <2> QED
    BY <1>1, <2>1, <2>2, <2>3, SessionStep DEF Typed
<1>5. CASE Replay(t, r)
  <2>no. PICK no \in BOOLEAN : no = FALSE
    OBVIOUS
  <2> DEFINE n == Session(r, "direct", "replay", since[r], no)
             s == [n EXCEPT !.pc = "wire", !.seen = 0]
  <2>0. since[r] \in Nat /\ FALSE \in BOOLEAN /\ "replay" \in {"client", "source", "replay", "gone"}
        /\ "direct" \in {"direct", "approve"} /\ "direct" # "approve"
    BY <1>1
  <2>1. Working(n) /\ n.mode = "direct" /\ n.locks = {}
    BY <2>0, <2>no, NewSession
  <2>2. /\ tx' = [tx EXCEPT ![t] = s] \/ tx' = tx
        /\ UNCHANGED <<offers, ledger, trades, told, since, now>>
    BY <1>5, <2>no DEF Replay, home
  <2>3. tx[t] = Idle
    BY <1>5 DEF Replay
  <2> HIDE DEF n
  <2>4. /\ DOMAIN s = Fields /\ s.pc = "wire" /\ s.req = n.req /\ s.mode = n.mode
        /\ s.caller = n.caller /\ s.at = n.at /\ s.locks = n.locks
    BY <2>1 DEF Working, Fields
  <2> HIDE DEF s
  <2>5. Sound(s, offers, ledger) /\ s.locks = {}
    BY <2>1, <2>4 DEF Sound, HasKey, Working, Places
  <2>6. Free(t, s.locks)
    BY <2>5 DEF Free
  <2>7. CASE tx' = [tx EXCEPT ![t] = s]
    <3>1. /\ DOMAIN tx' = Tx /\ tx'[t] = s /\ \A u \in Tx : u # t => tx'[u] = tx[u]
      BY <1>1, <2>7
    <3> QED
      BY <1>1, <2>2, <2>5, <2>6, <3>1, SessionStep DEF Typed
  <2>8. CASE tx' = tx
    <3>1. /\ DOMAIN tx' = Tx /\ \A u \in Tx : u # t => tx'[u] = tx[u]
          /\ tx'[t] = Idle \/ (Sound(tx'[t], offers, ledger) /\ Free(t, tx'[t].locks))
          /\ UNCHANGED <<offers, ledger, trades>>
          /\ told' \in [Requests -> {"none"} \cup Answers]
          /\ since' \in [Requests -> Nat] /\ now' \in Nat
      BY <1>1, <2>2, <2>3, <2>8 DEF Typed
    <3> QED
      BY <3>1, SessionStep, Zenon
  <2> QED
    BY <2>2, <2>7, <2>8
<1> QED
  BY <1>2, <1>3, <1>4, <1>5

\* A session goes on with the same call and maybe more locks
SameCall(s, n) ==
    /\ DOMAIN n = Fields
    /\ n.req = s.req /\ n.mode = s.mode /\ n.at = s.at
    /\ n.caller = s.caller \/ n.caller = "gone"

\* A session goes on to the next place, with locks that were free.
LEMMA GoOn ==
    ASSUME TradeInv, NEW t \in Tx, tx[t] # Idle, NEW L,
           DOMAIN tx' = Tx,
           \A u \in Tx : u # t => tx'[u] = tx[u],
           SameCall(tx[t], tx'[t]),
           tx'[t].locks = tx[t].locks \cup L, Free(t, L),
           Sound(tx'[t], offers, ledger),
           UNCHANGED <<offers, ledger, trades, since, now>>,
           told' \in [Requests -> {"none"} \cup Answers]
    PROVE  TradeInv'
<1>1. Typed /\ LocksApart
  BY DEF TradeInv
<1>2. Held(t) = tx[t].locks
  BY NotIdle
<1>3. Free(t, tx'[t].locks)
  BY <1>1, <1>2 DEF Free, LocksApart
<1> QED
  BY <1>1, <1>3, SessionStep DEF Typed

\* The places a session names by its pc.
LEMMA PlaceIsWork ==
    ASSUME TradeInv, NEW t \in Tx, tx[t].pc \in Places
    PROVE  /\ tx[t] # Idle /\ DOMAIN tx = Tx /\ DOMAIN tx[t] = Fields
           /\ tx[t].req \in Requests /\ tx[t].mode \in {"direct", "approve"}
           /\ OfferOf[tx[t].req] \in Offers /\ UserOf[tx[t].req] \in Users
           /\ Sound(tx[t], offers, ledger)
BY AtWork, OfferTradeAssumption DEF Working, TradeInv, Typed

\* A call arrives at the home server.
LEMMA ArriveStep ==
    ASSUME TradeInv, NEW t \in Tx, Arrive(t)
    PROVE  TradeInv'
<1>1. Typed /\ tx[t].pc = "wire"
  BY DEF TradeInv, Arrive
<1>2. /\ tx[t] # Idle /\ DOMAIN tx = Tx /\ DOMAIN tx[t] = Fields
      /\ Sound(tx[t], offers, ledger)
  BY <1>1, PlaceIsWork DEF Places
<1>3. /\ DOMAIN tx' = Tx /\ \A u \in Tx : u # t => tx'[u] = tx[u]
      /\ SameCall(tx[t], tx'[t]) /\ tx'[t].caller = tx[t].caller
      /\ tx'[t].pc = "key" /\ tx'[t].locks = tx[t].locks
  BY <1>2 DEF Arrive, SameCall, Fields
<1>4. Sound(tx'[t], offers, ledger)
  BY <1>2, <1>3 DEF Sound, Working, HasKey, Places, SameCall
<1>5. Free(t, {}) /\ tx'[t].locks = tx[t].locks \cup {}
  BY <1>3 DEF Free
<1>6. UNCHANGED <<offers, ledger, trades, told, since, now>>
  BY DEF Arrive, home, edge
<1> QED
  BY <1>1, <1>2, <1>3, <1>4, <1>5, <1>6, GoOn DEF Typed

\* The lock of the key is taken, or the key is answered as it was before.
LEMMA LockKeyStep ==
    ASSUME TradeInv, NEW t \in Tx, LockKey(t)
    PROVE  TradeInv'
<1> DEFINE r == tx[t].req
<1>1. Typed /\ tx[t].pc = "key" /\ UNCHANGED <<offers, ledger, trades>>
  BY DEF TradeInv, LockKey, home
<1>2. /\ tx[t] # Idle /\ DOMAIN tx = Tx /\ DOMAIN tx[t] = Fields /\ tx[t].pc \in Places
      /\ Sound(tx[t], offers, ledger)
  BY <1>1, PlaceIsWork DEF Places
<1>3. ASSUME NEW a \in Answers, Finish(t, a)
      PROVE  TradeInv'
  BY <1>1, <1>2, <1>3, FinishStep
<1>4. ReplayAnswer(ledger[r]) \in Answers /\ "refused" \in Answers
  BY DEF ReplayAnswer, Answers
<1>5. ASSUME ~Replayed(r), Free(t, KeyLock(r)),
             tx' = [tx EXCEPT ![t].pc = "user", ![t].locks = @ \cup KeyLock(r)],
             UNCHANGED <<scan, told, sent, edge, now>>
      PROVE  TradeInv'
  <2> HIDE DEF r
  <2>1. /\ DOMAIN tx' = Tx /\ \A u \in Tx : u # t => tx'[u] = tx[u]
        /\ SameCall(tx[t], tx'[t]) /\ tx'[t].caller = tx[t].caller
        /\ tx'[t].pc = "user" /\ tx'[t].locks = tx[t].locks \cup KeyLock(r)
    BY <1>2, <1>5 DEF SameCall, Fields
  <2>2. r \in Keyed => ledger[r] # "completed"
    BY <1>5 DEF Replayed
  <2>3. Sound(tx'[t], offers, ledger)
    BY <1>2, <2>1, <2>2 DEF Sound, Working, HasKey, Places, SameCall, r
  <2> QED
    BY <1>1, <1>2, <1>5, <2>1, <2>3, GoOn DEF Typed, edge
<1>6. Wants(t) = KeyLock(r)
  BY <1>1 DEF Wants
<1> QED
  BY <1>3, <1>4, <1>5, <1>6 DEF LockKey

\* The user is locked, or has used up the limit.
LEMMA LockUserStep ==
    ASSUME TradeInv, NEW t \in Tx, LockUser(t)
    PROVE  TradeInv'
<1> DEFINE L == {<<"user", UserOf[tx[t].req]>>}
           next == IF tx[t].mode = "approve" THEN "late" ELSE "exec"
<1>1. Typed /\ tx[t].pc = "user" /\ UNCHANGED <<offers, ledger, trades>>
  BY DEF TradeInv, LockUser, home
<1>2. /\ tx[t] # Idle /\ DOMAIN tx = Tx /\ DOMAIN tx[t] = Fields /\ tx[t].pc \in Places
      /\ Sound(tx[t], offers, ledger)
  BY <1>1, PlaceIsWork DEF Places
<1>3. CASE Finish(t, "refused")
  BY <1>1, <1>2, <1>3, FinishStep DEF Answers
<1>4. ASSUME Free(t, L),
             tx' = [tx EXCEPT ![t].pc = next, ![t].locks = @ \cup L],
             UNCHANGED <<scan, told, sent, edge, now>>
      PROVE  TradeInv'
  <2> HIDE DEF L, next
  <2>1. /\ DOMAIN tx' = Tx /\ \A u \in Tx : u # t => tx'[u] = tx[u]
        /\ SameCall(tx[t], tx'[t]) /\ tx'[t].caller = tx[t].caller
        /\ tx'[t].pc = next /\ tx'[t].locks = tx[t].locks \cup L
    BY <1>2, <1>4 DEF SameCall, Fields
  <2>2. /\ tx[t].mode = "approve" => next = "late"
        /\ tx[t].mode = "direct" => next = "exec"
    BY DEF next
  <2>3. Sound(tx'[t], offers, ledger)
    BY <1>1, <1>2, <2>1, <2>2 DEF Sound, Working, HasKey, Places, SameCall
  <2> QED
    BY <1>1, <1>2, <1>4, <2>1, <2>3, GoOn DEF Typed, edge
<1>5. Wants(t) = L
  BY <1>1 DEF Wants
<1> QED
  BY <1>3, <1>4, <1>5 DEF LockUser

\* An approval takes the lock of the key after the user.
LEMMA LockKeyLateStep ==
    ASSUME TradeInv, NEW t \in Tx, LockKeyLate(t)
    PROVE  TradeInv'
<1> DEFINE L == KeyLock(tx[t].req)
<1>1. Typed /\ tx[t].pc = "late"
  BY DEF TradeInv, LockKeyLate
<1>2. /\ tx[t] # Idle /\ DOMAIN tx = Tx /\ DOMAIN tx[t] = Fields
      /\ Sound(tx[t], offers, ledger)
  BY <1>1, PlaceIsWork DEF Places
<1>0. Wants(t) = L
  BY <1>1 DEF Wants
<1>3. /\ Free(t, L) /\ tx' = [tx EXCEPT ![t].pc = "exec", ![t].locks = @ \cup L]
      /\ UNCHANGED <<offers, ledger, trades, told, since, now>>
  BY <1>0 DEF LockKeyLate, home, edge
<1> HIDE DEF L
<1>4. /\ DOMAIN tx' = Tx /\ \A u \in Tx : u # t => tx'[u] = tx[u]
      /\ SameCall(tx[t], tx'[t]) /\ tx'[t].caller = tx[t].caller
      /\ tx'[t].pc = "exec" /\ tx'[t].locks = tx[t].locks \cup L
  BY <1>2, <1>3 DEF SameCall, Fields
<1>5. Sound(tx'[t], offers, ledger)
  BY <1>1, <1>2, <1>4 DEF Sound, Working, HasKey, Places, SameCall, L
<1> QED
  BY <1>1, <1>2, <1>3, <1>4, <1>5, GoOn DEF Typed

\* The execution lock of the offer is taken, or the session gives up.
LEMMA LockExecutionStep ==
    ASSUME TradeInv, NEW t \in Tx, LockExecution(t)
    PROVE  TradeInv'
<1> DEFINE L == {<<"exec", OfferOf[tx[t].req]>>}
<1>1. Typed /\ tx[t].pc = "exec" /\ UNCHANGED <<offers, ledger, trades>>
  BY DEF TradeInv, LockExecution, home
<1>2. /\ tx[t] # Idle /\ DOMAIN tx = Tx /\ DOMAIN tx[t] = Fields /\ tx[t].pc \in Places
      /\ Sound(tx[t], offers, ledger)
  BY <1>1, PlaceIsWork DEF Places
<1>3. CASE Finish(t, "busy")
  BY <1>1, <1>2, <1>3, FinishStep DEF Answers
<1>4. ASSUME Free(t, L),
             tx' = [tx EXCEPT ![t].pc = "row", ![t].gated = FALSE, ![t].locks = @ \cup L],
             UNCHANGED <<scan, told, sent, edge, now>>
      PROVE  TradeInv'
  <2> HIDE DEF L
  <2>1. /\ DOMAIN tx' = Tx /\ \A u \in Tx : u # t => tx'[u] = tx[u]
        /\ SameCall(tx[t], tx'[t]) /\ tx'[t].caller = tx[t].caller
        /\ tx'[t].pc = "row" /\ tx'[t].locks = tx[t].locks \cup L
    BY <1>2, <1>4 DEF SameCall, Fields
  <2>2. Sound(tx'[t], offers, ledger)
    BY <1>1, <1>2, <2>1 DEF Sound, Working, HasKey, Places, SameCall
  <2> QED
    BY <1>1, <1>2, <1>4, <2>1, <2>2, GoOn DEF Typed, edge
<1> QED
  BY <1>3, <1>4 DEF LockExecution

\* The offer is read under its lock.
LEMMA LockOfferStep ==
    ASSUME TradeInv, NEW t \in Tx, LockOffer(t)
    PROVE  TradeInv'
<1> DEFINE o == OfferOf[tx[t].req]
           L == {<<"offer", o>>}
<1>1. Typed /\ tx[t].pc = "row"
  BY DEF TradeInv, LockOffer
<1>2. /\ tx[t] # Idle /\ DOMAIN tx = Tx /\ DOMAIN tx[t] = Fields
      /\ Sound(tx[t], offers, ledger)
  BY <1>1, PlaceIsWork DEF Places
<1>0. Wants(t) = L
  BY <1>1 DEF Wants
<1>3. /\ Free(t, L)
      /\ tx' = [tx EXCEPT ![t].pc = "decide", ![t].view = offers[o], ![t].locks = @ \cup L]
      /\ UNCHANGED <<offers, ledger, trades, told, since, now>>
  BY <1>0 DEF LockOffer, home, edge
<1>4. <<"offer", o>> \in L
  OBVIOUS
<1> HIDE DEF L, o
<1>5. /\ DOMAIN tx' = Tx /\ \A u \in Tx : u # t => tx'[u] = tx[u]
      /\ SameCall(tx[t], tx'[t]) /\ tx'[t].caller = tx[t].caller
      /\ tx'[t].pc = "decide" /\ tx'[t].locks = tx[t].locks \cup L /\ tx'[t].view = offers[o]
  BY <1>2, <1>3 DEF SameCall, Fields
<1>6. Sound(tx'[t], offers, ledger)
  BY <1>1, <1>2, <1>4, <1>5 DEF Sound, Working, HasKey, Places, SameCall, o
<1> QED
  BY <1>1, <1>2, <1>3, <1>5, <1>6, GoOn DEF Typed

\* An aborted transaction runs again without locks, or fails for good.
LEMMA FailStep ==
    ASSUME TradeInv, NEW t \in Tx, Fail(t)
    PROVE  TradeInv'
<1>1. /\ Typed /\ tx[t].pc \in Places /\ UNCHANGED <<offers, ledger, trades>>
  BY DEF TradeInv, Fail, home, Places
<1>2. /\ DOMAIN tx = Tx /\ Working(tx[t])
  BY <1>1, AtWork DEF Typed
<1>3. CASE Finish(t, "error")
  BY <1>1, <1>3, FinishStep DEF Answers
<1>4. CASE ~Finish(t, "error")
  <2> DEFINE old == tx[t]
             n == Session(old.req, old.mode, old.caller, old.at, old.gated)
             pc == IF old.mode = "approve" THEN "relock" ELSE "key"
             tries == Min({old.tries + 1, case.tries})
             s == [n EXCEPT !.tries = tries, !.pc = pc, !.locks = {}]
  <2>1. tx' = [tx EXCEPT ![t] = s] /\ UNCHANGED <<told, since, now>>
    BY <1>4 DEF Fail, edge
  <2>2. /\ DOMAIN n = Fields
        /\ n.req = old.req /\ n.mode = old.mode /\ n.caller = old.caller /\ n.at = old.at
    BY DEF Session, Fields
  <2> HIDE DEF n, pc, tries
  <2>3. /\ DOMAIN s = Fields /\ s.pc = pc /\ s.locks = {}
        /\ s.req = old.req /\ s.mode = old.mode /\ s.caller = old.caller /\ s.at = old.at
    BY <2>2 DEF Fields
  <2>4. DOMAIN tx' = Tx /\ tx'[t] = s /\ \A u \in Tx : u # t => tx'[u] = tx[u]
    BY <1>2, <2>1
  <2> HIDE DEF s
  <2>5. (pc = "relock" /\ old.mode = "approve") \/ pc = "key"
    BY DEF pc
  <2>6. Sound(s, offers, ledger)
    BY <1>2, <2>3, <2>5 DEF Sound, Working, HasKey, Places
  <2>7. Free(t, s.locks)
    BY <2>3 DEF Free
  <2> QED
    BY <1>1, <2>1, <2>4, <2>6, <2>7, SessionStep DEF Typed
<1> QED
  BY <1>3, <1>4

\* A retried approval has its row again.
LEMMA RelockStep ==
    ASSUME TradeInv, NEW t \in Tx, Relock(t)
    PROVE  TradeInv'
<1> DEFINE L == {<<"row", tx[t].req>>}
<1>0. Wants(t) = L
  BY DEF Relock, Wants
<1>1. /\ Typed /\ tx[t].pc = "relock" /\ Free(t, L)
      /\ tx' = [tx EXCEPT ![t].pc = "user", ![t].locks = L]
      /\ UNCHANGED <<offers, ledger, trades, told, since, now>>
  BY <1>0 DEF TradeInv, Relock, home, edge
<1> HIDE DEF L
<1>2. /\ tx[t] # Idle /\ DOMAIN tx = Tx /\ DOMAIN tx[t] = Fields
      /\ Sound(tx[t], offers, ledger)
  BY <1>1, PlaceIsWork DEF Places
<1>3. /\ DOMAIN tx' = Tx /\ \A u \in Tx : u # t => tx'[u] = tx[u]
      /\ SameCall(tx[t], tx'[t]) /\ tx'[t].caller = tx[t].caller
      /\ tx'[t].pc = "user" /\ tx'[t].locks = L
  BY <1>1, <1>2 DEF SameCall, Fields
<1>4. tx[t].mode = "approve"
  BY <1>1, <1>2 DEF Sound, Working
<1>5. Sound(tx'[t], offers, ledger)
  BY <1>2, <1>3, <1>4 DEF Sound, Working, HasKey, Places, SameCall
<1> QED
  BY <1>1, <1>3, <1>5, SessionStep DEF Typed

\* The caller stops waiting; the session goes on without it.
LEMMA GoneStep ==
    ASSUME TradeInv, NEW t \in Tx,
           Disconnect(t) \/ TimeOut(t) \/ Break(t) \/ ReplayFails(t)
    PROVE  TradeInv'
<1>1. /\ Typed /\ tx[t] # Idle
      /\ tx' = [tx EXCEPT ![t].caller = "gone"]
      /\ UNCHANGED <<offers, ledger, trades, now>>
  BY DEF TradeInv, Disconnect, TimeOut, Break, ReplayFails, home
<1>2. DOMAIN tx = Tx /\ Working(tx[t]) /\ Sound(tx[t], offers, ledger) /\ Held(t) = tx[t].locks
  BY <1>1, NotIdle DEF Typed
<1>3. /\ DOMAIN tx' = Tx /\ \A u \in Tx : u # t => tx'[u] = tx[u]
      /\ SameCall(tx[t], tx'[t]) /\ tx'[t].caller = "gone"
      /\ tx'[t].pc = tx[t].pc /\ tx'[t].locks = tx[t].locks /\ tx'[t].view = tx[t].view
  BY <1>1, <1>2 DEF SameCall, Working, Fields
<1>4. Sound(tx'[t], offers, ledger)
  BY <1>2, <1>3 DEF Sound, Working, HasKey, SameCall
<1>5. told' \in [Requests -> {"none"} \cup Answers]
  <2>1. \/ told' = told \/ told' = [told EXCEPT ![tx[t].req] = "pending"]
        \/ told' = [told EXCEPT ![tx[t].req] = "timeout"]
        \/ told' = [told EXCEPT ![tx[t].req] = "unreachable"]
    BY DEF Disconnect, TimeOut, Break, ReplayFails
  <2> QED
    BY <1>1, <2>1 DEF Typed, Answers
<1>6. since' \in [Requests -> Nat]
  <2>1. CASE since' = since
    BY <1>1, <2>1 DEF Typed
  <2>2. CASE TimeOut(t)
    <3>1. tx[t].at \in Nat
      BY <1>2 DEF Working
    <3>2. \/ since' = since
          \/ since' = [since EXCEPT ![tx[t].req] = IF pending[tx[t].req] = None THEN tx[t].at ELSE @]
      BY <2>2 DEF TimeOut, edge
    <3>3. CASE since' = [since EXCEPT ![tx[t].req] = tx[t].at]
      BY <1>1, <3>1, <3>3 DEF Typed
    <3>4. CASE since' = [since EXCEPT ![tx[t].req] = @]
      BY <1>1, <3>4 DEF Typed
    <3> QED
      BY <2>1, <3>2, <3>3, <3>4
  <2> QED
    BY <2>1, <2>2 DEF Disconnect, Break, ReplayFails, edge
<1>7. Free(t, tx'[t].locks)
  BY <1>2, <1>3 DEF Free, TradeInv, LocksApart
<1> QED
  BY <1>1, <1>3, <1>4, <1>5, <1>6, <1>7, SessionStep DEF Typed

\* A call is lost.
LEMMA LoseStep ==
    ASSUME TradeInv, NEW t \in Tx, Lose(t)
    PROVE  TradeInv'
<1>1. Typed /\ DOMAIN tx = Tx
  BY DEF TradeInv, Typed
<1>2. /\ DOMAIN tx' = Tx /\ \A u \in Tx : u # t => tx'[u] = tx[u]
      /\ tx'[t] = Idle \/ (Sound(tx'[t], offers, ledger) /\ Free(t, tx'[t].locks))
      /\ UNCHANGED <<offers, ledger, trades>>
      /\ told' \in [Requests -> {"none"} \cup Answers]
      /\ since' \in [Requests -> Nat] /\ now' \in Nat
  BY <1>1 DEF Lose, Typed, home, edge
<1> QED
  BY <1>2, SessionStep, Zenon

\* A decision that changes at most the row of the key, and not to completed.
LEMMA RowWritten ==
    ASSUME TradeInv, NEW t \in Tx, tx[t].pc = "decide", NEW a \in Answers, Finish(t, a),
           NEW s \in Statuses \ {"completed"},
           \/ ledger' = ledger
           \/ /\ tx[t].req \in Keyed /\ ledger[tx[t].req] # "completed"
              /\ ledger' = [ledger EXCEPT ![tx[t].req] = s],
           UNCHANGED <<offers, trades>>
    PROVE  TradeInv'
<1> DEFINE r == tx[t].req
<1>1. Typed /\ KeyCounted /\ r \in Requests
  BY PlaceIsWork DEF TradeInv, Places
<1> HIDE DEF r
<1>2. /\ ledger' \in [Requests -> Statuses]
      /\ \A q \in Requests : q # r \/ q \notin Keyed => KeptOrClosed(q)
      /\ \A q \in Requests : ledger'[q] = "completed" <=> ledger[q] = "completed"
  BY <1>1 DEF Typed, KeptOrClosed, r
<1>3. KeyCounted'
  BY <1>1, <1>2, OfferTradeAssumption DEF KeyCounted
<1> QED
  BY <1>1, <1>2, <1>3, CommitStep DEF Typed, r

\* The decisions that trade nothing.
LEMMA NoTradeStep ==
    ASSUME TradeInv, NEW t \in Tx, AskOwner(t) \/ RepeatRefusal(t) \/ Refuse(t) \/ TooLate(t)
    PROVE  TradeInv'
<1> DEFINE r == tx[t].req
<1>1. tx[t].pc = "decide"
  BY DEF AskOwner, RepeatRefusal, Refuse, TooLate, ReachesOffer, Direct, Deciding
<1>2. /\ "refused" \in Answers /\ "overtime" \in Answers /\ "error" \in Answers
      /\ \A s \in {"overtime", "closed", "expired", "rule", "lot"} : s \in Statuses \ {"completed"}
  BY DEF Answers, Statuses, Rejections
<1>3. PICK a \in Answers : Finish(t, a)
  BY <1>2 DEF AskOwner, RepeatRefusal, Refuse, TooLate, Refusal
<1>4. UNCHANGED <<offers, trades>>
  BY DEF AskOwner, RepeatRefusal, Refuse, TooLate, Refusal, home
<1>5. ASSUME NEW s \in {"expired", "rule", "lot"}, Refusal(t, s)
      PROVE  \E n \in Statuses \ {"completed"} :
                \/ ledger' = ledger
                \/ /\ r \in Keyed /\ ledger[r] # "completed"
                   /\ ledger' = [ledger EXCEPT ![r] = n]
  BY <1>2, <1>5 DEF Refusal
<1>6. \E n \in Statuses \ {"completed"} :
          \/ ledger' = ledger
          \/ /\ r \in Keyed /\ ledger[r] # "completed"
             /\ ledger' = [ledger EXCEPT ![r] = n]
  <2>1. CASE AskOwner(t)
    BY <1>2, <2>1 DEF AskOwner
  <2>2. CASE Refuse(t)
    BY <1>2, <1>5, <2>2 DEF Refuse, home
  <2>3. CASE RepeatRefusal(t) \/ TooLate(t)
    BY <1>2, <2>3 DEF RepeatRefusal, TooLate, home
  <2> QED
    BY <2>1, <2>2, <2>3
<1> HIDE DEF r
<1>7. PICK n \in Statuses \ {"completed"} :
          \/ ledger' = ledger
          \/ /\ r \in Keyed /\ ledger[r] # "completed"
             /\ ledger' = [ledger EXCEPT ![r] = n]
  BY <1>6
<1> QED
  BY <1>1, <1>3, <1>4, <1>7, RowWritten DEF r

\* What a trade writes.
LEMMA TradeWrites ==
    ASSUME TradeInv, NEW t \in Tx, Trade(t)
    PROVE  /\ tx[t].pc = "decide" /\ tx[t].req \in Requests /\ OfferOf[tx[t].req] \in Offers
           /\ Finish(t, "created")
           /\ ledger' \in [Requests -> Statuses]
           /\ \A q \in Requests : q # tx[t].req \/ q \notin Keyed => KeptOrClosed(q)
           /\ tx[t].req \in Keyed => ledger'[tx[t].req] = "completed"
           /\ tx[t].req \in Keyed => ledger[tx[t].req] \notin Rejections \cup {"closed"}
           /\ trades' \in [Requests -> Nat]
           /\ \A q \in Requests : q # tx[t].req => trades'[q] = trades[q]
           /\ tx[t].req \in Keyed =>
                \/ trades[tx[t].req] > 0 /\ trades' = trades
                \/ ~(trades[tx[t].req] > 0) /\ trades'[tx[t].req] = trades[tx[t].req] + 1
           /\ DOMAIN offers' = Offers
           /\ \A p \in Offers : p # OfferOf[tx[t].req] => offers'[p] = offers[p]
<1> DEFINE r == tx[t].req
           o == OfferOf[r]
           after == Leftover(Traded(tx[t].view, Amount[r]), o, tx[t].mode)
<1>1. tx[t].pc = "decide" /\ Finish(t, "created") /\ ~FinalRow(r)
  BY DEF Trade, ReachesOffer, Direct, Deciding
<1>2. Typed /\ r \in Requests /\ o \in Offers
  BY <1>1, PlaceIsWork DEF TradeInv, Places
<1>3. PICK rows : /\ rows = ledger \/ rows = ClosedWith(o)
                  /\ ledger' = IF r \in Keyed THEN [rows EXCEPT ![r] = "completed"] ELSE rows
  BY DEF Trade
<1>4. \/ AlreadyTraded(r) /\ offers' = offers /\ trades' = trades
      \/ /\ ~AlreadyTraded(r)
         /\ offers' = [offers EXCEPT ![o] = after]
         /\ trades' = [trades EXCEPT ![r] = @ + 1]
  BY DEF Trade
<1> HIDE DEF r, o, after
<1>5. /\ ledger' \in [Requests -> Statuses]
      /\ \A q \in Requests : q # r \/ q \notin Keyed => KeptOrClosed(q)
      /\ r \in Keyed => ledger'[r] = "completed"
  <2>1. /\ rows \in [Requests -> Statuses]
        /\ \A q \in Requests : rows[q] = ledger[q] \/ (ledger[q] = "overtime" /\ rows[q] = "closed")
    BY <1>2, <1>3 DEF ClosedWith, Typed, Statuses
  <2>2. CASE r \in Keyed
    BY <1>2, <1>3, <2>1, <2>2 DEF Statuses, KeptOrClosed
  <2>3. CASE r \notin Keyed
    BY <1>3, <2>1, <2>3 DEF KeptOrClosed
  <2> QED
    BY <2>2, <2>3
<1>6. r \in Keyed => ledger[r] \notin Rejections \cup {"closed"}
  BY <1>1 DEF FinalRow, r
<1>7. /\ trades' \in [Requests -> Nat]
      /\ \A q \in Requests : q # r => trades'[q] = trades[q]
      /\ \/ AlreadyTraded(r) /\ trades' = trades
         \/ ~AlreadyTraded(r) /\ trades'[r] = trades[r] + 1
  BY <1>2, <1>4 DEF Typed
<1>8. DOMAIN offers' = Offers /\ \A p \in Offers : p # o => offers'[p] = offers[p]
  BY <1>2, <1>4 DEF Typed
<1> QED
  BY <1>1, <1>2, <1>5, <1>6, <1>7, <1>8 DEF AlreadyTraded, r, o

\* A trade.
LEMMA TradeStep ==
    ASSUME TradeInv, NEW t \in Tx, Trade(t)
    PROVE  TradeInv'
<1> DEFINE r == tx[t].req
<1>1. /\ tx[t].pc = "decide" /\ r \in Requests
      /\ Finish(t, "created")
      /\ ledger' \in [Requests -> Statuses]
      /\ \A q \in Requests : q # r \/ q \notin Keyed => KeptOrClosed(q)
      /\ r \in Keyed => ledger'[r] = "completed"
      /\ trades' \in [Requests -> Nat]
      /\ \A q \in Requests : q # r => trades'[q] = trades[q]
      /\ r \in Keyed => \/ trades[r] > 0 /\ trades' = trades
                        \/ ~(trades[r] > 0) /\ trades'[r] = trades[r] + 1
      /\ DOMAIN offers' = Offers
      /\ \A p \in Offers : p # OfferOf[r] => offers'[p] = offers[p]
  BY TradeWrites
<1>2. Typed /\ KeyCounted
  BY DEF TradeInv
<1> HIDE DEF r
<1>3. ASSUME NEW q \in Keyed
      PROVE  trades'[q] = IF ledger'[q] = "completed" THEN 1 ELSE 0
  <2>1. q \in Requests /\ trades[q] = IF ledger[q] = "completed" THEN 1 ELSE 0
    BY <1>2, OfferTradeAssumption DEF KeyCounted
  <2>2. CASE q # r
    BY <1>1, <2>1, <2>2 DEF KeptOrClosed
  <2>3. CASE q = r
    BY <1>1, <1>2, <2>1, <2>3 DEF Typed
  <2> QED
    BY <2>2, <2>3
<1>4. KeyCounted'
  BY <1>3 DEF KeyCounted
<1> QED
  BY <1>1, <1>4, CommitStep DEF Answers, r

\* Rows are written beside the sessions.
LEMMA EndStep ==
    ASSUME TradeInv,
           \/ \E r \in Requests : CloseOvertime(r)
           \/ \E o \in Offers : ExpireByOwner(o)
           \/ ExpiryWrite
    PROVE  TradeInv'
<1>1. Typed /\ DOMAIN offers = Offers /\ ledger \in [Requests -> Statuses]
  BY DEF TradeInv, Typed
<1>2. \A o : /\ ClosedWith(o) \in [Requests -> Statuses]
             /\ \A q \in Requests : ClosedWith(o)[q] = "completed" <=> ledger[q] = "completed"
  BY <1>1 DEF ClosedWith, Statuses
<1>3. ASSUME NEW r \in Requests, CloseOvertime(r)
      PROVE  TradeInv'
  <2>1. /\ ledger' \in [Requests -> Statuses]
        /\ \A q \in Requests : ledger'[q] = "completed" <=> ledger[q] = "completed"
    BY <1>1, <1>3 DEF CloseOvertime, Statuses
  <2>2. UNCHANGED <<offers, trades, tx, told, since, now>>
    BY <1>3 DEF CloseOvertime, edge
  <2>3. {} \in SUBSET Offers
    OBVIOUS
  <2> QED
    BY <1>1, <2>1, <2>2, <2>3, BesideStep
<1>4. ASSUME NEW o \in Offers, ExpireByOwner(o)
      PROVE  TradeInv'
  <2>1. /\ ledger' = ClosedWith(o)
        /\ \A t \in Tx : <<"offer", o>> \notin Held(t)
        /\ UNCHANGED <<trades, tx, told, since, now>>
    BY <1>4 DEF ExpireByOwner, edge
  <2>2. DOMAIN offers' = Offers /\ \A p \in Offers : p \notin {o} => offers'[p] = offers[p]
    BY <1>1, <1>4 DEF ExpireByOwner
  <2> QED
    BY <1>2, <2>1, <2>2, BesideStep
<1>5. CASE ExpiryWrite
  <2> DEFINE o == scan[1]
             O == {o} \cap Offers
  <2>1. /\ ledger' = ClosedWith(o) \/ ledger' = ledger
        /\ \A t \in Tx : <<"offer", o>> \notin Held(t)
        /\ UNCHANGED <<trades, tx, told, since, now>>
        /\ offers' = [offers EXCEPT ![o] = Expired(scan[2], "time_limit")] \/ offers' = offers
    BY <1>5 DEF ExpiryWrite, edge
  <2> HIDE DEF o
  <2>2. DOMAIN offers' = Offers /\ \A p \in Offers : p \notin O => offers'[p] = offers[p]
    BY <1>1, <2>1
  <2>3. /\ ledger' \in [Requests -> Statuses]
        /\ \A q \in Requests : ledger'[q] = "completed" <=> ledger[q] = "completed"
    BY <1>1, <1>2, <2>1
  <2>4. O \in SUBSET Offers /\ \A p \in O : \A t \in Tx : <<"offer", p>> \notin Held(t)
    BY <2>1
  <2> HIDE DEF O
  <2> QED
    BY <2>1, <2>2, <2>3, <2>4, BesideStep
<1> QED
  BY <1>3, <1>4, <1>5

\* No session and no row changes.
LEMMA QuietStep ==
    ASSUME TradeInv, UNCHANGED <<offers, ledger, trades, tx>>,
           told' \in [Requests -> {"none"} \cup Answers],
           since' \in [Requests -> Nat], now' \in Nat
    PROVE  TradeInv'
BY DEF TradeInv, Typed, SessionsSound, LocksApart, Held, KeyCounted

\* Every step keeps the invariant.
LEMMA NextTradeInv == TradeInv /\ [Next]_vars => TradeInv'
<1> SUFFICES ASSUME TradeInv, [Next]_vars PROVE TradeInv'
  OBVIOUS
<1>1. Typed
  BY DEF TradeInv
<1>2. ASSUME NEW t \in Tx, NEW r \in Requests,
             Receive(t, r) \/ Forward(t, r) \/ Approve(t, r) \/ Replay(t, r)
      PROVE  TradeInv'
  BY <1>2, StartStep
<1>3. ASSUME NEW t \in Tx, Execute(t)
      PROVE  TradeInv'
  BY <1>3, ArriveStep, LockKeyStep, LockUserStep, LockKeyLateStep, LockExecutionStep,
     LockOfferStep, NoTradeStep, TradeStep, RelockStep DEF Execute
<1>4. ASSUME NEW t \in Tx, Forbid(t)
      PROVE  TradeInv'
  <2>1. tx[t].pc \in Places /\ Finish(t, "forbidden") /\ UNCHANGED <<offers, ledger, trades>>
    BY <1>4 DEF Forbid, Places, home
  <2> QED
    BY <2>1, FinishStep DEF Answers
<1>5. ASSUME NEW t \in Tx, Fail(t) \/ Lose(t) \/ Disconnect(t) \/ TimeOut(t) \/ Break(t)
                           \/ ReplayFails(t)
      PROVE  TradeInv'
  BY <1>5, FailStep, LoseStep, GoneStep
<1>6. CASE \/ \E r \in Requests : CloseOvertime(r)
           \/ \E o \in Offers : ExpireByOwner(o)
           \/ ExpiryWrite
  BY <1>6, EndStep
<1>7. CASE Tick
  BY <1>1, <1>7, QuietStep DEF Tick, Typed, home, edge
<1>8. ASSUME NEW r \in Requests, GateFull(r)
      PROVE  TradeInv'
  <2>1. told' \in [Requests -> {"none"} \cup Answers]
    BY <1>1, <1>8 DEF GateFull, Typed, Answers
  <2> QED
    BY <1>1, <1>8, <2>1, QuietStep DEF GateFull, Typed, home, edge
<1>9. CASE \/ \E r \in Requests : Forget(r)
           \/ \E o \in Offers : ExpiryScan(o)
           \/ SourceRestart
           \/ UNCHANGED vars
  BY <1>1, <1>9, QuietStep DEF Forget, ExpiryScan, SourceRestart, vars, Typed, home, edge
<1> QED
  BY <1>2, <1>3, <1>4, <1>5, <1>6, <1>7, <1>8, <1>9 DEF Next, Step

\* The invariant of every reachable state.
LEMMA TradeInvariant == Spec => []TradeInv
<1>1. QED
  BY InitTradeInv, NextTradeInv, PTL DEF Spec

-----------------------------------------------------------------------------
(* Theorems.                                                               *)

\* What a step does to the ledger: a final row stays.
LEMMA FinalRowStays ==
    ASSUME TradeInv, Next, NEW r \in Keyed,
           ledger[r] \in Rejections \cup {"completed", "closed"}
    PROVE  ledger'[r] = ledger[r]
<1>1. Typed /\ r \in Requests /\ ledger[r] \notin {"none", "overtime"}
  BY OfferTradeAssumption DEF TradeInv, Rejections
<1>2. ASSUME NEW t \in Tx, AskOwner(t)
      PROVE  ledger'[r] = ledger[r]
  BY <1>1, <1>2 DEF AskOwner, Typed
<1>3. ASSUME NEW t \in Tx, NEW s, Refusal(t, s)
      PROVE  ledger'[r] = ledger[r]
  BY <1>1, <1>3 DEF Refusal, Typed
<1>4. ASSUME NEW t \in Tx, Refuse(t)
      PROVE  ledger'[r] = ledger[r]
  BY <1>3, <1>4 DEF Refuse, home
<1>5. ASSUME NEW t \in Tx, Trade(t)
      PROVE  ledger'[r] = ledger[r]
  <2>1. CASE tx[t].req = r
    BY <1>1, <1>5, <2>1, TradeWrites
  <2>2. CASE tx[t].req # r
    BY <1>1, <1>5, <2>2, TradeWrites DEF KeptOrClosed
  <2> QED
    BY <2>1, <2>2
<1>6. \A o : ClosedWith(o)[r] = ledger[r]
  BY <1>1 DEF ClosedWith
<1>7. CASE ExpiryWrite \/ \E o \in Offers : ExpireByOwner(o)
  BY <1>6, <1>7 DEF ExpiryWrite, ExpireByOwner
<1>8. ASSUME NEW q \in Requests, CloseOvertime(q)
      PROVE  ledger'[r] = ledger[r]
  BY <1>1, <1>8 DEF CloseOvertime, Typed
<1>9. ASSUME NEW t \in Tx, Execute(t)
      PROVE  ledger'[r] = ledger[r]
  <2>1. CASE Arrive(t) \/ LockKey(t) \/ LockUser(t) \/ LockKeyLate(t) \/ LockExecution(t)
             \/ LockOffer(t) \/ RepeatRefusal(t) \/ TooLate(t) \/ Relock(t)
    BY <2>1 DEF Arrive, LockKey, LockUser, LockKeyLate, LockExecution, LockOffer,
                RepeatRefusal, TooLate, Relock, home
  <2> QED
    BY <1>2, <1>4, <1>5, <1>9, <2>1 DEF Execute
<1>10. ASSUME NEW t \in Tx, \/ Forbid(t) \/ Fail(t) \/ Lose(t) \/ Disconnect(t) \/ TimeOut(t)
                            \/ Break(t) \/ ReplayFails(t)
       PROVE  ledger'[r] = ledger[r]
  BY <1>10 DEF Forbid, Fail, Lose, Disconnect, TimeOut, Break, ReplayFails, home
<1>11. ASSUME NEW t \in Tx, NEW q \in Requests,
              Receive(t, q) \/ Forward(t, q) \/ Approve(t, q) \/ Replay(t, q)
       PROVE  ledger'[r] = ledger[r]
  BY <1>11 DEF Receive, Forward, Approve, Replay, home
<1>12. CASE \/ Tick \/ SourceRestart
            \/ \E q \in Requests : GateFull(q) \/ Forget(q)
            \/ \E o \in Offers : ExpiryScan(o)
  BY <1>12 DEF Tick, SourceRestart, GateFull, Forget, ExpiryScan, home
<1> QED
  BY <1>7, <1>8, <1>9, <1>10, <1>11, <1>12 DEF Next, Step

\* The row of an idempotency key never leaves a final state, a refused key never
\* trades and a completed row stands for one trade, for any number of attempts,
\* retries, replays and approvals at once.
THEOREM KeysAreDecidedOnce == Spec => KeyDecidedOnce
<1> DEFINE Once == \A r \in Keyed :
                      /\ ledger[r] \in Rejections \cup {"completed", "closed"} =>
                            ledger'[r] = ledger[r]
                      /\ trades'[r] = IF ledger'[r] = "completed" THEN 1 ELSE 0
<1>1. TradeInv /\ TradeInv' /\ [Next]_vars => [Once]_vars
  <2> SUFFICES ASSUME TradeInv, TradeInv', Next PROVE Once
    OBVIOUS
  <2>1. \A r \in Keyed : trades'[r] = IF ledger'[r] = "completed" THEN 1 ELSE 0
    BY DEF TradeInv, KeyCounted
  <2> QED
    BY <2>1, FinalRowStays
<1> QED
  BY <1>1, TradeInvariant, PTL DEF Spec, KeyDecidedOnce

\* Only a trade counts one.
LEMMA OnlyTradesCount ==
    ASSUME TradeInv, Next, NEW r \in Requests, trades'[r] # trades[r]
    PROVE  \E t \in Tx : Trade(t) /\ tx[t].req = r
<1>1. PICK t \in Tx : Trade(t)
  <2>1. ASSUME NEW t \in Tx, Execute(t)
        PROVE  Trade(t)
    BY <2>1 DEF Execute, Arrive, LockKey, LockUser, LockKeyLate, LockExecution, LockOffer,
                AskOwner, RepeatRefusal, Refuse, Refusal, TooLate, Relock, home
  <2>2. ~(\E t \in Tx : \/ Forbid(t) \/ Fail(t) \/ Lose(t) \/ Disconnect(t) \/ TimeOut(t)
                        \/ Break(t) \/ ReplayFails(t))
    BY DEF Forbid, Fail, Lose, Disconnect, TimeOut, Break, ReplayFails, home
  <2>3. ~(\E t \in Tx : \E q \in Requests :
             Receive(t, q) \/ Forward(t, q) \/ Approve(t, q) \/ Replay(t, q))
    BY DEF Receive, Forward, Approve, Replay, home
  <2>4. ~(\/ Tick \/ SourceRestart \/ ExpiryWrite
          \/ \E q \in Requests : GateFull(q) \/ Forget(q) \/ CloseOvertime(q)
          \/ \E o \in Offers : ExpiryScan(o) \/ ExpireByOwner(o))
    BY DEF Tick, SourceRestart, GateFull, Forget, ExpiryScan, ExpiryWrite, CloseOvertime,
           ExpireByOwner, home
  <2> QED
    BY <2>1, <2>2, <2>3, <2>4 DEF Next, Step
<1> QED
  BY <1>1, TradeWrites

\* An offer that has ended trades only for a request that was received before the
\* normal deadline, at most the grace ago, and never after its owner ended it: the
\* session that trades still has the offer as it is, under its lock.
THEOREM EndedOffersTradeInFlight == Spec => EndedOfferTradesInFlightOnly
<1> DEFINE InTime(r) ==
              LET o == OfferOf[r]
              IN  \/ offers[o].status = "active"
                  \/ /\ offers[o].reason = "time_limit"
                     /\ \E t \in Tx : /\ tx[t] # Idle /\ tx'[t] = Idle /\ tx[t].req = r
                                      /\ tx[t].at < case.normal /\ now <= tx[t].at + GraceTicks
<1>1. TradeInv /\ [Next]_vars => [\A r \in Requests : trades'[r] # trades[r] => InTime(r)]_vars
  <2> SUFFICES ASSUME TradeInv, Next, NEW r \in Requests, trades'[r] # trades[r]
               PROVE  InTime(r)
    OBVIOUS
  <2>1. PICK t \in Tx : Trade(t) /\ tx[t].req = r
    BY OnlyTradesCount
  <2>2. tx[t].pc = "decide" /\ Finish(t, "created") /\ Open(t)
    BY <2>1 DEF Trade, ReachesOffer, Direct, Deciding
  <2>3. /\ tx[t] # Idle /\ DOMAIN tx = Tx /\ Sound(tx[t], offers, ledger)
    BY <2>2, PlaceIsWork DEF Places
  <2>4. tx[t].view = offers[OfferOf[r]] /\ tx[t].at \in Nat /\ now \in Nat
    BY <2>1, <2>2, <2>3 DEF Sound, Working, TradeInv, Typed
  <2>5. tx'[t] = Idle
    BY <2>2, <2>3 DEF Finish
  <2>6. \/ offers[OfferOf[r]].status = "active"
        \/ InFlight(offers[OfferOf[r]], tx[t].at, OfferOf[r])
    BY <2>1, <2>2, <2>4 DEF Open
  <2>7. ASSUME InFlight(offers[OfferOf[r]], tx[t].at, OfferOf[r])
        PROVE  /\ offers[OfferOf[r]].reason = "time_limit"
               /\ tx[t].at < case.normal /\ now <= tx[t].at + GraceTicks
    <3>1. /\ offers[OfferOf[r]].reason = "time_limit"
          /\ Intake(OfferOf[r], tx[t].at) = "automatic"
          /\ now - tx[t].at <= GraceTicks
      BY <2>7 DEF InFlight
    <3>2. tx[t].at < case.normal
      BY <3>1 DEF Intake
    <3> QED
      BY <2>4, <3>1, <3>2, OfferTradeAssumption
  <2> QED
    BY <2>1, <2>3, <2>5, <2>6, <2>7
<1> QED
  BY <1>1, TradeInvariant, PTL DEF Spec, EndedOfferTradesInFlightOnly

\* A session that has passed the check of its key denies no trade: its key has
\* none, or nobody waits for its answer.
LEMMA DenialIsTrue ==
    ASSUME TradeInv, NEW t \in Tx, tx[t].pc \in Places, HasKey(tx[t]) \/ tx[t].mode = "approve",
           NEW a, Finish(t, a), NEW r \in Keyed, trades[r] > 0
    PROVE  told'[r] = told[r]
<1>1. Typed /\ KeyCounted /\ r \in Requests
  BY OfferTradeAssumption DEF TradeInv
<1>2. Working(tx[t]) /\ Sound(tx[t], offers, ledger)
  BY AtWork
<1>3. ledger[r] = "completed"
  BY <1>1 DEF KeyCounted, Typed
<1>4. CASE tx[t].mode = "approve"
  BY <1>2, <1>4 DEF Working, Finish
<1>5. CASE tx[t].mode = "direct"
  <2>1. HasKey(tx[t])
    BY <1>5
  <2>2. tx[t].req # r
    BY <1>2, <1>3, <1>5, <2>1 DEF Sound
  <2> QED
    BY <1>1, <2>2 DEF Finish, Typed
<1> QED
  BY <1>2, <1>4, <1>5 DEF Working

\* Once the trade of a key is committed, no later answer denies it: a client that
\* lost the answer and repeats the request is told of the trade (the replay under
\* the lock of the key comes before every check that could refuse).
THEOREM CompletedIsNeverDenied == Spec => CompletedIsNotRefused
<1> DEFINE Kind == \A r \in Keyed :
                     trades[r] > 0 /\ told'[r] # told[r] => told'[r] \notin {"refused", "overtime"}
<1>1. TradeInv /\ [Next]_vars => [Kind]_vars
  <2> SUFFICES ASSUME TradeInv, Next, NEW r \in Keyed, trades[r] > 0, told'[r] # told[r]
               PROVE  told'[r] \notin {"refused", "overtime"}
    OBVIOUS
  <2>1. Typed /\ KeyCounted /\ r \in Requests
    BY OfferTradeAssumption DEF TradeInv
  <2>2. ledger[r] = "completed"
    BY <2>1 DEF KeyCounted, Typed
  <2>3. ASSUME NEW t \in Tx, NEW a, Finish(t, a), a \notin {"refused", "overtime"}
        PROVE  told'[r] \notin {"refused", "overtime"}
    BY <2>1, <2>3 DEF Finish, Typed
  <2>4. ASSUME NEW t \in Tx, LockKey(t)
        PROVE  told'[r] \notin {"refused", "overtime"}
    <3>1. CASE tx[t].req = r
      <4>1. Replayed(tx[t].req) /\ ReplayAnswer(ledger[tx[t].req]) = "created"
        BY <2>2, <3>1 DEF Replayed, ReplayAnswer
      <4>2. Finish(t, "created")
        BY <2>4, <4>1 DEF LockKey
      <4> QED
        BY <2>3, <4>2
    <3>2. CASE tx[t].req # r
      <4>1. told' = told \/ \E a : told' = [told EXCEPT ![tx[t].req] = a]
        BY <2>4 DEF LockKey, Finish
      <4> QED
        BY <2>1, <3>2, <4>1 DEF Typed
    <3> QED
      BY <3>1, <3>2
  <2>5. ASSUME NEW t \in Tx, LockUser(t)
        PROVE  FALSE
    <3>1. tx[t].pc = "user" /\ (Finish(t, "refused") \/ told' = told)
      BY <2>5 DEF LockUser
    <3>2. Working(tx[t]) /\ tx[t].pc \in Places
      BY <3>1, AtWork DEF Places
    <3>3. HasKey(tx[t]) \/ tx[t].mode = "approve"
      BY <3>1, <3>2 DEF HasKey, Working
    <3> QED
      BY <3>1, <3>2, <3>3, DenialIsTrue
  <2>6. ASSUME NEW t \in Tx, AskOwner(t) \/ RepeatRefusal(t) \/ Refuse(t)
        PROVE  FALSE
    <3>1. tx[t].pc = "decide"
      BY <2>6 DEF AskOwner, RepeatRefusal, Refuse, ReachesOffer, Direct, Deciding
    <3>2. Finish(t, "refused") \/ Finish(t, "overtime")
      BY <2>6 DEF AskOwner, RepeatRefusal, Refuse, Refusal
    <3>3. HasKey(tx[t]) /\ tx[t].pc \in Places
      BY <3>1 DEF HasKey, Places
    <3> QED
      BY <3>2, <3>3, DenialIsTrue
  <2>7. ASSUME NEW t \in Tx, LockExecution(t) \/ Trade(t) \/ TooLate(t) \/ Forbid(t) \/ Fail(t)
        PROVE  told'[r] \notin {"refused", "overtime"}
    <3>1. told' = told \/ \E a \in {"busy", "created", "error", "forbidden"} : Finish(t, a)
      BY <2>7 DEF LockExecution, Trade, TooLate, Forbid, Fail
    <3> QED
      BY <2>3, <3>1
  <2>8. ASSUME NEW t \in Tx,
               \/ Arrive(t) \/ LockKeyLate(t) \/ LockOffer(t) \/ Relock(t) \/ Lose(t)
               \/ Disconnect(t) \/ ReplayFails(t)
        PROVE  FALSE
    BY <2>8 DEF Arrive, LockKeyLate, LockOffer, Relock, Lose, Disconnect, ReplayFails
  <2>9. ASSUME NEW t \in Tx, TimeOut(t) \/ Break(t)
        PROVE  told'[r] \notin {"refused", "overtime"}
    <3>1. \E a \in {"pending", "timeout", "unreachable"} : told' = [told EXCEPT ![tx[t].req] = a]
      BY <2>9 DEF TimeOut, Break
    <3> QED
      BY <2>1, <3>1 DEF Typed
  <2>10. ASSUME NEW t \in Tx, NEW q \in Requests,
                Receive(t, q) \/ Forward(t, q) \/ Approve(t, q) \/ Replay(t, q)
         PROVE  told'[r] \notin {"refused", "overtime"}
    BY <2>1, <2>10 DEF Receive, Forward, Approve, Replay, Typed
  <2>11. ASSUME NEW q \in Requests, GateFull(q)
         PROVE  told'[r] \notin {"refused", "overtime"}
    BY <2>1, <2>11 DEF GateFull, Typed
  <2>12. ~(\/ Tick \/ SourceRestart \/ ExpiryWrite
           \/ \E q \in Requests : Forget(q) \/ CloseOvertime(q)
           \/ \E o \in Offers : ExpiryScan(o) \/ ExpireByOwner(o))
    BY DEF Tick, SourceRestart, Forget, ExpiryScan, ExpiryWrite, CloseOvertime, ExpireByOwner
  <2> QED
    BY <2>4, <2>5, <2>6, <2>7, <2>8, <2>9, <2>10, <2>11, <2>12 DEF Next, Step, Execute
<1> QED
  BY <1>1, TradeInvariant, PTL DEF Spec, CompletedIsNotRefused

-----------------------------------------------------------------------------
(* Sums over finite sets: what the library's folds compute.                *)

\* The element a fold takes next
Taken(s) == CHOOSE x \in s : TRUE

\* it[s] is the sum of f over s, for every part s of S
Sums(f, S, it) ==
    it = [s \in SUBSET S |-> IF s = {} THEN 0 ELSE f[Taken(s)] + it[s \ {Taken(s)}]]

\* A nonempty set has the element that is taken.
LEMMA TakenIn == ASSUME NEW s, s # {} PROVE Taken(s) \in s
BY DEF Taken

\* A nonempty set of natural numbers has a least one.
LEMMA LeastNumber ==
    ASSUME NEW S \in SUBSET Nat, S # {}
    PROVE  \E m \in S : \A u \in S : m <= u
<1> DEFINE R == OpToRel(<, Nat)
<1>1. IsWellFoundedOn(R, Nat)
  BY NatLessThanWellFounded
<1> HIDE DEF R
<1>2. PICK m \in S : \A y \in S : ~ (<<y, m>> \in R)
  BY <1>1, WFMin
<1>3. \A y \in S : ~(y < m)
  BY <1>2 DEF R, OpToRel
<1> QED
  BY <1>3

\* A part of a finite set with an element less is smaller.
LEMMA Smaller ==
    ASSUME NEW S, IsFiniteSet(S), NEW T \in SUBSET S
    PROVE  /\ IsFiniteSet(T) /\ Cardinality(T) \in Nat
           /\ Cardinality(T) <= Cardinality(S)
           /\ Cardinality(T) = 0 <=> T = {}
           /\ \A x \in T : /\ T \ {x} \in SUBSET S
                           /\ Cardinality(T \ {x}) \in Nat
                           /\ Cardinality(T \ {x}) = Cardinality(T) - 1
<1>1. IsFiniteSet(T) /\ Cardinality(T) <= Cardinality(S)
  BY FS_Subset
<1>2. Cardinality(T) \in Nat /\ (Cardinality(T) = 0 <=> T = {})
  BY <1>1, FS_CardinalityType, FS_EmptySet
<1>3. ASSUME NEW x \in T
      PROVE  Cardinality(T \ {x}) = Cardinality(T) - 1 /\ Cardinality(T \ {x}) \in Nat
  <2>1. IsFiniteSet(T \ {x}) /\ Cardinality(T \ {x}) = Cardinality(T) - 1
    BY <1>1, FS_RemoveElement
  <2> QED
    BY <2>1, FS_CardinalityType
<1> QED
  BY <1>1, <1>2, <1>3

\* Among some parts of a finite set one is smallest: every part of it that lacks one of
\* its elements is none of them.
LEMMA SmallestPart ==
    ASSUME NEW S, IsFiniteSet(S), NEW Bad \in SUBSET SUBSET S, Bad # {}
    PROVE  \E T \in Bad : \A x \in T : T \ {x} \in SUBSET S /\ T \ {x} \notin Bad
<1> DEFINE C == {Cardinality(T) : T \in Bad}
<1>1. \A T \in Bad : Cardinality(T) \in C
  OBVIOUS
<1>2. C \in SUBSET Nat /\ C # {}
  <2>1. C \in SUBSET Nat
    BY Smaller
  <2> QED
    BY <1>1, <2>1
<1>3. PICK m \in C : \A u \in C : m <= u
  BY <1>2, LeastNumber
<1>4. PICK T \in Bad : m = Cardinality(T)
  OBVIOUS
<1> HIDE DEF C
<1>5. ASSUME NEW x \in T
      PROVE  T \ {x} \in SUBSET S /\ T \ {x} \notin Bad
  <2>1. /\ T \ {x} \in SUBSET S /\ Cardinality(T) \in Nat /\ Cardinality(T \ {x}) \in Nat
        /\ Cardinality(T \ {x}) = Cardinality(T) - 1
    BY Smaller
  <2> QED
    BY <1>1, <1>3, <1>4, <2>1
<1> QED
  BY <1>5

\* The sums exist.
LEMMA SumsExist ==
    ASSUME NEW S, IsFiniteSet(S), NEW f
    PROVE  \E it : Sums(f, S, it)
<1> DEFINE P(n) == {s \in SUBSET S : Cardinality(s) <= n}
           Eq(n, it) == it = [s \in P(n) |-> IF s = {} THEN 0
                                             ELSE f[Taken(s)] + it[s \ {Taken(s)}]]
           Bad == {n \in Nat : ~ \E it : Eq(n, it)}
<1>1. \A s \in SUBSET S :
        /\ Cardinality(s) \in Nat /\ Cardinality(s) <= Cardinality(S)
        /\ Cardinality(s) = 0 <=> s = {}
        /\ s # {} => /\ s \ {Taken(s)} \in SUBSET S
                     /\ Cardinality(s \ {Taken(s)}) = Cardinality(s) - 1
  BY Smaller, TakenIn
<1>2. 0 \notin Bad
  <2> DEFINE it == [s \in P(0) |-> 0]
  <2>1. ASSUME NEW s \in P(0)
        PROVE  s = {}
    <3>1. s \in SUBSET S /\ Cardinality(s) <= 0
      OBVIOUS
    <3>2. Cardinality(s) \in Nat /\ (Cardinality(s) = 0 <=> s = {})
      BY <1>1, <3>1
    <3> QED
      BY <3>1, <3>2
  <2>2. Eq(0, it)
    BY <2>1
  <2> QED
    BY <2>2
<1>3. ASSUME NEW n \in Nat, n \notin Bad
      PROVE  n + 1 \notin Bad
  <2>1. PICK it : Eq(n, it)
    BY <1>3
  <2> DEFINE jt == [s \in P(n + 1) |-> IF s = {} THEN 0 ELSE f[Taken(s)] + it[s \ {Taken(s)}]]
  <2>2. ASSUME NEW s \in P(n)
        PROVE  s \in P(n + 1)
    <3>1. s \in SUBSET S /\ Cardinality(s) <= n
      OBVIOUS
    <3>2. Cardinality(s) \in Nat
      BY <1>1, <3>1
    <3> QED
      BY <3>1, <3>2
  <2>3. \A s \in P(n) : jt[s] = it[s]
    BY <2>1, <2>2
  <2>4. \A s \in P(n + 1) : s # {} => s \ {Taken(s)} \in P(n)
    BY <1>1
  <2>5. \A s \in P(n + 1) : s # {} => jt[s \ {Taken(s)}] = it[s \ {Taken(s)}]
    BY <2>3, <2>4
  <2> HIDE DEF P
  <2>6. Eq(n + 1, jt)
    <3>1. jt = [s \in P(n + 1) |-> IF s = {} THEN 0 ELSE f[Taken(s)] + jt[s \ {Taken(s)}]]
      BY <2>5
    <3> QED
      BY <3>1
  <2> QED
    BY <2>6
<1>4. Bad = {}
  <2> SUFFICES ASSUME Bad # {} PROVE FALSE
    OBVIOUS
  <2>1. Bad \in SUBSET Nat
    OBVIOUS
  <2> HIDE DEF Bad
  <2>2. PICK m \in Bad : \A u \in Bad : m <= u
    BY <2>1, LeastNumber
  <2>3. m \in Nat /\ m # 0
    BY <1>2, <2>1
  <2>4. m - 1 \in Nat /\ m - 1 \notin Bad
    BY <2>2, <2>3
  <2>5. (m - 1) + 1 \notin Bad
    BY <1>3, <2>4
  <2> QED
    BY <2>3, <2>5
<1>5. Cardinality(S) \in Nat
  BY FS_CardinalityType
<1>6. PICK it : Eq(Cardinality(S), it)
  BY <1>4, <1>5
<1>7. P(Cardinality(S)) = SUBSET S
  BY <1>1
<1> HIDE DEF P
<1>8. Sums(f, S, it)
  BY <1>6, <1>7 DEF Sums
<1> QED
  BY <1>8

\* What the sums are, part by part.
LEMMA SumsAre ==
    ASSUME NEW f, NEW S, NEW it, Sums(f, S, it)
    PROVE  /\ it[{}] = 0
           /\ \A s \in SUBSET S : s # {} => it[s] = f[Taken(s)] + it[s \ {Taken(s)}]
BY DEF Sums

\* Sums of integers are integers.
LEMMA SumsInt ==
    ASSUME NEW S, IsFiniteSet(S), NEW f, \A x \in S : f[x] \in Int, NEW it, Sums(f, S, it)
    PROVE  \A s \in SUBSET S : it[s] \in Int
<1> DEFINE Bad == {s \in SUBSET S : it[s] \notin Int}
<1> SUFFICES ASSUME Bad # {} PROVE FALSE
  OBVIOUS
<1>1. PICK s \in Bad : \A x \in s : s \ {x} \in SUBSET S /\ s \ {x} \notin Bad
  <2>1. Bad \in SUBSET SUBSET S
    OBVIOUS
  <2> HIDE DEF Bad
  <2> QED
    BY <2>1, SmallestPart
<1>2. s # {} /\ Taken(s) \in s
  <2>1. it[{}] = 0
    BY SumsAre
  <2>2. s # {}
    BY <2>1
  <2> QED
    BY <2>2, TakenIn
<1>3. it[s \ {Taken(s)}] \in Int
  BY <1>1, <1>2
<1>4. it[s] = f[Taken(s)] + it[s \ {Taken(s)}]
  BY <1>2, SumsAre
<1> QED
  BY <1>2, <1>3, <1>4

\* A sum of zeros is zero.
LEMMA SumsZero ==
    ASSUME NEW S, IsFiniteSet(S), NEW f, \A x \in S : f[x] = 0, NEW it, Sums(f, S, it)
    PROVE  \A s \in SUBSET S : it[s] = 0
<1> DEFINE Bad == {s \in SUBSET S : it[s] # 0}
<1> SUFFICES ASSUME Bad # {} PROVE FALSE
  OBVIOUS
<1>1. PICK s \in Bad : \A x \in s : s \ {x} \in SUBSET S /\ s \ {x} \notin Bad
  <2>1. Bad \in SUBSET SUBSET S
    OBVIOUS
  <2> HIDE DEF Bad
  <2> QED
    BY <2>1, SmallestPart
<1>2. it[{}] = 0
  BY SumsAre
<1>3. s # {} /\ Taken(s) \in s
  BY <1>2, TakenIn
<1>4. it[s \ {Taken(s)}] = 0
  BY <1>1, <1>3
<1>5. it[s] = f[Taken(s)] + it[s \ {Taken(s)}]
  BY <1>3, SumsAre
<1> QED
  BY <1>3, <1>4, <1>5

\* g is f but for q, where it is larger by a
Differ(f, g, C, q, a) == \A x \in C : f[x] \in Int /\ g[x] = IF x = q THEN f[x] + a ELSE f[x]

\* The sums in jt are those in it, larger by a where q is summed
DifferBy(it, jt, C, q, a) ==
    \A s \in SUBSET C : it[s] \in Int /\ jt[s] = IF q \in s THEN it[s] + a ELSE it[s]

\* When one summand is larger by a, so are the sums it is in; the sums need not be
\* over the same sets.
LEMMA SumsDiffer ==
    ASSUME NEW S, IsFiniteSet(S), NEW R, NEW f, NEW g, NEW it, NEW jt,
           Sums(f, S, it), Sums(g, R, jt),
           NEW C, C \subseteq S, C \subseteq R, NEW q, NEW a \in Int, Differ(f, g, C, q, a)
    PROVE  DifferBy(it, jt, C, q, a)
<1> DEFINE Bad == {s \in SUBSET C :
                     ~ (it[s] \in Int /\ jt[s] = IF q \in s THEN it[s] + a ELSE it[s])}
<1> SUFFICES ASSUME Bad # {} PROVE FALSE
  BY DEF DifferBy
<1>0. IsFiniteSet(C)
  BY FS_Subset
<1>1. PICK s \in Bad : \A x \in s : s \ {x} \in SUBSET C /\ s \ {x} \notin Bad
  <2>1. Bad \in SUBSET SUBSET C
    OBVIOUS
  <2> HIDE DEF Bad
  <2> QED
    BY <1>0, <2>1, SmallestPart
<1>2. it[{}] = 0 /\ jt[{}] = 0
  BY SumsAre
<1>3. s # {} /\ s \in SUBSET S /\ s \in SUBSET R
  <2>1. s \in SUBSET S /\ s \in SUBSET R
    OBVIOUS
  <2>2. q \notin {} /\ 0 \in Int
    OBVIOUS
  <2>3. s # {}
    BY <1>2, <2>2
  <2> QED
    BY <2>1, <2>3
<1>4. PICK x \in s : x = Taken(s)
  BY <1>3, TakenIn
<1>5. it[s] = f[x] + it[s \ {x}] /\ jt[s] = g[x] + jt[s \ {x}]
  <2>1. it[s] = f[Taken(s)] + it[s \ {Taken(s)}]
    BY <1>3, SumsAre
  <2>2. jt[s] = g[Taken(s)] + jt[s \ {Taken(s)}]
    <3>1. \A u \in SUBSET R : u # {} => jt[u] = g[Taken(u)] + jt[u \ {Taken(u)}]
      BY DEF Sums
    <3> QED
      BY <1>3, <3>1
  <2> QED
    BY <1>4, <2>1, <2>2
<1>6. /\ it[s \ {x}] \in Int
      /\ jt[s \ {x}] = IF q \in s \ {x} THEN it[s \ {x}] + a ELSE it[s \ {x}]
  BY <1>1
<1>7. f[x] \in Int /\ g[x] = IF x = q THEN f[x] + a ELSE f[x]
  BY <1>4 DEF Differ
<1>8. CASE x = q
  <2>1. q \in s /\ q \notin s \ {x}
    BY <1>8
  <2> QED
    BY <1>5, <1>6, <1>7, <1>8, <2>1
<1>9. CASE x # q
  <2>1. q \in s <=> q \in s \ {x}
    BY <1>9
  <2> QED
    BY <1>5, <1>6, <1>7, <1>9, <2>1
<1> QED
  BY <1>8, <1>9

\* Whatever is summed may be taken out first
AnyFirst(f, S, it) ==
    \A s \in SUBSET S : \A y \in s : \A u : u = s \ {y} => it[s] = f[y] + it[u]

\* Any summand may be taken out first.
LEMMA SumsTakeAny ==
    ASSUME NEW S, IsFiniteSet(S), NEW f, \A x \in S : f[x] \in Int, NEW it, Sums(f, S, it)
    PROVE  AnyFirst(f, S, it)
<1> DEFINE Bad == {s \in SUBSET S : ~ \A y \in s : it[s] = f[y] + it[s \ {y}]}
<1> SUFFICES ASSUME Bad # {} PROVE FALSE
  BY DEF AnyFirst
<1>1. PICK s \in Bad : \A x \in s : s \ {x} \in SUBSET S /\ s \ {x} \notin Bad
  <2>1. Bad \in SUBSET SUBSET S
    OBVIOUS
  <2> HIDE DEF Bad
  <2> QED
    BY <2>1, SmallestPart
<1>2. PICK y \in s : it[s] # f[y] + it[s \ {y}]
  OBVIOUS
<1>3. PICK x \in s : x = Taken(s)
  BY TakenIn
<1>4. it[s] = f[x] + it[s \ {x}]
  <2>1. \A u \in SUBSET S : u # {} => it[u] = f[Taken(u)] + it[u \ {Taken(u)}]
    BY DEF Sums
  <2>2. s \in SUBSET S /\ s # {}
    OBVIOUS
  <2> QED
    BY <1>3, <2>1, <2>2
<1>5. x # y
  BY <1>2, <1>4
<1>6. it[s \ {x}] = f[y] + it[(s \ {x}) \ {y}]
  BY <1>1, <1>5
<1>7. it[s \ {y}] = f[x] + it[(s \ {y}) \ {x}]
  BY <1>1, <1>5
<1>8. (s \ {x}) \ {y} = (s \ {y}) \ {x} /\ (s \ {x}) \ {y} \in SUBSET S
  OBVIOUS
<1>9. PICK z \in Int : z = it[(s \ {x}) \ {y}]
  BY <1>8, SumsInt
<1>10. PICK a \in Int, b \in Int : a = f[x] /\ b = f[y]
  OBVIOUS
<1>11. it[s] = a + (b + z) /\ f[y] + it[s \ {y}] = b + (a + z)
  BY <1>4, <1>6, <1>7, <1>8, <1>9, <1>10
<1>12. a + (b + z) = b + (a + z)
  BY <1>9, <1>10
<1> QED
  BY <1>2, <1>11, <1>12

\* The library's sum of products, and of the sizes in a bag
Products(g, h, S) == MapThenSumSet(LAMBDA x : g[x] * h[x], S)
Sizes(h, S) == MapThenSumSet(LAMBDA x : x * h[x], S)

\* The library's sum of products is such a sum.
LEMMA ProductsAreSums ==
    ASSUME NEW S, IsFiniteSet(S), NEW g, NEW h
    PROVE  \E it : /\ Sums([x \in S |-> g[x] * h[x]], S, it)
                   /\ Products(g, h, S) = it[S]
<1> DEFINE f == [x \in S |-> g[x] * h[x]]
           Eq(it) == it = [s \in SUBSET S |->
                             IF s = {} THEN 0
                             ELSE g[Taken(s)] * h[Taken(s)] + it[s \ {Taken(s)}]]
           lib == CHOOSE it : Eq(it)
<1>1. Products(g, h, S) = lib[S]
  BY DEF Products, MapThenSumSet, MapThenFoldSet, Taken
<1>2. \A s \in SUBSET S : s # {} => f[Taken(s)] = g[Taken(s)] * h[Taken(s)]
  BY TakenIn
<1>3. \A it : Sums(f, S, it) <=> Eq(it)
  <2> SUFFICES ASSUME NEW it PROVE Sums(f, S, it) <=> Eq(it)
    OBVIOUS
  <2> HIDE DEF f
  <2>1. [s \in SUBSET S |-> IF s = {} THEN 0 ELSE f[Taken(s)] + it[s \ {Taken(s)}]] =
        [s \in SUBSET S |-> IF s = {} THEN 0
                            ELSE g[Taken(s)] * h[Taken(s)] + it[s \ {Taken(s)}]]
    BY <1>2
  <2> QED
    BY <2>1 DEF Sums
<1>4. \E it : Eq(it)
  BY <1>3, SumsExist
<1>5. Eq(lib)
  BY <1>4
<1> HIDE DEF lib
<1>6. Sums(f, S, lib)
  BY <1>3, <1>5
<1> QED
  BY <1>1, <1>6

\* The library's sum of the sizes in a bag is such a sum.
LEMMA SizesAreSums ==
    ASSUME NEW S, IsFiniteSet(S), NEW h
    PROVE  \E it : /\ Sums([x \in S |-> x * h[x]], S, it)
                   /\ Sizes(h, S) = it[S]
<1> DEFINE f == [x \in S |-> x * h[x]]
           Eq(it) == it = [s \in SUBSET S |->
                             IF s = {} THEN 0
                             ELSE Taken(s) * h[Taken(s)] + it[s \ {Taken(s)}]]
           lib == CHOOSE it : Eq(it)
<1>1. Sizes(h, S) = lib[S]
  BY DEF Sizes, MapThenSumSet, MapThenFoldSet, Taken
<1>2. \A s \in SUBSET S : s # {} => f[Taken(s)] = Taken(s) * h[Taken(s)]
  BY TakenIn
<1>3. \A it : Sums(f, S, it) <=> Eq(it)
  <2> SUFFICES ASSUME NEW it PROVE Sums(f, S, it) <=> Eq(it)
    OBVIOUS
  <2> HIDE DEF f
  <2>1. [s \in SUBSET S |-> IF s = {} THEN 0 ELSE f[Taken(s)] + it[s \ {Taken(s)}]] =
        [s \in SUBSET S |-> IF s = {} THEN 0
                            ELSE Taken(s) * h[Taken(s)] + it[s \ {Taken(s)}]]
    BY <1>2
  <2> QED
    BY <2>1 DEF Sums
<1>4. \E it : Eq(it)
  BY <1>3, SumsExist
<1>5. Eq(lib)
  BY <1>4
<1> HIDE DEF lib
<1>6. Sums(f, S, lib)
  BY <1>3, <1>5
<1> QED
  BY <1>1, <1>6


-----------------------------------------------------------------------------
(* The stock of an offer.                                                  *)

\* A bag of lots that can be counted
LotsOK(lots) ==
    /\ IsABag(lots)
    /\ BagToSet(lots) \subseteq Nat \ {0}
    /\ IsFiniteSet(BagToSet(lots))

\* What the trades g took from offer o
Sold(g, o) == MapThenSumSet(LAMBDA r : g[r] * Amount[r], {r \in Requests : OfferOf[r] = o})

\* A trade of q adds its amount to what is sold of its offer, and to no other.
LEMMA SoldChanges ==
    ASSUME NEW o, NEW g \in [Requests -> Nat], NEW h \in [Requests -> Nat], NEW q,
           \A r \in Requests : OfferOf[r] = o => h[r] = IF r = q THEN g[r] + 1 ELSE g[r]
    PROVE  /\ Sold(g, o) \in Int
           /\ q \in Requests /\ OfferOf[q] = o => Sold(h, o) = Sold(g, o) + Amount[q]
           /\ ~(q \in Requests /\ OfferOf[q] = o) => Sold(h, o) = Sold(g, o)
<1>s. PICK S : S = {r \in Requests : OfferOf[r] = o}
  OBVIOUS
<1> DEFINE f == [r \in S |-> g[r] * Amount[r]]
           e == [r \in S |-> h[r] * Amount[r]]
<1>1. IsFiniteSet(S) /\ \A r \in Requests : Amount[r] \in Nat
  BY <1>s, OfferTradeAssumption, FS_Subset
<1>2. PICK a \in Int : q \in S => a = Amount[q]
  BY <1>s, <1>1
<1>3. Differ(f, e, S, q, a)
  <2> SUFFICES ASSUME NEW r \in S
               PROVE  /\ g[r] * Amount[r] \in Int
                      /\ h[r] * Amount[r] = IF r = q THEN g[r] * Amount[r] + a ELSE g[r] * Amount[r]
    BY DEF Differ
  <2>1. PICK n \in Nat, m \in Nat : n = g[r] /\ m = Amount[r]
    BY <1>s, <1>1
  <2>2. (n + 1) * m = n * m + m /\ n * m \in Int
    OBVIOUS
  <2> QED
    BY <1>s, <1>2, <2>1, <2>2
<1>0. Sold(g, o) = Products(g, Amount, S) /\ Sold(h, o) = Products(h, Amount, S)
  BY <1>s DEF Sold, Products
<1>4. PICK it : Sums(f, S, it) /\ Sold(g, o) = it[S]
  BY <1>0, <1>1, ProductsAreSums
<1>5. PICK jt : Sums(e, S, jt) /\ Sold(h, o) = jt[S]
  BY <1>0, <1>1, ProductsAreSums
<1> HIDE DEF f, e
<1>6. DifferBy(it, jt, S, q, a)
  BY <1>1, <1>3, <1>4, <1>5, SumsDiffer
<1>7. S \in SUBSET S /\ (q \in S <=> q \in Requests /\ OfferOf[q] = o)
  BY <1>s
<1>8. it[S] \in Int /\ jt[S] = IF q \in S THEN it[S] + a ELSE it[S]
  BY <1>6, <1>7 DEF DifferBy
<1> QED
  BY <1>2, <1>4, <1>5, <1>7, <1>8

\* Without trades nothing is sold.
LEMMA NothingSold ==
    ASSUME NEW o, NEW g, \A r \in Requests : g[r] = 0
    PROVE  Sold(g, o) = 0
<1>s. PICK S : S = {r \in Requests : OfferOf[r] = o}
  OBVIOUS
<1> DEFINE f == [r \in S |-> g[r] * Amount[r]]
<1>1. IsFiniteSet(S) /\ \A r \in S : Amount[r] \in Nat
  BY <1>s, OfferTradeAssumption, FS_Subset
<1>2. \A r \in S : f[r] = 0
  BY <1>s, <1>1
<1>0. Sold(g, o) = Products(g, Amount, S)
  BY <1>s DEF Sold, Products
<1>3. PICK it : Sums(f, S, it) /\ Sold(g, o) = it[S]
  BY <1>0, <1>1, ProductsAreSums
<1> HIDE DEF f
<1>4. \A s \in SUBSET S : it[s] = 0
  BY <1>1, <1>2, <1>3, SumsZero
<1> QED
  BY <1>3, <1>4

\* A lot that is taken takes its pieces with it.
LEMMA LotTaken ==
    ASSUME NEW lots, LotsOK(lots), NEW q \in BagToSet(lots)
    PROVE  /\ LotsOK(lots (-) SetToBag({q}))
           /\ Pieces(lots) \in Int
           /\ Pieces(lots (-) SetToBag({q})) = Pieces(lots) - q
<1>1. PICK left : left = lots (-) SetToBag({q})
  OBVIOUS
<1>2. PICK S : S = DOMAIN lots
  OBVIOUS
<1>3. PICK R : R = DOMAIN left
  OBVIOUS
<1>4. /\ lots \in [S -> Nat \ {0}] /\ S \subseteq Nat \ {0} /\ IsFiniteSet(S) /\ q \in S
  BY <1>2 DEF LotsOK, IsABag, BagToSet
<1>5. /\ left = [x \in R |-> IF x = q THEN lots[x] - 1 ELSE lots[x]]
      /\ R = IF lots[q] = 1 THEN S \ {q} ELSE S
  <2> DEFINE B == [x \in S |-> IF x \in {q} THEN lots[x] - 1 ELSE lots[x]]
  <2>1. left = [x \in {d \in S : B[d] > 0} |-> B[x]]
    BY <1>1, <1>2 DEF SetToBag, (-)
  <2>2. R = {d \in S : B[d] > 0}
    BY <1>3, <2>1
  <2>3. \A d \in S : B[d] > 0 <=> ~(d = q /\ lots[q] = 1)
    BY <1>4
  <2>4. R = IF lots[q] = 1 THEN S \ {q} ELSE S
    BY <1>4, <2>2, <2>3
  <2>5. left = [x \in R |-> B[x]] /\ R \subseteq S
    BY <2>1, <2>2
  <2>6. [x \in R |-> B[x]] = [x \in R |-> IF x = q THEN lots[x] - 1 ELSE lots[x]]
    BY <2>5
  <2> QED
    BY <2>4, <2>5, <2>6
<1>6. R \subseteq S /\ IsFiniteSet(R)
  BY <1>4, <1>5, FS_Subset
<1>7. left \in [R -> Nat \ {0}]
  BY <1>4, <1>5, <1>6
<1>8. LotsOK(left)
  BY <1>3, <1>4, <1>6, <1>7 DEF LotsOK, IsABag, BagToSet
<1> DEFINE f == [x \in S |-> x * lots[x]]
           e == [x \in R |-> x * left[x]]
<1>0. Pieces(lots) = Sizes(lots, S) /\ Pieces(left) = Sizes(left, R)
  BY <1>2, <1>3 DEF Pieces, Sizes, BagToSet
<1>9. PICK it : Sums(f, S, it) /\ Pieces(lots) = it[S]
  BY <1>0, <1>4, SizesAreSums
<1>10. PICK jt : Sums(e, R, jt) /\ Pieces(left) = jt[R]
  BY <1>0, <1>6, SizesAreSums
<1>11. PICK a \in Int : a = 0 - q
  BY <1>4
<1>12. \A x \in S : f[x] \in Int
  BY <1>4
<1>13. \A x \in R : e[x] = IF x = q THEN f[x] + a ELSE f[x]
  <2> SUFFICES ASSUME NEW x \in R
               PROVE  x * left[x] = IF x = q THEN x * lots[x] + a ELSE x * lots[x]
    BY <1>6
  <2>1. PICK n \in Nat : n = lots[x]
    BY <1>4, <1>6
  <2>2. PICK m \in Nat : m = x
    BY <1>4, <1>6
  <2>3. m * (n - 1) = m * n + (0 - m)
    OBVIOUS
  <2> QED
    BY <1>5, <1>11, <2>1, <2>2, <2>3
<1>14. f[q] = q * lots[q] /\ q \in Nat /\ lots[q] \in Nat
  BY <1>4
<1> HIDE DEF f, e
<1>15. R \subseteq S /\ R \subseteq R /\ R \in SUBSET R /\ S \in SUBSET S
  BY <1>6
<1>16. it[R] \in Int /\ jt[R] = IF q \in R THEN it[R] + a ELSE it[R]
  <2>1. Differ(f, e, R, q, a)
    BY <1>6, <1>12, <1>13 DEF Differ
  <2>2. DifferBy(it, jt, R, q, a)
    BY <1>4, <1>9, <1>10, <1>15, <2>1, SumsDiffer
  <2> QED
    BY <1>15, <2>2 DEF DifferBy
<1>17. it[S] \in Int
  BY <1>4, <1>9, <1>12, <1>15, SumsInt
<1>18. Pieces(left) = Pieces(lots) - q
  <2>1. CASE lots[q] = 1
    <3>1. R = S \ {q} /\ q \notin R
      BY <1>5, <2>1
    <3>2. it[S] = f[q] + it[R]
      <4>1. AnyFirst(f, S, it)
        BY <1>4, <1>9, <1>12, SumsTakeAny
      <4> QED
        BY <1>4, <1>15, <3>1, <4>1 DEF AnyFirst
    <3>3. f[q] = q
      BY <1>14, <2>1
    <3>4. jt[R] = it[R] /\ it[R] \in Int
      BY <1>15, <1>16, <3>1
    <3> QED
      BY <1>9, <1>10, <1>14, <3>1, <3>2, <3>3, <3>4
  <2>2. CASE lots[q] # 1
    <3>1. R = S /\ q \in R
      BY <1>4, <1>5, <2>2
    <3>2. jt[R] = it[R] + a
      BY <1>15, <1>16, <3>1
    <3> QED
      BY <1>9, <1>10, <1>11, <1>14, <1>17, <3>1, <3>2
  <2> QED
    BY <2>1, <2>2
<1> QED
  BY <1>1, <1>8, <1>9, <1>17, <1>18

\* Nothing is sold that is not there, completed means sold out, and the lots still
\* listed are what is left
InStock(of, total) ==
    /\ DOMAIN of = {"status", "reason", "remaining", "lots"}
    /\ of.status \in {"active", "expired", "completed"}
    /\ of.remaining \in 0..total
    /\ of.status = "completed" <=> of.remaining = 0
    /\ LotsOK(of.lots)
    /\ of.lots # EmptyBag => Pieces(of.lots) = of.remaining

StockBounded == \A o \in Offers : InStock(offers[o], Quantity[o])

\* The expiry loop has read an offer that was on sale.
ScanSound == scan # <<>> => scan[1] \in Offers /\ scan[2].status = "active"

StockInv == StockBounded /\ ScanSound

\* The stock of an offer changes only by a trade, by exactly its amount, and
\* every trade takes its amount from the stock.  Initially the stock is the
\* whole quantity and no trade is counted.
StockTaken ==
    [][\A o \in Offers :
         \/ /\ offers'[o].remaining = offers[o].remaining
            /\ \A r \in Requests : OfferOf[r] = o => trades'[r] = trades[r]
         \/ \E r \in Requests :
              /\ OfferOf[r] = o /\ trades' = [trades EXCEPT ![r] = @ + 1]
              /\ offers'[o].remaining = offers[o].remaining - Amount[r]]_vars

\* An amount that is available is not more than what is left.
LEMMA AvailableIsLeft ==
    ASSUME NEW of, NEW total \in Nat, InStock(of, total),
           NEW q \in Nat \ {0}, q \in AvailableAmounts(of)
    PROVE  q <= of.remaining /\ of.remaining \in Nat /\ of.status # "completed"
<1>1. of.remaining \in Nat
  BY DEF InStock
<1>2. q <= of.remaining
  BY <1>1 DEF AvailableAmounts
<1> QED
  BY <1>1, <1>2 DEF InStock

\* The lots of an offer that is sold whole.
LEMMA NoLots == LotsOK(EmptyBag)
<1>1. EmptyBag \in [{} -> Nat \ {0}] /\ DOMAIN EmptyBag = {}
  BY DEF EmptyBag, SetToBag
<1> QED
  BY <1>1, FS_EmptySet DEF LotsOK, IsABag, BagToSet

\* What a trade leaves.
LEMMA AfterTrade ==
    ASSUME NEW of, NEW total \in Nat, InStock(of, total), NEW o, NEW mode,
           NEW q \in Nat \ {0}, q \in AvailableAmounts(of)
    PROVE  /\ InStock(Leftover(Traded(of, q), o, mode), total)
           /\ Leftover(Traded(of, q), o, mode).remaining = of.remaining - q
<1>1. q <= of.remaining /\ of.remaining \in Nat /\ of.status # "completed"
  BY AvailableIsLeft
<1>2. PICK new : new = Traded(of, q)
  OBVIOUS
<1>3. /\ DOMAIN new = {"status", "reason", "remaining", "lots"}
      /\ new.remaining = of.remaining - q
      /\ new.status = IF of.remaining - q = 0 THEN "completed" ELSE of.status
  <2>1. CASE of.remaining - q = 0
    BY <1>2, <2>1 DEF Traded, InStock
  <2>2. CASE of.remaining - q # 0
    BY <1>2, <2>2 DEF Traded, InStock
  <2> QED
    BY <2>1, <2>2
<1>4. new.remaining \in 0..total
  BY <1>1, <1>3 DEF InStock
<1>lots. LotsOK(new.lots) /\ (new.lots # EmptyBag => Pieces(new.lots) = new.remaining)
  <2>1. CASE of.remaining - q = 0
    <3>1. new.lots = EmptyBag
      BY <1>2, <2>1 DEF Traded, InStock
    <3> QED
      BY <3>1, NoLots
  <2>2. CASE of.remaining - q # 0
    <3>1. PICK left : left = of.lots (-) SetToBag({q})
      OBVIOUS
    <3>2. new.lots = left
      BY <1>2, <2>2, <3>1 DEF Traded, InStock
    <3>3. q # of.remaining
      BY <1>1, <2>2
    <3>4. q \in BagToSet(of.lots)
      BY <3>3 DEF AvailableAmounts
    <3>5. LotsOK(of.lots) /\ (of.lots # EmptyBag => Pieces(of.lots) = of.remaining)
      BY DEF InStock
    <3>6. of.lots # EmptyBag
      BY <3>4 DEF EmptyBag, SetToBag, BagToSet
    <3>7. LotsOK(left) /\ Pieces(left) = Pieces(of.lots) - q
      BY <3>1, <3>4, <3>5, LotTaken
    <3> QED
      BY <1>3, <3>2, <3>5, <3>6, <3>7
  <2> QED
    BY <2>1, <2>2
<1>5. InStock(new, total)
  BY <1>1, <1>3, <1>4, <1>lots DEF InStock
<1>6. PICK last : last = Leftover(new, o, mode)
  OBVIOUS
<1>7. CASE last = new
  BY <1>2, <1>3, <1>5, <1>6, <1>7
<1>8. CASE new.status = "active" /\ last = Expired(new, "time_limit")
  <2>1. /\ DOMAIN last = {"status", "reason", "remaining", "lots"}
        /\ last.status = "expired" /\ last.remaining = new.remaining /\ last.lots = new.lots
    BY <1>3, <1>8 DEF Expired
  <2>2. InStock(last, total)
    BY <1>5, <1>8, <2>1 DEF InStock
  <2> QED
    BY <1>2, <1>3, <1>6, <2>1, <2>2
<1> QED
  BY <1>6, <1>7, <1>8 DEF Leftover

\* An offer on sale that expires keeps its stock.
LEMMA AfterExpiry ==
    ASSUME NEW of, NEW total \in Nat, InStock(of, total), of.status = "active", NEW why
    PROVE  InStock(Expired(of, why), total) /\ Expired(of, why).remaining = of.remaining
<1>1. PICK new : new = Expired(of, why)
  OBVIOUS
<1>2. /\ DOMAIN new = {"status", "reason", "remaining", "lots"}
      /\ new.status = "expired" /\ new.remaining = of.remaining /\ new.lots = of.lots
  BY <1>1 DEF Expired, InStock
<1>3. InStock(new, total)
  BY <1>2 DEF InStock
<1> QED
  BY <1>1, <1>2, <1>3

\* What a trade does to the stock.
LEMMA TradeTakes ==
    ASSUME TradeInv, StockInv, NEW t \in Tx, Trade(t)
    PROVE  /\ StockBounded'
           /\ \/ offers' = offers /\ trades' = trades
              \/ \E r \in Requests :
                   /\ trades' = [trades EXCEPT ![r] = @ + 1]
                   /\ offers'[OfferOf[r]].remaining = offers[OfferOf[r]].remaining - Amount[r]
                   /\ \A p \in Offers : p # OfferOf[r] => offers'[p] = offers[p]
<1>1. PICK r : r = tx[t].req
  OBVIOUS
<1>2. PICK o : o = OfferOf[r]
  OBVIOUS
<1>3. PICK of : of = tx[t].view
  OBVIOUS
<1>4. /\ tx[t].pc = "decide" /\ r \in Requests /\ o \in Offers
      /\ DOMAIN offers = Offers
  BY <1>1, <1>2, TradeWrites DEF TradeInv, Typed
<1>5. of = offers[o]
  BY <1>1, <1>2, <1>3, <1>4, PlaceIsWork DEF Sound, Places
<1>6. /\ Amount[r] \in Nat \ {0} /\ Quantity[o] \in Nat
  BY <1>4, OfferTradeAssumption
<1>7. Amount[r] \in AvailableAmounts(of)
  BY <1>1, <1>3 DEF Trade, Fits
<1>8. \/ offers' = offers /\ trades' = trades
      \/ /\ offers' = [offers EXCEPT ![o] = Leftover(Traded(of, Amount[r]), o, tx[t].mode)]
         /\ trades' = [trades EXCEPT ![r] = @ + 1]
  BY <1>1, <1>2, <1>3 DEF Trade
<1>9. InStock(of, Quantity[o])
  BY <1>4, <1>5 DEF StockInv, StockBounded
<1>10. PICK new : new = Leftover(Traded(of, Amount[r]), o, tx[t].mode)
  OBVIOUS
<1>11. InStock(new, Quantity[o]) /\ new.remaining = of.remaining - Amount[r]
  BY <1>6, <1>7, <1>9, <1>10, AfterTrade
<1>12. CASE offers' = offers /\ trades' = trades
  BY <1>12 DEF StockInv, StockBounded
<1>13. CASE offers' = [offers EXCEPT ![o] = new] /\ trades' = [trades EXCEPT ![r] = @ + 1]
  <2>1. offers'[o] = new /\ \A p \in Offers : p # o => offers'[p] = offers[p]
    BY <1>4, <1>13
  <2>2. StockBounded'
    BY <1>11, <2>1 DEF StockInv, StockBounded
  <2> QED
    BY <1>2, <1>4, <1>5, <1>11, <1>13, <2>1, <2>2
<1> QED
  BY <1>8, <1>10, <1>12, <1>13

\* Every step keeps the stock in bounds, and only trades take from it.
LEMMA StockStep ==
    ASSUME TradeInv, StockInv, Next
    PROVE  /\ StockInv'
           /\ \A o \in Offers :
                \/ /\ offers'[o].remaining = offers[o].remaining
                   /\ \A r \in Requests : OfferOf[r] = o => trades'[r] = trades[r]
                \/ \E r \in Requests :
                     /\ OfferOf[r] = o /\ trades' = [trades EXCEPT ![r] = @ + 1]
                     /\ offers'[o].remaining = offers[o].remaining - Amount[r]
<1>1. /\ DOMAIN offers = Offers /\ \A p \in Offers : Quantity[p] \in Nat
      /\ trades \in [Requests -> Nat] /\ \A p \in Offers : InStock(offers[p], Quantity[p])
  BY OfferTradeAssumption DEF TradeInv, Typed, StockInv, StockBounded
<1>2. ASSUME NEW t \in Tx, Trade(t)
      PROVE  scan' = scan
  BY <1>2 DEF Trade, Finish
<1>3. CASE \E t \in Tx : Trade(t)
  <2>1. PICK t \in Tx : Trade(t)
    BY <1>3
  <2>2. StockInv'
    BY <1>2, <2>1, TradeTakes DEF StockInv, ScanSound
  <2>3. CASE offers' = offers /\ trades' = trades
    BY <2>2, <2>3
  <2>4. ASSUME NEW r \in Requests, trades' = [trades EXCEPT ![r] = @ + 1],
               offers'[OfferOf[r]].remaining = offers[OfferOf[r]].remaining - Amount[r],
               \A p \in Offers : p # OfferOf[r] => offers'[p] = offers[p],
               NEW o \in Offers
        PROVE  \/ /\ offers'[o].remaining = offers[o].remaining
                  /\ \A q \in Requests : OfferOf[q] = o => trades'[q] = trades[q]
               \/ \E q \in Requests :
                    /\ OfferOf[q] = o /\ trades' = [trades EXCEPT ![q] = @ + 1]
                    /\ offers'[o].remaining = offers[o].remaining - Amount[q]
    <3>1. CASE o = OfferOf[r]
      BY <2>4, <3>1
    <3>2. CASE o # OfferOf[r]
      BY <1>1, <2>4, <3>2
    <3> QED
      BY <3>1, <3>2
  <2> QED
    BY <2>1, <2>2, <2>3, <2>4, TradeTakes
<1>4. CASE ExpiryWrite \/ \E o \in Offers : ExpireByOwner(o)
  <2>1. \/ offers' = offers
        \/ \E o \in Offers, why \in {"time_limit", "manual"} :
             /\ offers[o].status = "active"
             /\ offers' = [offers EXCEPT ![o] = Expired(offers[o], why)]
    <3>1. CASE ExpiryWrite
      BY <3>1 DEF ExpiryWrite, SameVersion, StockInv, ScanSound
    <3>2. CASE \E o \in Offers : ExpireByOwner(o)
      BY <3>2 DEF ExpireByOwner
    <3> QED
      BY <1>4, <3>1, <3>2
  <2>2. trades' = trades /\ (scan' = scan \/ scan' = <<>>)
    BY <1>4 DEF ExpiryWrite, ExpireByOwner
  <2>3. CASE offers' = offers
    BY <2>2, <2>3 DEF StockInv, StockBounded, ScanSound
  <2>4. ASSUME NEW o \in Offers, NEW why, offers[o].status = "active",
               offers' = [offers EXCEPT ![o] = Expired(offers[o], why)]
        PROVE  StockBounded' /\ \A p \in Offers : offers'[p].remaining = offers[p].remaining
    <3>1. offers'[o] = Expired(offers[o], why) /\ \A p \in Offers : p # o => offers'[p] = offers[p]
      BY <1>1, <2>4
    <3>2. InStock(Expired(offers[o], why), Quantity[o])
          /\ Expired(offers[o], why).remaining = offers[o].remaining
      BY <1>1, <2>4, AfterExpiry
    <3> QED
      BY <1>1, <3>1, <3>2 DEF StockBounded
  <2> QED
    BY <2>1, <2>2, <2>3, <2>4 DEF StockInv, ScanSound
<1>5. CASE \E o \in Offers : ExpiryScan(o)
  BY <1>5 DEF ExpiryScan, home, StockInv, StockBounded, ScanSound
<1>6. ASSUME offers' = offers, trades' = trades, scan' = scan
      PROVE  /\ StockInv'
             /\ \A o \in Offers : /\ offers'[o].remaining = offers[o].remaining
                                  /\ \A r \in Requests : OfferOf[r] = o => trades'[r] = trades[r]
  BY <1>6 DEF StockInv, StockBounded, ScanSound
<1>7. ASSUME NEW t \in Tx, Execute(t), ~Trade(t)
      PROVE  offers' = offers /\ trades' = trades /\ scan' = scan
  BY <1>7 DEF Execute, Arrive, LockKey, LockUser, LockKeyLate, LockExecution, LockOffer,
              AskOwner, RepeatRefusal, Refuse, Refusal, TooLate, Relock, Finish, home
<1>8. ASSUME NEW t \in Tx, \/ Forbid(t) \/ Fail(t) \/ Lose(t) \/ Disconnect(t) \/ TimeOut(t)
                           \/ Break(t) \/ ReplayFails(t)
      PROVE  offers' = offers /\ trades' = trades /\ scan' = scan
  BY <1>8 DEF Forbid, Fail, Lose, Disconnect, TimeOut, Break, ReplayFails, Finish, home
<1>9. ASSUME NEW t \in Tx, NEW q \in Requests,
             Receive(t, q) \/ Forward(t, q) \/ Approve(t, q) \/ Replay(t, q)
      PROVE  offers' = offers /\ trades' = trades /\ scan' = scan
  BY <1>9 DEF Receive, Forward, Approve, Replay, home
<1>10. ASSUME \/ Tick \/ SourceRestart
              \/ \E q \in Requests : GateFull(q) \/ Forget(q) \/ CloseOvertime(q)
       PROVE  offers' = offers /\ trades' = trades /\ scan' = scan
  BY <1>10 DEF Tick, SourceRestart, GateFull, Forget, CloseOvertime, home
<1> QED
  BY <1>3, <1>4, <1>5, <1>6, <1>7, <1>8, <1>9, <1>10 DEF Next, Step

\* All of the stock is there at first.
LEMMA StockStart == Init => StockInv
<1> SUFFICES ASSUME Init PROVE StockInv
  OBVIOUS
<1>1. ScanSound
  BY DEF Init, ScanSound
<1>2. \A o \in Offers : Quantity[o] \in Nat \ {0}
  BY OfferTradeAssumption
<1>3. \A o \in Offers :
        /\ DOMAIN offers[o] = {"status", "reason", "remaining", "lots"}
        /\ offers[o].status = "active" /\ offers[o].remaining = Quantity[o]
        /\ offers[o].lots = Lots[o]
  BY DEF Init
<1>4. StockBounded
  <2> SUFFICES ASSUME NEW o \in Offers PROVE InStock(offers[o], Quantity[o])
    BY DEF StockBounded
  <2>1. Quantity[o] \in 0..Quantity[o] /\ Quantity[o] # 0
    BY <1>2
  <2>2. LotsOK(Lots[o]) /\ (Lots[o] # EmptyBag => Pieces(Lots[o]) = Quantity[o])
    BY OfferTradeAssumption DEF LotsOK
  <2> QED
    BY <1>3, <2>1, <2>2 DEF InStock
<1> QED
  BY <1>1, <1>4 DEF StockInv

\* The stock of an offer is never taken twice, in any state of any behaviour.
LEMMA StockInvariant == Spec => []StockInv
<1>1. TradeInv /\ StockInv /\ [Next]_vars => StockInv'
  <2> SUFFICES ASSUME TradeInv, StockInv, [Next]_vars PROVE StockInv'
    OBVIOUS
  <2>1. CASE UNCHANGED vars
    BY <2>1 DEF vars, StockInv, StockBounded, ScanSound
  <2> QED
    BY <2>1, StockStep
<1> QED
  BY <1>1, StockStart, TradeInvariant, PTL DEF Spec

\* No more is sold than is there: what is left is never negative, an offer is completed
\* exactly when nothing is left, and the lots it lists are what is left, however many
\* sessions trade on it, lose their transaction or find it expired.
THEOREM NothingOversold == Spec => []StockBounded
<1>1. StockInv => StockBounded
  BY DEF StockInv
<1> QED
  BY <1>1, StockInvariant, PTL

\* Stock and trades move together: every committed trade takes its amount, once, and
\* nothing else does.
THEOREM TradesTakeStock == Spec => StockTaken
<1>1. TradeInv /\ StockInv /\ [Next]_vars =>
        [\A o \in Offers :
           \/ /\ offers'[o].remaining = offers[o].remaining
              /\ \A r \in Requests : OfferOf[r] = o => trades'[r] = trades[r]
           \/ \E r \in Requests :
                /\ OfferOf[r] = o /\ trades' = [trades EXCEPT ![r] = @ + 1]
                /\ offers'[o].remaining = offers[o].remaining - Amount[r]]_vars
  BY StockStep
<1> QED
  BY <1>1, StockInvariant, TradeInvariant, PTL DEF Spec, StockTaken

\* What is left and what was sold are the whole offer
SoldAndLeft == \A o \in Offers : offers[o].remaining + Sold(trades, o) = Quantity[o]

\* Every step takes from what is left what it adds to what is sold.
LEMMA SoldStep == TradeInv /\ StockInv /\ SoldAndLeft /\ [Next]_vars => SoldAndLeft'
<1> SUFFICES ASSUME TradeInv, StockInv, SoldAndLeft, [Next]_vars, TradeInv', NEW o \in Offers
             PROVE  offers'[o].remaining + Sold(trades', o) = Quantity[o]
  BY NextTradeInv DEF SoldAndLeft
<1>1. /\ trades \in [Requests -> Nat] /\ trades' \in [Requests -> Nat]
      /\ offers[o].remaining \in Int /\ Quantity[o] \in Int
      /\ offers[o].remaining + Sold(trades, o) = Quantity[o]
  BY OfferTradeAssumption DEF TradeInv, Typed, SoldAndLeft, StockInv, StockBounded, InStock
<1>2. CASE /\ offers'[o].remaining = offers[o].remaining
           /\ \A r \in Requests : OfferOf[r] = o => trades'[r] = trades[r]
  <2>1. PICK q : q \notin Requests
    BY NoSetContainsEverything
  <2>2. Sold(trades', o) = Sold(trades, o)
    BY <1>1, <1>2, <2>1, SoldChanges
  <2> QED
    BY <1>1, <1>2, <2>2
<1>3. ASSUME NEW q \in Requests, OfferOf[q] = o, trades' = [trades EXCEPT ![q] = @ + 1],
             offers'[o].remaining = offers[o].remaining - Amount[q]
      PROVE  offers'[o].remaining + Sold(trades', o) = Quantity[o]
  <2>1. \A r \in Requests : OfferOf[r] = o => trades'[r] = IF r = q THEN trades[r] + 1 ELSE trades[r]
    BY <1>1, <1>3
  <2>2. Amount[q] \in Int
    BY OfferTradeAssumption
  <2>3. PICK g \in [Requests -> Nat], h \in [Requests -> Nat] : g = trades /\ h = trades'
    BY <1>1
  <2>4. \A r \in Requests : OfferOf[r] = o => h[r] = IF r = q THEN g[r] + 1 ELSE g[r]
    BY <2>1, <2>3
  <2>5. Sold(g, o) \in Int /\ Sold(h, o) = Sold(g, o) + Amount[q]
    BY <1>3, <2>4, SoldChanges
  <2> QED
    BY <1>1, <1>3, <2>2, <2>3, <2>5
<1>4. CASE UNCHANGED vars
  BY <1>2, <1>4 DEF vars
<1> QED
  BY <1>2, <1>3, <1>4, StockStep

\* The stock is kept: in every reachable state what the committed trades took and what
\* is left add up to the quantity of the offer, the lots still listed add up to what is
\* left, and completed means sold out, for any number of offers, requests and sessions.
THEOREM StockIsKept == Spec => []StockKept
<1>1. Init => SoldAndLeft
  <2> SUFFICES ASSUME Init, NEW o \in Offers
               PROVE  offers[o].remaining + Sold(trades, o) = Quantity[o]
    BY DEF SoldAndLeft
  <2>1. Sold(trades, o) = 0
    BY NothingSold DEF Init
  <2>2. offers[o].remaining = Quantity[o] /\ Quantity[o] \in Nat
    BY OfferTradeAssumption DEF Init
  <2> QED
    BY <2>1, <2>2
<1>2. StockInv /\ SoldAndLeft => StockKept
  <2> SUFFICES ASSUME StockInv, SoldAndLeft PROVE StockKept
    OBVIOUS
  <2>1. \A o \in Offers :
          Sold(trades, o) = MapThenSumSet(LAMBDA r : trades[r] * Amount[r],
                                          {r \in Requests : OfferOf[r] = o})
    BY DEF Sold
  <2> QED
    BY <2>1 DEF StockInv, StockBounded, InStock, SoldAndLeft, StockKept
<1> QED
  BY <1>1, <1>2, SoldStep, StockInvariant, TradeInvariant, PTL DEF Spec

-----------------------------------------------------------------------------
(* The order of the locks.                                                 *)

\* A row that answers its key for good, or waits for the owner's answer
Settled == {"completed", "overtime", "closed"}

\* What a session may have locked where it is.  An approval has a settled row; a
\* direct session that has the lock of its key has not found one.
InOrder(s, led) ==
    /\ \A l \in s.locks :
         \/ l = <<"key", s.req>> /\ s.req \in Keyed /\ HasKey(s)
         \/ l = <<"user", UserOf[s.req]>> /\ s.pc \in {"late", "exec", "row", "decide"}
         \/ l = <<"exec", OfferOf[s.req]>> /\ s.pc \in {"row", "decide"}
         \/ l = <<"offer", OfferOf[s.req]>> /\ s.pc = "decide"
         \/ l = <<"row", s.req>> /\ s.pc \in {"user", "late", "exec", "row", "decide"}
    /\ s.mode = "approve" => led[s.req] \in Settled
    /\ HasKey(s) /\ s.mode = "direct" /\ s.req \in Keyed => led[s.req] \notin Settled

OrderInv == \A t \in Tx : tx[t] = Idle \/ InOrder(tx[t], ledger)

\* One session moves or ends, and no row becomes settled or ceases to be.
LEMMA OrderMove ==
    ASSUME TradeInv, OrderInv, NEW t \in Tx,
           \A u \in Tx : u # t => tx'[u] = tx[u],
           tx'[t] = Idle \/ InOrder(tx'[t], ledger),
           ledger' = ledger
    PROVE  OrderInv'
BY DEF OrderInv, InOrder

\* A session ends and writes no row.
LEMMA OrderFinish ==
    ASSUME TradeInv, OrderInv, NEW t \in Tx, NEW a, Finish(t, a), ledger' = ledger
    PROVE  OrderInv'
<1>1. DOMAIN tx = Tx /\ tx' = [tx EXCEPT ![t] = Idle]
  BY DEF TradeInv, Typed, Finish
<1>2. tx'[t] = Idle /\ \A u \in Tx : u # t => tx'[u] = tx[u]
  BY <1>1
<1> QED
  BY <1>2, OrderMove, Zenon

\* A row is written beside the sessions: what is settled stays, and nothing else is.
LEMMA OrderBeside ==
    ASSUME TradeInv, OrderInv, tx' = tx,
           \A q \in Requests : ledger'[q] \in Settled <=> ledger[q] \in Settled
    PROVE  OrderInv'
<1> SUFFICES ASSUME NEW u \in Tx, tx[u] # Idle
             PROVE  InOrder(tx[u], ledger')
  BY DEF OrderInv
<1>1. InOrder(tx[u], ledger) /\ tx[u].req \in Requests
  BY NotIdle DEF OrderInv, Working
<1> QED
  BY <1>1 DEF InOrder

\* A session that has decided commits the row of its key and ends: the lock of the
\* key keeps every direct session with this key away, and no row is unsettled.
LEMMA OrderCommit ==
    ASSUME TradeInv, OrderInv, NEW t \in Tx, tx[t].pc = "decide", NEW a, Finish(t, a),
           \A q \in Requests : q # tx[t].req \/ q \notin Keyed => KeptOrClosed(q),
           ledger[tx[t].req] \in Settled => ledger'[tx[t].req] \in Settled
    PROVE  OrderInv'
<1>1. DOMAIN tx = Tx /\ LocksApart /\ tx' = [tx EXCEPT ![t] = Idle]
  BY DEF TradeInv, Typed, Finish
<1>2. /\ Sound(tx[t], offers, ledger) /\ Held(t) = tx[t].locks
  BY AtWork DEF Places
<1>3. KeyLock(tx[t].req) \subseteq Held(t)
  BY <1>2 DEF Sound, HasKey
<1> SUFFICES ASSUME NEW u \in Tx, tx'[u] # Idle
             PROVE  InOrder(tx'[u], ledger')
  BY DEF OrderInv
<1>4. u # t /\ tx'[u] = tx[u] /\ tx[u] # Idle
  BY <1>1
<1>5. /\ InOrder(tx[u], ledger) /\ Sound(tx[u], offers, ledger) /\ Held(u) = tx[u].locks
      /\ tx[u].req \in Requests
  BY <1>4, NotIdle DEF OrderInv, Working
<1>6. ledger[tx[u].req] \in Settled => ledger'[tx[u].req] \in Settled
  BY <1>5 DEF KeptOrClosed, Settled
<1>7. ASSUME HasKey(tx[u]), tx[u].mode = "direct", tx[u].req \in Keyed
      PROVE  ledger'[tx[u].req] = ledger[tx[u].req]
  <2>1. <<"key", tx[u].req>> \in Held(u)
    BY <1>5, <1>7 DEF Sound, KeyLock
  <2>2. Held(u) \cap Held(t) = {}
    BY <1>1, <1>4 DEF LocksApart
  <2>3. tx[u].req # tx[t].req
    BY <1>3, <1>7, <2>1, <2>2 DEF KeyLock
  <2> QED
    BY <1>5, <1>7, <2>3 DEF KeptOrClosed, InOrder, Settled
<1> QED
  BY <1>4, <1>5, <1>6, <1>7 DEF InOrder

\* A new session has no lock, or that of its row.
LEMMA OrderStart ==
    ASSUME TradeInv, OrderInv, NEW t \in Tx, NEW r \in Requests,
           Receive(t, r) \/ Forward(t, r) \/ Approve(t, r) \/ Replay(t, r)
    PROVE  OrderInv'
<1>1. DOMAIN tx = Tx
  BY DEF TradeInv, Typed
<1>2. ledger' = ledger
  BY DEF Receive, Forward, Approve, Replay, home
<1>3. ASSUME NEW s, tx' = [tx EXCEPT ![t] = s], InOrder(s, ledger)
      PROVE  OrderInv'
  <2>1. tx'[t] = s /\ \A u \in Tx : u # t => tx'[u] = tx[u]
    BY <1>1, <1>3
  <2> QED
    BY <1>2, <1>3, <2>1, OrderMove
<1>4. ASSUME NEW s, s.locks = {}, s.mode = "direct", s.pc \in {"key", "wire"}
      PROVE  InOrder(s, ledger)
  BY <1>4 DEF InOrder, HasKey
<1>5. CASE Receive(t, r)
  <2>1. PICK gated \in BOOLEAN : tx' = [tx EXCEPT ![t] = Session(r, "direct", "client", now, gated)]
    BY <1>5 DEF Receive
  <2>2. PICK s : s = Session(r, "direct", "client", now, gated)
    OBVIOUS
  <2>3. s.locks = {} /\ s.mode = "direct" /\ s.pc = "key"
    BY <2>2 DEF Session
  <2> QED
    BY <1>3, <1>4, <2>1, <2>2, <2>3
<1>6. CASE Forward(t, r)
  <2>1. PICK gated \in BOOLEAN :
           tx' = [tx EXCEPT ![t] = [Session(r, "direct", "source", now, gated)
                                    EXCEPT !.pc = "wire", !.seen = 0]]
    BY <1>6 DEF Forward
  <2>2. PICK n : n = Session(r, "direct", "source", now, gated)
    OBVIOUS
  <2>3. n.locks = {} /\ n.mode = "direct" /\ DOMAIN n = Fields
    BY <2>2 DEF Session, Fields
  <2>4. PICK s : s = [n EXCEPT !.pc = "wire", !.seen = 0]
    OBVIOUS
  <2>5. s.locks = {} /\ s.mode = "direct" /\ s.pc = "wire"
    BY <2>3, <2>4 DEF Fields
  <2> QED
    BY <1>3, <1>4, <2>1, <2>2, <2>4, <2>5
<1>7. CASE Approve(t, r)
  <2>1. PICK s : s = Session(r, "approve", "gone", now, FALSE)
    OBVIOUS
  <2>2. s.locks = {<<"row", r>>} /\ s.mode = "approve" /\ s.pc = "user" /\ s.req = r
    BY <2>1 DEF Session
  <2>3. ledger[r] = "overtime" /\ tx' = [tx EXCEPT ![t] = s]
    BY <1>7, <2>1 DEF Approve
  <2>4. InOrder(s, ledger)
    BY <2>2, <2>3 DEF InOrder, HasKey, Settled
  <2> QED
    BY <1>3, <2>3, <2>4
<1>8. CASE Replay(t, r)
  <2>1. PICK n : n = Session(r, "direct", "replay", since[r], FALSE)
    OBVIOUS
  <2>2. n.locks = {} /\ n.mode = "direct" /\ DOMAIN n = Fields
    BY <2>1 DEF Session, Fields
  <2>3. PICK s : s = [n EXCEPT !.pc = "wire", !.seen = 0]
    OBVIOUS
  <2>4. s.locks = {} /\ s.mode = "direct" /\ s.pc = "wire"
    BY <2>2, <2>3 DEF Fields
  <2>5. tx' = [tx EXCEPT ![t] = s] \/ tx' = tx
    BY <1>8, <2>1, <2>3 DEF Replay
  <2>6. CASE tx' = tx
    BY <1>2, <2>6 DEF OrderInv, InOrder
  <2> QED
    BY <1>3, <1>4, <2>4, <2>5, <2>6
<1> QED
  BY <1>5, <1>6, <1>7, <1>8

\* A session goes on to the next place with the locks it wanted.
LEMMA OrderGoOn ==
    ASSUME TradeInv, OrderInv, NEW t \in Tx, tx[t].pc \in Places, NEW place, NEW L,
           DOMAIN tx' = Tx, \A u \in Tx : u # t => tx'[u] = tx[u],
           SameCall(tx[t], tx'[t]), tx'[t].pc = place, tx'[t].locks = tx[t].locks \cup L,
           ledger' = ledger,
           \/ tx[t].pc = "wire" /\ place = "key" /\ L = {}
           \/ /\ tx[t].pc = "key" /\ place = "user" /\ L = KeyLock(tx[t].req)
              /\ ~Replayed(tx[t].req)
           \/ /\ tx[t].pc = "user" /\ L = {<<"user", UserOf[tx[t].req]>>}
              /\ place = IF tx[t].mode = "approve" THEN "late" ELSE "exec"
           \/ tx[t].pc = "late" /\ place = "exec" /\ L = KeyLock(tx[t].req)
           \/ tx[t].pc = "exec" /\ place = "row" /\ L = {<<"exec", OfferOf[tx[t].req]>>}
           \/ tx[t].pc = "row" /\ place = "decide" /\ L = {<<"offer", OfferOf[tx[t].req]>>}
           \/ tx[t].pc = place /\ L = {}
    PROVE  OrderInv'
<1>1. PICK old : old = tx[t]
  OBVIOUS
<1>2. PICK new : new = tx'[t]
  OBVIOUS
<1>3. /\ old # Idle /\ Working(old) /\ InOrder(old, ledger)
  BY <1>1, AtWork DEF OrderInv
<1>4. /\ new.req = old.req /\ new.mode = old.mode /\ new.pc = place /\ new.locks = old.locks \cup L
      /\ old.mode \in {"direct", "approve"}
      /\ old.pc \in {"late", "relock"} => old.mode = "approve"
  BY <1>1, <1>2, <1>3 DEF SameCall, Working
<1>5. \/ old.pc = "wire" /\ place = "key" /\ L = {}
      \/ /\ old.pc = "key" /\ place = "user" /\ L = KeyLock(old.req)
         /\ old.req \in Keyed => ledger[old.req] \notin Settled
      \/ /\ old.pc = "user" /\ L = {<<"user", UserOf[old.req]>>}
         /\ place = IF old.mode = "approve" THEN "late" ELSE "exec"
      \/ old.pc = "late" /\ place = "exec" /\ L = KeyLock(old.req)
      \/ old.pc = "exec" /\ place = "row" /\ L = {<<"exec", OfferOf[old.req]>>}
      \/ old.pc = "row" /\ place = "decide" /\ L = {<<"offer", OfferOf[old.req]>>}
      \/ old.pc = place /\ L = {}
  BY <1>1 DEF Replayed, Settled
<1>6. InOrder(new, ledger)
  <2> USE DEF InOrder, HasKey, KeyLock
  <2>1. CASE old.pc = "wire" /\ place = "key" /\ L = {}
    BY <1>3, <1>4, <2>1
  <2>2. CASE /\ old.pc = "key" /\ place = "user" /\ L = KeyLock(old.req)
             /\ old.req \in Keyed => ledger[old.req] \notin Settled
    BY <1>3, <1>4, <2>2
  <2>3. CASE /\ old.pc = "user" /\ L = {<<"user", UserOf[old.req]>>}
             /\ place = IF old.mode = "approve" THEN "late" ELSE "exec"
    BY <1>3, <1>4, <2>3
  <2>4. CASE old.pc = "late" /\ place = "exec" /\ L = KeyLock(old.req)
    BY <1>3, <1>4, <2>4
  <2>5. CASE old.pc = "exec" /\ place = "row" /\ L = {<<"exec", OfferOf[old.req]>>}
    BY <1>3, <1>4, <2>5
  <2>6. CASE old.pc = "row" /\ place = "decide" /\ L = {<<"offer", OfferOf[old.req]>>}
    BY <1>3, <1>4, <2>6
  <2>7. CASE old.pc = place /\ L = {}
    BY <1>3, <1>4, <2>7
  <2> QED
    BY <1>5, <2>1, <2>2, <2>3, <2>4, <2>5, <2>6, <2>7
<1> QED
  BY <1>2, <1>6, OrderMove

\* A session takes the next lock, or ends.
LEMMA OrderLocks ==
    ASSUME TradeInv, OrderInv, NEW t \in Tx,
           \/ Arrive(t) \/ LockKey(t) \/ LockUser(t) \/ LockKeyLate(t) \/ LockExecution(t)
           \/ LockOffer(t)
    PROVE  OrderInv'
<1>1. /\ tx[t].pc \in {"wire", "key", "user", "late", "exec", "row"} /\ ledger' = ledger
  BY DEF Arrive, LockKey, LockUser, LockKeyLate, LockExecution, LockOffer, home
<1>2. /\ tx[t].pc \in Places /\ DOMAIN tx = Tx /\ DOMAIN tx[t] = Fields
  BY <1>1, PlaceIsWork DEF Places
<1>3. ASSUME NEW a, Finish(t, a)
      PROVE  OrderInv'
  BY <1>1, <1>3, OrderFinish
<1>4. CASE Arrive(t)
  <2>1. /\ DOMAIN tx' = Tx /\ \A u \in Tx : u # t => tx'[u] = tx[u]
        /\ SameCall(tx[t], tx'[t]) /\ tx'[t].pc = "key" /\ tx'[t].locks = tx[t].locks \cup {}
        /\ tx[t].pc = "wire"
    BY <1>2, <1>4 DEF Arrive, SameCall, Fields
  <2> QED
    BY <1>1, <1>2, <2>1, OrderGoOn
<1>5. CASE LockKey(t)
  <2>1. PICK L : L = KeyLock(tx[t].req)
    OBVIOUS
  <2>2. /\ tx[t].pc = "key"
        /\ \/ \E a : Finish(t, a)
           \/ /\ ~Replayed(tx[t].req)
              /\ tx' = [tx EXCEPT ![t].pc = "user", ![t].locks = @ \cup L]
    BY <1>5, <2>1 DEF LockKey
  <2>3. CASE /\ ~Replayed(tx[t].req)
             /\ tx' = [tx EXCEPT ![t].pc = "user", ![t].locks = @ \cup L]
    <3>1. /\ DOMAIN tx' = Tx /\ \A u \in Tx : u # t => tx'[u] = tx[u]
          /\ SameCall(tx[t], tx'[t]) /\ tx'[t].pc = "user" /\ tx'[t].locks = tx[t].locks \cup L
      BY <1>2, <2>3 DEF SameCall, Fields
    <3> QED
      BY <1>1, <1>2, <2>1, <2>2, <2>3, <3>1, OrderGoOn
  <2> QED
    BY <1>3, <2>2, <2>3
<1>6. CASE LockUser(t)
  <2>1. PICK L : L = {<<"user", UserOf[tx[t].req]>>}
    OBVIOUS
  <2>2. PICK place : place = IF tx[t].mode = "approve" THEN "late" ELSE "exec"
    OBVIOUS
  <2>3. /\ tx[t].pc = "user"
        /\ Finish(t, "refused") \/ tx' = [tx EXCEPT ![t].pc = place, ![t].locks = @ \cup L]
    BY <1>6, <2>1, <2>2 DEF LockUser
  <2>4. CASE tx' = [tx EXCEPT ![t].pc = place, ![t].locks = @ \cup L]
    <3>1. /\ DOMAIN tx' = Tx /\ \A u \in Tx : u # t => tx'[u] = tx[u]
          /\ SameCall(tx[t], tx'[t]) /\ tx'[t].pc = place /\ tx'[t].locks = tx[t].locks \cup L
      BY <1>2, <2>4 DEF SameCall, Fields
    <3> QED
      BY <1>1, <1>2, <2>1, <2>2, <2>3, <3>1, OrderGoOn
  <2> QED
    BY <1>3, <2>3, <2>4
<1>7. CASE LockKeyLate(t)
  <2>1. PICK L : L = KeyLock(tx[t].req)
    OBVIOUS
  <2>2. tx[t].pc = "late" /\ tx' = [tx EXCEPT ![t].pc = "exec", ![t].locks = @ \cup L]
    BY <1>7, <2>1 DEF LockKeyLate
  <2>3. /\ DOMAIN tx' = Tx /\ \A u \in Tx : u # t => tx'[u] = tx[u]
        /\ SameCall(tx[t], tx'[t]) /\ tx'[t].pc = "exec" /\ tx'[t].locks = tx[t].locks \cup L
    BY <1>2, <2>2 DEF SameCall, Fields
  <2> QED
    BY <1>1, <1>2, <2>1, <2>2, <2>3, OrderGoOn
<1>8. CASE LockExecution(t)
  <2>1. PICK L : L = {<<"exec", OfferOf[tx[t].req]>>}
    OBVIOUS
  <2>2. /\ tx[t].pc = "exec"
        /\ \/ Finish(t, "busy")
           \/ tx' = [tx EXCEPT ![t].pc = "row", ![t].gated = FALSE, ![t].locks = @ \cup L]
    BY <1>8, <2>1 DEF LockExecution
  <2>3. CASE tx' = [tx EXCEPT ![t].pc = "row", ![t].gated = FALSE, ![t].locks = @ \cup L]
    <3>1. /\ DOMAIN tx' = Tx /\ \A u \in Tx : u # t => tx'[u] = tx[u]
          /\ SameCall(tx[t], tx'[t]) /\ tx'[t].pc = "row" /\ tx'[t].locks = tx[t].locks \cup L
      BY <1>2, <2>3 DEF SameCall, Fields
    <3> QED
      BY <1>1, <1>2, <2>1, <2>2, <3>1, OrderGoOn
  <2> QED
    BY <1>3, <2>2, <2>3
<1>9. CASE LockOffer(t)
  <2>1. PICK L : L = {<<"offer", OfferOf[tx[t].req]>>}
    OBVIOUS
  <2>2. /\ tx[t].pc = "row"
        /\ tx' = [tx EXCEPT ![t].pc = "decide", ![t].view = offers[OfferOf[tx[t].req]],
                            ![t].locks = @ \cup L]
    BY <1>9, <2>1 DEF LockOffer
  <2>3. /\ DOMAIN tx' = Tx /\ \A u \in Tx : u # t => tx'[u] = tx[u]
        /\ SameCall(tx[t], tx'[t]) /\ tx'[t].pc = "decide" /\ tx'[t].locks = tx[t].locks \cup L
    BY <1>2, <2>2 DEF SameCall, Fields
  <2> QED
    BY <1>1, <1>2, <2>1, <2>2, <2>3, OrderGoOn
<1> QED
  BY <1>4, <1>5, <1>6, <1>7, <1>8, <1>9

\* The caller stops waiting, or the call is lost or forbidden.
LEMMA OrderGone ==
    ASSUME TradeInv, OrderInv, NEW t \in Tx,
           \/ Disconnect(t) \/ TimeOut(t) \/ Break(t) \/ ReplayFails(t) \/ Lose(t) \/ Forbid(t)
    PROVE  OrderInv'
<1>1. DOMAIN tx = Tx /\ ledger' = ledger
  BY DEF TradeInv, Typed, Disconnect, TimeOut, Break, ReplayFails, Lose, Forbid, home
<1>2. CASE Disconnect(t) \/ TimeOut(t) \/ Break(t) \/ ReplayFails(t)
  <2>1. tx[t] # Idle /\ tx' = [tx EXCEPT ![t].caller = "gone"]
    BY <1>2 DEF Disconnect, TimeOut, Break, ReplayFails
  <2>2. DOMAIN tx[t] = Fields /\ tx[t].pc \in Places
    BY <2>1, NotIdle DEF Working
  <2>3. /\ DOMAIN tx' = Tx /\ \A u \in Tx : u # t => tx'[u] = tx[u]
        /\ SameCall(tx[t], tx'[t]) /\ tx'[t].pc = tx[t].pc /\ tx'[t].locks = tx[t].locks \cup {}
    BY <1>1, <2>1, <2>2 DEF SameCall, Fields
  <2> QED
    BY <1>1, <2>2, <2>3, OrderGoOn
<1>3. CASE Lose(t)
  <2>1. tx'[t] = Idle /\ \A u \in Tx : u # t => tx'[u] = tx[u]
    BY <1>1, <1>3 DEF Lose
  <2> QED
    BY <1>1, <2>1, OrderMove, Zenon
<1>4. CASE Forbid(t)
  BY <1>1, <1>4, OrderFinish DEF Forbid
<1> QED
  BY <1>2, <1>3, <1>4

\* An aborted session starts again without locks, or ends.
LEMMA OrderFail ==
    ASSUME TradeInv, OrderInv, NEW t \in Tx, Fail(t)
    PROVE  OrderInv'
<1>1. /\ DOMAIN tx = Tx /\ tx[t].pc \in Places /\ ledger' = ledger
  BY DEF TradeInv, Typed, Fail, home, Places
<1>2. /\ Working(tx[t]) /\ InOrder(tx[t], ledger)
  BY <1>1, AtWork DEF OrderInv
<1>3. CASE Finish(t, "error")
  BY <1>1, <1>3, OrderFinish
<1>4. CASE ~Finish(t, "error")
  <2> DEFINE old == tx[t]
             n == Session(old.req, old.mode, old.caller, old.at, old.gated)
             pc == IF old.mode = "approve" THEN "relock" ELSE "key"
             tries == Min({old.tries + 1, case.tries})
             s == [n EXCEPT !.tries = tries, !.pc = pc, !.locks = {}]
  <2>1. tx' = [tx EXCEPT ![t] = s]
    BY <1>4 DEF Fail
  <2>2. DOMAIN n = Fields /\ n.req = old.req /\ n.mode = old.mode
    BY DEF Session, Fields
  <2> HIDE DEF n, pc, tries
  <2>3. DOMAIN s = Fields /\ s.pc = pc /\ s.locks = {} /\ s.req = old.req /\ s.mode = old.mode
    BY <2>2 DEF Fields
  <2>4. tx'[t] = s /\ \A u \in Tx : u # t => tx'[u] = tx[u]
    BY <1>1, <2>1
  <2> HIDE DEF s
  <2>5. pc = "relock" \/ pc = "key"
    BY DEF pc
  <2>6. InOrder(s, ledger)
    BY <1>2, <2>3, <2>5 DEF InOrder, HasKey
  <2> QED
    BY <1>1, <2>4, <2>6, OrderMove
<1> QED
  BY <1>3, <1>4

\* A retried approval has its row again.
LEMMA OrderRelock ==
    ASSUME TradeInv, OrderInv, NEW t \in Tx, Relock(t)
    PROVE  OrderInv'
<1>1. PICK L : L = {<<"row", tx[t].req>>}
  OBVIOUS
<1>2. /\ tx[t].pc = "relock" /\ ledger' = ledger
      /\ tx' = [tx EXCEPT ![t].pc = "user", ![t].locks = L]
  BY <1>1 DEF Relock, home
<1>3. /\ DOMAIN tx = Tx /\ DOMAIN tx[t] = Fields /\ Working(tx[t]) /\ InOrder(tx[t], ledger)
  BY <1>2, AtWork, PlaceIsWork DEF Places, OrderInv
<1>4. /\ \A u \in Tx : u # t => tx'[u] = tx[u]
      /\ tx'[t].req = tx[t].req /\ tx'[t].mode = tx[t].mode
      /\ tx'[t].pc = "user" /\ tx'[t].locks = L
  BY <1>2, <1>3 DEF Fields
<1>5. tx[t].mode = "approve"
  BY <1>2, <1>3 DEF Working
<1>6. InOrder(tx'[t], ledger)
  BY <1>1, <1>3, <1>4, <1>5 DEF InOrder, HasKey
<1> QED
  BY <1>2, <1>4, <1>6, OrderMove

\* A session decides.
LEMMA OrderDecide ==
    ASSUME TradeInv, OrderInv, NEW t \in Tx,
           AskOwner(t) \/ RepeatRefusal(t) \/ Refuse(t) \/ TooLate(t) \/ Trade(t)
    PROVE  OrderInv'
<1>1. PICK r : r = tx[t].req
  OBVIOUS
<1>2. tx[t].pc = "decide"
  BY DEF AskOwner, RepeatRefusal, Refuse, TooLate, Trade, ReachesOffer, Direct, Deciding
<1>3. PICK a : Finish(t, a)
  BY DEF AskOwner, RepeatRefusal, Refuse, TooLate, Refusal, Trade
<1>4. /\ ledger \in [Requests -> Statuses] /\ r \in Requests /\ InOrder(tx[t], ledger)
      /\ tx[t] # Idle /\ tx[t].mode \in {"direct", "approve"}
  BY <1>1, <1>2, PlaceIsWork DEF TradeInv, Typed, Places, OrderInv
<1>5. CASE ledger' = ledger
  BY <1>3, <1>5, OrderFinish
<1>6. ASSUME r \in Keyed, NEW s, ledger' = [ledger EXCEPT ![r] = s],
             s \in Settled \/ ledger[r] \notin Settled
      PROVE  OrderInv'
  <2>1. /\ \A q \in Requests : q # r \/ q \notin Keyed => KeptOrClosed(q)
        /\ ledger[r] \in Settled => ledger'[r] \in Settled
    BY <1>4, <1>6 DEF KeptOrClosed
  <2> QED
    BY <1>1, <1>2, <1>3, <2>1, OrderCommit
<1>7. CASE AskOwner(t)
  <2>1. ledger' = ledger \/ (r \in Keyed /\ ledger' = [ledger EXCEPT ![r] = "overtime"])
    BY <1>1, <1>7 DEF AskOwner
  <2> QED
    BY <1>5, <1>6, <2>1 DEF Settled
<1>8. CASE Refuse(t)
  <2>1. ASSUME NEW s, Refusal(t, s)
        PROVE  OrderInv'
    <3>1. \/ ledger' = ledger
          \/ r \in Keyed /\ tx[t].mode = "approve" /\ ledger' = [ledger EXCEPT ![r] = "closed"]
          \/ r \in Keyed /\ tx[t].mode = "direct" /\ ledger' = [ledger EXCEPT ![r] = s]
      BY <1>1, <1>4, <2>1 DEF Refusal
    <3>2. r \in Keyed /\ tx[t].mode = "direct" => ledger[r] \notin Settled
      BY <1>1, <1>2, <1>4 DEF InOrder, HasKey
    <3> QED
      BY <1>5, <1>6, <3>1, <3>2 DEF Settled
  <2> QED
    BY <1>5, <1>8, <2>1 DEF Refuse, home
<1>9. CASE RepeatRefusal(t) \/ TooLate(t)
  BY <1>5, <1>9 DEF RepeatRefusal, TooLate, home
<1>10. CASE Trade(t)
  <2>1. /\ \A q \in Requests : q # r \/ q \notin Keyed => KeptOrClosed(q)
        /\ r \in Keyed => ledger'[r] = "completed"
    BY <1>1, <1>10, TradeWrites
  <2>2. ledger[r] \in Settled => ledger'[r] \in Settled
    BY <1>4, <2>1 DEF KeptOrClosed, Settled
  <2> QED
    BY <1>1, <1>2, <1>3, <2>1, <2>2, OrderCommit
<1> QED
  BY <1>7, <1>8, <1>9, <1>10

\* Rows are closed beside the sessions; a closed row is as settled as an open one.
LEMMA OrderEnd ==
    ASSUME TradeInv, OrderInv,
           \/ \E r \in Requests : CloseOvertime(r)
           \/ \E o \in Offers : ExpireByOwner(o)
           \/ ExpiryWrite
    PROVE  OrderInv'
<1>1. ledger \in [Requests -> Statuses] /\ tx' = tx
  BY DEF TradeInv, Typed, CloseOvertime, ExpireByOwner, ExpiryWrite
<1>2. \A o : \A q \in Requests : ClosedWith(o)[q] \in Settled <=> ledger[q] \in Settled
  BY DEF ClosedWith, Settled
<1>3. \/ \E r \in Requests : ledger[r] = "overtime" /\ ledger' = [ledger EXCEPT ![r] = "closed"]
      \/ \E o : ledger' = ClosedWith(o)
      \/ ledger' = ledger
  BY DEF CloseOvertime, ExpireByOwner, ExpiryWrite
<1>4. \A q \in Requests : ledger'[q] \in Settled <=> ledger[q] \in Settled
  <2>1. ASSUME NEW r \in Requests, ledger[r] = "overtime", ledger' = [ledger EXCEPT ![r] = "closed"]
        PROVE  \A q \in Requests : ledger'[q] \in Settled <=> ledger[q] \in Settled
    BY <1>1, <2>1 DEF Settled
  <2> QED
    BY <1>2, <1>3, <2>1
<1> QED
  BY <1>1, <1>4, OrderBeside

\* Every step keeps the order.
LEMMA OrderStep == TradeInv /\ OrderInv /\ [Next]_vars => OrderInv'
<1> SUFFICES ASSUME TradeInv, OrderInv, [Next]_vars PROVE OrderInv'
  OBVIOUS
<1>1. ASSUME tx' = tx, ledger' = ledger
      PROVE  OrderInv'
  BY <1>1, OrderBeside
<1>2. ASSUME NEW t \in Tx, NEW r \in Requests,
             Receive(t, r) \/ Forward(t, r) \/ Approve(t, r) \/ Replay(t, r)
      PROVE  OrderInv'
  BY <1>2, OrderStart
<1>3. ASSUME NEW t \in Tx, Execute(t)
      PROVE  OrderInv'
  BY <1>3, OrderLocks, OrderDecide, OrderRelock DEF Execute
<1>4. ASSUME NEW t \in Tx, \/ Forbid(t) \/ Fail(t) \/ Lose(t) \/ Disconnect(t) \/ TimeOut(t)
                           \/ Break(t) \/ ReplayFails(t)
      PROVE  OrderInv'
  BY <1>4, OrderGone, OrderFail
<1>5. CASE \/ \E r \in Requests : CloseOvertime(r)
           \/ \E o \in Offers : ExpireByOwner(o)
           \/ ExpiryWrite
  BY <1>5, OrderEnd
<1>6. CASE \/ Tick \/ SourceRestart \/ UNCHANGED vars
           \/ \E r \in Requests : GateFull(r) \/ Forget(r)
           \/ \E o \in Offers : ExpiryScan(o)
  BY <1>1, <1>6 DEF Tick, SourceRestart, GateFull, Forget, ExpiryScan, home, vars
<1> QED
  BY <1>2, <1>3, <1>4, <1>5, <1>6 DEF Next, Step

\* The order holds in every reachable state.
LEMMA OrderInvariant == Spec => []OrderInv
<1>1. Init => OrderInv
  BY DEF Init, OrderInv
<1> QED
  BY <1>1, OrderStep, TradeInvariant, PTL DEF Spec

\* How far a session is: it waits only for locks that sessions further on hold.
Progress(t) ==
    CASE tx[t].pc = "key" -> 1
      [] tx[t].pc = "user" -> 2
      [] tx[t].pc = "late" -> 3
      [] tx[t].pc = "exec" -> 4
      [] tx[t].pc = "row" -> 5
      [] tx[t].pc = "decide" -> 6
      [] OTHER -> 0

\* Whoever holds a lock that a session wants is further on.
LEMMA HolderIsFurtherOn ==
    ASSUME TradeInv, OrderInv, NEW t \in Tx, NEW u \in Tx,
           ~Writing(t), NEW l \in Wants(t), l \in Held(u)
    PROVE  Progress(t) < Progress(u)
<1>1. PICK s : s = tx[t]
  OBVIOUS
<1>2. PICK h : h = tx[u]
  OBVIOUS
<1>3. /\ h # Idle /\ l \in h.locks /\ InOrder(h, ledger) /\ Working(h)
  BY <1>2, NotIdle DEF Held, OrderInv
<1>4. /\ s # Idle /\ InOrder(s, ledger) /\ Working(s)
      /\ \/ s.pc \in {"key", "late"} /\ l = <<"key", s.req>> /\ s.req \in Keyed
         \/ s.pc = "user" /\ l = <<"user", UserOf[s.req]>>
         \/ s.pc = "exec" /\ l = <<"exec", OfferOf[s.req]>>
         \/ s.pc = "row" /\ l = <<"offer", OfferOf[s.req]>>
         \/ s.pc = "relock" /\ l = <<"row", s.req>>
  <2>1. \/ s.pc \in {"key", "late"} /\ l = <<"key", s.req>> /\ s.req \in Keyed
        \/ s.pc = "user" /\ l = <<"user", UserOf[s.req]>>
        \/ s.pc = "exec" /\ l = <<"exec", OfferOf[s.req]>>
        \/ s.pc = "row" /\ l = <<"offer", OfferOf[s.req]>>
        \/ s.pc = "relock" /\ l = <<"row", s.req>>
    BY <1>1 DEF Wants, Writing, KeyLock
  <2>2. s # Idle
    BY <2>1 DEF Idle
  <2> QED
    BY <1>1, <2>1, <2>2, NotIdle DEF OrderInv
<1>5. /\ l[1] = "key" => l = <<"key", h.req>> /\ HasKey(h)
      /\ l[1] = "user" => h.pc \in {"late", "exec", "row", "decide"}
      /\ l[1] = "exec" => h.pc \in {"row", "decide"}
      /\ l[1] = "offer" => h.pc = "decide"
      /\ l[1] = "row" => h.pc \in {"user", "late", "exec", "row", "decide"}
  BY <1>3 DEF InOrder
<1>6. s.pc = "late" /\ l[1] = "key" => h.pc # "user"
  <2> SUFFICES ASSUME s.pc = "late", l[1] = "key", h.pc = "user" PROVE FALSE
    OBVIOUS
  <2>1. s.mode = "approve" /\ l = <<"key", s.req>> /\ s.req \in Keyed
    BY <1>4 DEF Working
  <2>2. l = <<"key", h.req>> /\ h.req = s.req /\ h.mode = "direct" /\ HasKey(h)
    BY <1>5, <2>1 DEF HasKey
  <2> QED
    BY <1>3, <1>4, <2>1, <2>2 DEF InOrder
<1>7. /\ Progress(t) = CASE s.pc = "key" -> 1 [] s.pc = "user" -> 2 [] s.pc = "late" -> 3
                         [] s.pc = "exec" -> 4 [] s.pc = "row" -> 5 [] s.pc = "decide" -> 6
                         [] OTHER -> 0
      /\ Progress(u) = CASE h.pc = "key" -> 1 [] h.pc = "user" -> 2 [] h.pc = "late" -> 3
                         [] h.pc = "exec" -> 4 [] h.pc = "row" -> 5 [] h.pc = "decide" -> 6
                         [] OTHER -> 0
  BY <1>1, <1>2 DEF Progress
<1>8. CASE s.pc \in {"key", "late"} /\ l = <<"key", s.req>>
  <2>1. h.pc \in {"exec", "row", "decide"} \/ (s.pc = "key" /\ h.pc = "user")
    BY <1>5, <1>6, <1>8 DEF HasKey
  <2> QED
    BY <1>7, <1>8, <2>1
<1>9. CASE s.pc \notin {"key", "late"}
  <2>1. \/ s.pc = "user" /\ h.pc \in {"late", "exec", "row", "decide"}
        \/ s.pc = "exec" /\ h.pc \in {"row", "decide"}
        \/ s.pc = "row" /\ h.pc = "decide"
        \/ s.pc = "relock" /\ h.pc \in {"user", "late", "exec", "row", "decide"}
    BY <1>4, <1>5, <1>9
  <2> QED
    BY <1>7, <2>1
<1> QED
  BY <1>4, <1>8, <1>9

\* Of the sessions in a set, one is furthest on.
LEMMA FurthestOn ==
    ASSUME NEW W \in SUBSET Tx, W # {}
    PROVE  \E t \in W : \A u \in W : ~(Progress(t) < Progress(u))
<1>1. \A t \in W : Progress(t) \in 0..6
  BY DEF Progress
<1> DEFINE Has(n) == \E t \in W : Progress(t) = n
           Best(n) == \E t \in W : Progress(t) = n /\ \A u \in W : Progress(u) <= n
<1> SUFFICES \E n \in 0..6 : Best(n)
  BY <1>1
<1>2. \A n \in 0..6 : Has(n) /\ (\A m \in 0..6 : n < m => ~Has(m)) => Best(n)
  BY <1>1
<1>3. \E n \in 0..6 : Has(n)
  BY <1>1
<1> HIDE DEF Has, Best
<1> QED
  BY <1>2, <1>3

\* Only a write can close a circle of waiting sessions: of any sessions at work that
\* do not write, however many and wherever they are, one waits for none of the others,
\* although direct sessions lock the key before the user and approvals the user before
\* the key.  The approval of a key has found its row settled, and no direct session
\* keeps the lock of a settled key.
THEOREM WaitsAreInOrder == Spec => []CirclesPassAWrite
<1>1. TradeInv /\ OrderInv => CirclesPassAWrite
  <2> SUFFICES ASSUME TradeInv, OrderInv, NEW W \in SUBSET Tx, W # {},
                      \A t \in W : ~Writing(t)
               PROVE  \E t \in W : \A u \in W \ {t} : Wants(t) \cap MayHold(u) = {}
    BY DEF CirclesPassAWrite
  <2>1. PICK t \in W : \A u \in W : ~(Progress(t) < Progress(u))
    BY FurthestOn
  <2>2. ASSUME NEW u \in W \ {t}
        PROVE  Wants(t) \cap MayHold(u) = {}
    <3>1. MayHold(u) = Held(u)
      BY <2>2 DEF MayHold, Writing
    <3> QED
      BY <2>1, <2>2, <3>1, HolderIsFurtherOn
  <2> QED
    BY <2>2
<1> QED
  BY <1>1, TradeInvariant, OrderInvariant, PTL

-----------------------------------------------------------------------------
(* Types.                                                                  *)

\* What a session read and when its call was received
Read(s) == s.seen \in Nat /\ s.at \in 0..MaxTime

\* The client's and the forwarding server's side
EdgeTyped ==
    /\ DOMAIN sent = Requests /\ \A r \in Requests : sent[r] \in 0..case.attempts[r]
    /\ pending \in [Requests -> {None} \cup Nat]
    /\ since \in [Requests -> 0..MaxTime]
    /\ tasks \subseteq Keyed

ValuesInv ==
    /\ case \in Cases /\ now \in 0..MaxTime
    /\ count \in [Users -> Nat]
    /\ EdgeTyped
    /\ \A t \in Tx : tx[t] = Idle \/ Read(tx[t])

\* A case has numbers of attempts.
LEMMA CaseNumbers ==
    ASSUME ValuesInv
    PROVE  \A r \in Requests : case.attempts[r] \in Nat /\ UserOf[r] \in Users
BY OfferTradeAssumption DEF ValuesInv, CaseType

\* One session changes.
LEMMA ReadMove ==
    ASSUME TradeInv, ValuesInv, NEW t \in Tx, NEW s,
           tx' = [tx EXCEPT ![t] = s] \/ tx' = tx,
           s = Idle \/ Read(s)
    PROVE  \A u \in Tx : tx'[u] = Idle \/ Read(tx'[u])
<1>1. DOMAIN tx = Tx
  BY DEF TradeInv, Typed
<1>2. \A u \in Tx : tx'[u] = s \/ tx'[u] = tx[u]
  BY <1>1
<1> QED
  BY <1>2 DEF ValuesInv

\* A session ends.
LEMMA ValuesFinish ==
    ASSUME TradeInv, ValuesInv, NEW t \in Tx, tx[t].pc \in Places, NEW a, Finish(t, a),
           count' \in [Users -> Nat], case' = case
    PROVE  ValuesInv'
<1>1. tx[t].req \in Requests
  BY PlaceIsWork
<1>2. /\ tx' = [tx EXCEPT ![t] = Idle] /\ UNCHANGED <<sent, since, tasks, now>>
  BY DEF Finish
<1>3. \A u \in Tx : tx'[u] = Idle \/ Read(tx'[u])
  BY <1>2, ReadMove
<1>4. pending' \in [Requests -> {None} \cup Nat]
  <2>1. PICK r : r = tx[t].req
    OBVIOUS
  <2>2. /\ pending \in [Requests -> {None} \cup Nat] /\ r \in Requests
    BY <1>1, <2>1 DEF ValuesInv, EdgeTyped
  <2>3. \/ pending' = pending \/ pending' = [pending EXCEPT ![r] = None]
        \/ pending[r] # None /\ pending' = [pending EXCEPT ![r] = pending[r] + 1]
    BY <2>1, <2>2 DEF Finish
  <2> QED
    BY <2>2, <2>3
<1> QED
  BY <1>2, <1>3, <1>4 DEF ValuesInv, EdgeTyped

\* A session changes and nothing is written.
LEMMA ValuesMove ==
    ASSUME TradeInv, ValuesInv, NEW t \in Tx, NEW s,
           tx' = [tx EXCEPT ![t] = s] \/ tx' = tx, s = Idle \/ Read(s),
           EdgeTyped', UNCHANGED <<count, now, case>>
    PROVE  ValuesInv'
<1>1. \A u \in Tx : tx'[u] = Idle \/ Read(tx'[u])
  BY ReadMove
<1> QED
  BY <1>1 DEF ValuesInv

\* A session is started with what is stored.
LEMMA SessionReads ==
    ASSUME ValuesInv, NEW r \in Requests, NEW mode, NEW caller, NEW at \in 0..MaxTime, NEW gated
    PROVE  LET n == Session(r, mode, caller, at, gated)
           IN  DOMAIN n = Fields /\ Read(n) /\ n.at = at
<1>1. count[UserOf[r]] \in Nat
  BY CaseNumbers DEF ValuesInv
<1>2. PICK n : n = Session(r, mode, caller, at, gated)
  OBVIOUS
<1>3. DOMAIN n = Fields /\ n.at = at /\ n.seen = count[UserOf[r]]
  BY <1>2 DEF Session, Fields
<1> QED
  BY <1>1, <1>2, <1>3 DEF Read

\* Calls start.
LEMMA ValuesStart ==
    ASSUME TradeInv, ValuesInv, case' = case, NEW t \in Tx, NEW r \in Requests,
           Receive(t, r) \/ Forward(t, r) \/ Approve(t, r) \/ Replay(t, r)
    PROVE  ValuesInv'
<1>1. /\ now \in 0..MaxTime /\ since[r] \in 0..MaxTime /\ EdgeTyped
      /\ case.attempts[r] \in Nat /\ \A q \in Requests : sent[q] \in 0..case.attempts[q]
  BY CaseNumbers DEF ValuesInv, EdgeTyped
<1>2. ASSUME sent[r] < case.attempts[r], sent' = [sent EXCEPT ![r] = @ + 1],
             UNCHANGED edge
      PROVE  EdgeTyped'
  <2>1. \A q \in Requests : sent'[q] \in 0..case.attempts[q]
    BY <1>1, <1>2 DEF EdgeTyped
  <2> QED
    BY <1>1, <1>2, <2>1 DEF EdgeTyped, edge
<1>3. CASE Receive(t, r)
  <2>1. PICK gated \in BOOLEAN : tx' = [tx EXCEPT ![t] = Session(r, "direct", "client", now, gated)]
    BY <1>3 DEF Receive
  <2>2. PICK s : s = Session(r, "direct", "client", now, gated)
    OBVIOUS
  <2>3. Read(s)
    BY <1>1, <2>2, SessionReads
  <2>4. EdgeTyped' /\ UNCHANGED <<count, now>>
    BY <1>2, <1>3 DEF Receive, home
  <2> QED
    BY <2>1, <2>2, <2>3, <2>4, ValuesMove
<1>4. CASE Forward(t, r)
  <2>1. PICK gated \in BOOLEAN :
           tx' = [tx EXCEPT ![t] = [Session(r, "direct", "source", now, gated)
                                    EXCEPT !.pc = "wire", !.seen = 0]]
    BY <1>4 DEF Forward
  <2>2. PICK n : n = Session(r, "direct", "source", now, gated)
    OBVIOUS
  <2>3. PICK s : s = [n EXCEPT !.pc = "wire", !.seen = 0]
    OBVIOUS
  <2>4. Read(n) /\ DOMAIN n = Fields
    BY <1>1, <2>2, SessionReads
  <2>5. Read(s)
    BY <2>3, <2>4 DEF Read, Fields
  <2>6. EdgeTyped' /\ UNCHANGED <<count, now>>
    BY <1>2, <1>4 DEF Forward, home
  <2> QED
    BY <2>1, <2>2, <2>3, <2>5, <2>6, ValuesMove
<1>5. CASE Approve(t, r)
  <2>1. PICK s : s = Session(r, "approve", "gone", now, FALSE)
    OBVIOUS
  <2>2. Read(s)
    BY <1>1, <2>1, SessionReads
  <2>3. EdgeTyped' /\ UNCHANGED <<count, now>> /\ tx' = [tx EXCEPT ![t] = s]
    BY <1>1, <1>5, <2>1 DEF Approve, home, edge, EdgeTyped
  <2> QED
    BY <2>2, <2>3, ValuesMove
<1>6. CASE Replay(t, r)
  <2>1. PICK n : n = Session(r, "direct", "replay", since[r], FALSE)
    OBVIOUS
  <2>2. PICK s : s = [n EXCEPT !.pc = "wire", !.seen = 0]
    OBVIOUS
  <2>3. Read(n) /\ DOMAIN n = Fields
    BY <1>1, <2>1, SessionReads
  <2>4. Read(s)
    BY <2>2, <2>3 DEF Read, Fields
  <2>5. EdgeTyped' /\ UNCHANGED <<count, now>>
    BY <1>1, <1>6 DEF Replay, home, EdgeTyped
  <2>6. tx' = [tx EXCEPT ![t] = s] \/ tx' = tx
    BY <1>6, <2>1, <2>2 DEF Replay
  <2> QED
    BY <2>4, <2>5, <2>6, ValuesMove
<1> QED
  BY <1>3, <1>4, <1>5, <1>6

\* A session goes on with what it read.
LEMMA ValuesGoOn ==
    ASSUME TradeInv, ValuesInv, case' = case, NEW t \in Tx, tx[t].pc \in Places,
           DOMAIN tx' = Tx, \A u \in Tx : u # t => tx'[u] = tx[u],
           tx'[t].at = tx[t].at, tx'[t].seen \in {tx[t].seen, count[UserOf[tx[t].req]]},
           EdgeTyped', UNCHANGED <<count, now>>
    PROVE  ValuesInv'
<1>1. Read(tx[t]) /\ tx[t].req \in Requests
  BY PlaceIsWork DEF ValuesInv
<1>2. count[UserOf[tx[t].req]] \in Nat
  BY <1>1, CaseNumbers DEF ValuesInv
<1>3. Read(tx'[t])
  BY <1>1, <1>2 DEF Read
<1>4. \A u \in Tx : tx'[u] = Idle \/ Read(tx'[u])
  BY <1>3 DEF ValuesInv
<1> QED
  BY <1>4 DEF ValuesInv

\* A session at the home server does its next step.
LEMMA ValuesExecute ==
    ASSUME TradeInv, ValuesInv, case' = case, NEW t \in Tx, Execute(t)
    PROVE  ValuesInv'
<1>1. tx[t].pc \in Places
  BY DEF Execute, Arrive, LockKey, LockUser, LockKeyLate, LockExecution, LockOffer, AskOwner,
         RepeatRefusal, Refuse, Trade, TooLate, Relock, ReachesOffer, Direct, Deciding, Places
<1>2. DOMAIN tx = Tx /\ DOMAIN tx[t] = Fields /\ tx[t].req \in Requests /\ tx[t] # Idle
  BY <1>1, PlaceIsWork
<1>3. ASSUME NEW a, Finish(t, a), count' = count
      PROVE  ValuesInv'
  BY <1>1, <1>3, ValuesFinish DEF ValuesInv
<1>4. ASSUME tx' = [tx EXCEPT ![t] = tx'[t]], DOMAIN tx' = Tx, tx'[t].at = tx[t].at,
             tx'[t].seen \in {tx[t].seen, count[UserOf[tx[t].req]]},
             UNCHANGED <<count, now, sent, edge>>
      PROVE  ValuesInv'
  <2>1. EdgeTyped'
    BY <1>4 DEF ValuesInv, EdgeTyped, edge
  <2>2. \A u \in Tx : u # t => tx'[u] = tx[u]
    BY <1>2, <1>4
  <2> QED
    BY <1>1, <1>4, <2>1, <2>2, ValuesGoOn
<1>5. CASE Trade(t)
  <2>1. Finish(t, "created") /\ tx[t].seen \in Nat /\ UserOf[tx[t].req] \in Users
    BY <1>2, <1>5, CaseNumbers DEF Trade, ValuesInv, Read
  <2>2. count' = count \/ count' = [count EXCEPT ![UserOf[tx[t].req]] = tx[t].seen + 1]
    BY <1>5 DEF Trade
  <2>3. count' \in [Users -> Nat]
    BY <2>1, <2>2 DEF ValuesInv
  <2> QED
    BY <1>1, <2>1, <2>3, ValuesFinish
<1>6. CASE AskOwner(t) \/ RepeatRefusal(t) \/ Refuse(t) \/ TooLate(t)
  BY <1>3, <1>6 DEF AskOwner, RepeatRefusal, Refuse, TooLate, Refusal, home
<1>7. CASE Arrive(t)
  <2>1. UNCHANGED <<count, now, sent, edge>>
    BY <1>7 DEF Arrive, home
  <2>2. /\ tx' = [tx EXCEPT ![t] = tx'[t]] /\ DOMAIN tx' = Tx /\ tx'[t].at = tx[t].at
        /\ tx'[t].seen = count[UserOf[tx[t].req]]
    BY <1>2, <1>7 DEF Arrive, Fields
  <2> QED
    BY <1>4, <2>1, <2>2
<1>8. CASE LockKey(t) \/ LockUser(t) \/ LockKeyLate(t) \/ LockExecution(t) \/ LockOffer(t) \/ Relock(t)
  <2>1. /\ count' = count
        /\ \/ \E a : Finish(t, a)
           \/ /\ UNCHANGED <<now, sent, edge>>
              /\ \E p, l : \/ tx' = [tx EXCEPT ![t].pc = p, ![t].locks = l]
                           \/ tx' = [tx EXCEPT ![t].pc = p, ![t].gated = FALSE, ![t].locks = l]
                           \/ tx' = [tx EXCEPT ![t].pc = p, ![t].view = offers[OfferOf[tx[t].req]],
                                               ![t].locks = l]
    BY <1>8 DEF LockKey, LockUser, LockKeyLate, LockExecution, LockOffer, Relock, home
  <2>2. ASSUME NEW p, NEW l, \/ tx' = [tx EXCEPT ![t].pc = p, ![t].locks = l]
                             \/ tx' = [tx EXCEPT ![t].pc = p, ![t].gated = FALSE, ![t].locks = l]
                             \/ tx' = [tx EXCEPT ![t].pc = p, ![t].view = offers[OfferOf[tx[t].req]],
                                                 ![t].locks = l]
        PROVE  /\ tx' = [tx EXCEPT ![t] = tx'[t]] /\ DOMAIN tx' = Tx /\ tx'[t].at = tx[t].at
               /\ tx'[t].seen = tx[t].seen
    <3>1. CASE tx' = [tx EXCEPT ![t].pc = p, ![t].locks = l]
      BY <1>2, <3>1 DEF Fields
    <3>2. CASE tx' = [tx EXCEPT ![t].pc = p, ![t].gated = FALSE, ![t].locks = l]
      BY <1>2, <3>2 DEF Fields
    <3>3. CASE tx' = [tx EXCEPT ![t].pc = p, ![t].view = offers[OfferOf[tx[t].req]], ![t].locks = l]
      BY <1>2, <3>3 DEF Fields
    <3> QED
      BY <2>2, <3>1, <3>2, <3>3
  <2> QED
    BY <1>3, <1>4, <2>1, <2>2
<1> QED
  BY <1>5, <1>6, <1>7, <1>8 DEF Execute

\* Calls fail, get lost, or lose their caller.
LEMMA ValuesLost ==
    ASSUME TradeInv, ValuesInv, case' = case, NEW t \in Tx,
           \/ Forbid(t) \/ Fail(t) \/ Lose(t) \/ Disconnect(t) \/ TimeOut(t) \/ Break(t)
           \/ ReplayFails(t)
    PROVE  ValuesInv'
<1>1. CASE Forbid(t)
  BY <1>1, ValuesFinish DEF Forbid, Places, ValuesInv, home
<1>2. CASE Lose(t)
  <2>1. EdgeTyped' /\ UNCHANGED <<count, now>> /\ tx' = [tx EXCEPT ![t] = Idle]
    BY <1>2 DEF Lose, ValuesInv, EdgeTyped, home, edge
  <2> QED
    BY <2>1, ValuesMove
<1>3. CASE Fail(t)
  <2>1. tx[t].pc \in Places /\ count' = count
    BY <1>3 DEF Fail, Places, home
  <2>2. CASE Finish(t, "error")
    BY <2>1, <2>2, ValuesFinish DEF ValuesInv
  <2>3. CASE ~Finish(t, "error")
    <3> DEFINE old == tx[t]
               n == Session(old.req, old.mode, old.caller, old.at, old.gated)
               pc == IF old.mode = "approve" THEN "relock" ELSE "key"
               tries == Min({old.tries + 1, case.tries})
               s == [n EXCEPT !.tries = tries, !.pc = pc, !.locks = {}]
    <3>1. tx' = [tx EXCEPT ![t] = s] /\ UNCHANGED <<now, sent, edge>>
      BY <1>3, <2>3 DEF Fail
    <3>2. old.req \in Requests /\ old.at \in 0..MaxTime
      BY <2>1, PlaceIsWork DEF ValuesInv, Read
    <3>3. DOMAIN n = Fields /\ Read(n)
      BY <3>2, SessionReads
    <3> HIDE DEF n, pc, tries
    <3>4. Read(s)
      BY <3>3 DEF Read, Fields
    <3> HIDE DEF s
    <3>5. EdgeTyped'
      BY <3>1 DEF ValuesInv, EdgeTyped, edge
    <3> QED
      BY <2>1, <3>1, <3>4, <3>5, ValuesMove
  <2> QED
    BY <2>2, <2>3
<1>4. CASE Disconnect(t) \/ TimeOut(t) \/ Break(t) \/ ReplayFails(t)
  <2>1. /\ tx[t] # Idle /\ tx' = [tx EXCEPT ![t].caller = "gone"] /\ UNCHANGED <<count, now, sent>>
    BY <1>4 DEF Disconnect, TimeOut, Break, ReplayFails, home
  <2>2. /\ DOMAIN tx = Tx /\ DOMAIN tx[t] = Fields /\ tx[t].pc \in Places /\ tx[t].req \in Requests
        /\ tx[t].at \in 0..MaxTime
    BY <2>1, NotIdle DEF Working, TradeInv, Typed, ValuesInv, Read
  <2>3. /\ DOMAIN tx' = Tx /\ \A u \in Tx : u # t => tx'[u] = tx[u]
        /\ tx'[t].at = tx[t].at /\ tx'[t].seen = tx[t].seen
    BY <2>1, <2>2 DEF Fields
  <2>4. PICK r : r = tx[t].req
    OBVIOUS
  <2>5. /\ \/ UNCHANGED edge
           \/ /\ r \in Keyed /\ tasks' = tasks \cup {r}
              /\ pending' = [pending EXCEPT ![r] = IF pending[r] = None THEN 0 ELSE pending[r]]
              /\ \/ since' = [since EXCEPT ![r] = tx[t].at]
                 \/ since' = [since EXCEPT ![r] = since[r]]
           \/ /\ UNCHANGED <<since, tasks>>
              /\ pending' = [pending EXCEPT ![r] = IF pending[r] = None THEN pending[r] ELSE pending[r] + 1]
    <3>1. CASE TimeOut(t)
      BY <2>2, <2>4, <3>1 DEF TimeOut, ValuesInv, EdgeTyped
    <3>2. CASE ReplayFails(t)
      BY <2>2, <2>4, <3>2 DEF ReplayFails, ValuesInv, EdgeTyped
    <3>3. CASE Disconnect(t) \/ Break(t)
      BY <3>3 DEF Disconnect, Break
    <3> QED
      BY <1>4, <3>1, <3>2, <3>3
  <2>6. /\ pending \in [Requests -> {None} \cup Nat] /\ since \in [Requests -> 0..MaxTime]
        /\ tasks \subseteq Keyed /\ r \in Requests
    BY <2>2, <2>4 DEF ValuesInv, EdgeTyped
  <2>7. /\ pending' \in [Requests -> {None} \cup Nat]
    BY <2>5, <2>6 DEF edge
  <2>8. since' \in [Requests -> 0..MaxTime] /\ tasks' \subseteq Keyed
    BY <2>2, <2>5, <2>6 DEF edge
  <2>9. EdgeTyped'
    BY <2>1, <2>7, <2>8 DEF ValuesInv, EdgeTyped
  <2> QED
    BY <2>1, <2>2, <2>3, <2>9, ValuesGoOn
<1> QED
  BY <1>1, <1>2, <1>3, <1>4

\* Every step keeps the types.
LEMMA ValuesStep == TradeInv /\ ValuesInv /\ [Next]_vars => ValuesInv'
<1> SUFFICES ASSUME TradeInv, ValuesInv, [Next]_vars PROVE ValuesInv'
  OBVIOUS
<1>0. case' = case
  BY DEF Next, vars
<1>1. ASSUME NEW t \in Tx, NEW r \in Requests,
             Receive(t, r) \/ Forward(t, r) \/ Approve(t, r) \/ Replay(t, r)
      PROVE  ValuesInv'
  BY <1>0, <1>1, ValuesStart
<1>2. ASSUME NEW t \in Tx, Execute(t)
      PROVE  ValuesInv'
  BY <1>0, <1>2, ValuesExecute
<1>3. ASSUME NEW t \in Tx, \/ Forbid(t) \/ Fail(t) \/ Lose(t) \/ Disconnect(t) \/ TimeOut(t)
                           \/ Break(t) \/ ReplayFails(t)
      PROVE  ValuesInv'
  BY <1>0, <1>3, ValuesLost
<1>4. CASE Tick
  <2>1. now' \in 0..MaxTime
    BY <1>4, OfferTradeAssumption DEF Tick, ValuesInv
  <2> QED
    BY <1>0, <1>4, <2>1 DEF Tick, ValuesInv, EdgeTyped, home, edge
<1>5. ASSUME NEW r \in Requests, GateFull(r)
      PROVE  ValuesInv'
  <2>1. \A q \in Requests : sent'[q] \in 0..case.attempts[q]
    BY <1>5, CaseNumbers DEF GateFull, ValuesInv, EdgeTyped
  <2>2. DOMAIN sent' = Requests
    BY <1>5 DEF GateFull, ValuesInv, EdgeTyped
  <2> QED
    BY <1>0, <1>5, <2>1, <2>2 DEF GateFull, ValuesInv, EdgeTyped, home, edge
<1>6. ASSUME NEW r \in Requests, Forget(r)
      PROVE  ValuesInv'
  <2>1. pending' \in [Requests -> {None} \cup Nat]
    BY <1>6 DEF Forget, ValuesInv, EdgeTyped
  <2> QED
    BY <1>0, <1>6, <2>1 DEF Forget, ValuesInv, EdgeTyped, home
<1>7. CASE SourceRestart
  BY <1>0, <1>7 DEF SourceRestart, ValuesInv, EdgeTyped, home
<1>8. CASE \/ \E r \in Requests : CloseOvertime(r)
           \/ \E o \in Offers : ExpiryScan(o) \/ ExpireByOwner(o)
           \/ ExpiryWrite \/ UNCHANGED vars
  <2>1. UNCHANGED <<count, tx, sent, edge, now>>
    BY <1>8 DEF CloseOvertime, ExpiryScan, ExpireByOwner, ExpiryWrite, vars, home, edge
  <2> QED
    BY <1>0, <2>1 DEF ValuesInv, EdgeTyped, edge
<1> QED
  BY <1>1, <1>2, <1>3, <1>4, <1>5, <1>6, <1>7, <1>8 DEF Next, Step

\* The types hold in every reachable state: counters and attempts stay numbers within
\* their bounds, retained payloads belong to requests with a key, what is left of an
\* offer lies within its quantity and its lots stay a bag.
THEOREM TradeTypeCorrect == Spec => []TypeOK
<1>1. Init => ValuesInv
  <2> SUFFICES ASSUME Init PROVE ValuesInv
    OBVIOUS
  <2>1. \A r \in Requests : case.attempts[r] \in Nat
    BY OfferTradeAssumption DEF Init, CaseType
  <2>2. EdgeTyped
    BY <2>1, OfferTradeAssumption DEF Init, EdgeTyped
  <2> QED
    BY <2>2, OfferTradeAssumption DEF Init, ValuesInv
<1>2. TradeInv /\ StockInv /\ ValuesInv => TypeOK
  <2> SUFFICES ASSUME TradeInv, StockInv, ValuesInv PROVE TypeOK
    OBVIOUS
  <2>1. \A o \in Offers : /\ offers[o].status \in {"active", "expired", "completed"}
                          /\ offers[o].remaining \in 0..Quantity[o]
                          /\ IsABag(offers[o].lots)
    BY DEF StockInv, StockBounded, InStock, LotsOK
  <2> QED
    BY <2>1 DEF TradeInv, Typed, Statuses, ValuesInv, EdgeTyped, TypeOK
<1> QED
  BY <1>1, <1>2, ValuesStep, TradeInvariant, StockInvariant, PTL DEF Spec

=============================================================================
