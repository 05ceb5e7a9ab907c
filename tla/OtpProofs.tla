----------------------------- MODULE OtpProofs ------------------------------
(***************************************************************************)
(* At most one SMS of a login code: the request handler, the resend        *)
(* endpoint and the fallback job all may try, a lease may run out under    *)
(* any of them, processes die and the answers of Redis scripts get lost.   *)
(* What excludes a second provider call is the claim number in the         *)
(* request's hash together with the mark that is set before the call.      *)
(*                                                                         *)
(* And not none: for a code that was put into the sorted set the provider  *)
(* is called before the code is too old, each fault on the way costing one *)
(* lease at most, unless the fault falls between the mark and the call.    *)
(***************************************************************************)
EXTENDS OtpDelivery, TLAPS

-----------------------------------------------------------------------------
(* The inductive invariant *)

Places == {"idle", "done", "arm", "telegram", "schedule", "claim", "mark", "send",
           "record", "cancel", "withdraw", "expire", "resend"}

HashRow ==
  [status : {"missing", "pending", "consumed", "expired"},
   tg : {"not_attempted", "pending", "accepted"},
   sms : Outcomes \cup {"not_attempted", "pending", "cancelled"},
   claim : Nat, lease : Nat, started : BOOLEAN]

Local ==
  [pc : Places, req : Requests \cup {None}, text : Requests \cup {None},
   claim : Nat, got : Outcomes \cup {None}]

\* A running handler knows its request, a provider attempt its text, and a
\* finished call its outcome.
LocalSound(s) ==
  /\ s.pc \notin {"idle", "done", "withdraw"} => s.req \in Requests
  /\ s.pc \in {"mark", "send"} => s.text \in Requests
  /\ s.pc = "record" => s.got \in Outcomes

Typed ==
  /\ case \in Cases
  /\ now \in 0..case.ttl /\ faults \in 0..case.faults
  /\ code \in Requests \cup {None} /\ limit \in Requests \cup {None}
  /\ mobile \in Requests \cup {None}
  /\ born \in [Requests -> 0..case.ttl \cup {None}]
  /\ hash \in [Requests -> HashRow]
  /\ due \in [Requests -> Nat \cup {None}]
  /\ proc \in [Procs -> Local]
  /\ \A p \in Procs : LocalSound(proc[p])
  /\ marked \subseteq Requests /\ known \subseteq Requests /\ promised \subseteq Requests
  /\ calls \in [Requests -> Nat]

\* The attempts under way for a request, and those that may call the provider
Attempts(r) == {p \in Procs : proc[p].req = r /\ proc[p].pc \in {"mark", "send"}}
Sending(r) == {p \in Attempts(r) : proc[p].pc = "send"}

\* The claim script would still hand the request to somebody
Fresh(r) ==
  /\ hash[r].status = "pending"
  /\ hash[r].sms = "not_attempted" \/ (hash[r].sms = "pending" /\ ~hash[r].started)

\* A request that was not made yet has no state in Redis and nobody tries it.
UnmadeIsUntried(r) ==
  born[r] = None => hash[r].status # "pending" /\ calls[r] = 0 /\ Attempts(r) = {}

\* Every attempt has a claim number of its own, none above the one in the hash.
ClaimsApart(r) ==
  /\ hash[r].status = "pending" => \A p \in Attempts(r) : proc[p].claim <= hash[r].claim
  /\ \A p, q \in Attempts(r) : proc[p].claim = proc[q].claim => p = q

\* The holder of the current claim is the first to mark it.
HolderIsFirst(r) ==
  \A p \in Attempts(r) :
    (proc[p].pc = "mark" /\ hash[r].status = "pending" /\ MyClaim(p)) => ~hash[r].started

\* What can still be claimed was never sent, and nobody is about to send it.
FreshIsUnsent(r) == Fresh(r) => calls[r] = 0 /\ Sending(r) = {}

\* Whoever is about to send is alone and the first.
SenderIsAlone(r) ==
  /\ \A p \in Sending(r) : calls[r] = 0
  /\ \A p, q \in Sending(r) : p = q
  /\ calls[r] <= 1

SmsFor(r) ==
  /\ UnmadeIsUntried(r) /\ ClaimsApart(r) /\ HolderIsFirst(r)
  /\ FreshIsUnsent(r) /\ SenderIsAlone(r)

SmsInv == \A r \in Requests : SmsFor(r)

OtpInv == Typed /\ SmsInv

-----------------------------------------------------------------------------
(* Steps that start no attempt *)

\* A hash that is still pending has the claim it had, and is as far as it was
\* or settled.
HashQuietFor(r) ==
  hash'[r].status = "pending" =>
    /\ hash[r].status = "pending" /\ hash'[r].claim = hash[r].claim
    /\ \/ hash'[r].sms = hash[r].sms /\ hash'[r].started = hash[r].started
       \/ hash'[r].sms \notin {"not_attempted", "pending"}

HashQuiet == \A r \in Requests : HashQuietFor(r)

\* Nothing is claimed, marked or called for r: handlers move only out of an
\* attempt, or belong to another request.
QuietFor(r) ==
  /\ calls'[r] = calls[r] /\ born'[r] = born[r]
  /\ HashQuietFor(r)
  /\ \A p \in Procs : \/ proc'[p] = proc[p]
                      \/ proc'[p].pc \notin {"mark", "send"} \/ proc'[p].req # r

\* A quiet step keeps what is known about provider attempts: the argument is the
\* same for arming, scheduling, recording, cancelling, selecting, resending,
\* verifying, locking, crashing and the passage of time, and for the requests
\* that an attempt is not for.
LEMMA QuietKeepsSms ==
  ASSUME NEW r \in Requests, SmsFor(r), QuietFor(r) PROVE SmsFor(r)'
<1>1. /\ UnmadeIsUntried(r) /\ ClaimsApart(r) /\ HolderIsFirst(r)
      /\ FreshIsUnsent(r) /\ SenderIsAlone(r)
  BY DEF SmsFor
<1>2. /\ calls'[r] = calls[r] /\ born'[r] = born[r]
      /\ hash'[r].status = "pending" =>
           /\ hash[r].status = "pending" /\ hash'[r].claim = hash[r].claim
           /\ \/ hash'[r].sms = hash[r].sms /\ hash'[r].started = hash[r].started
              \/ hash'[r].sms \notin {"not_attempted", "pending"}
  BY DEF QuietFor, HashQuietFor
<1>3. \A p \in Attempts(r)' : p \in Attempts(r) /\ proc'[p] = proc[p]
  BY DEF QuietFor, Attempts
<1>4. \A p \in Sending(r)' : p \in Sending(r)
  BY <1>3 DEF Sending
<1>5. UnmadeIsUntried(r)'
  BY <1>1, <1>2, <1>3 DEF UnmadeIsUntried
<1>6. ClaimsApart(r)'
  BY <1>1, <1>2, <1>3 DEF ClaimsApart
<1>7. HolderIsFirst(r)'
  <2> SUFFICES ASSUME NEW p \in Attempts(r)',
                      proc'[p].pc = "mark", hash'[r].status = "pending", MyClaim(p)'
               PROVE  ~hash'[r].started
    BY DEF HolderIsFirst
  <2>1. p \in Attempts(r) /\ proc'[p] = proc[p] /\ proc[p].req = r
    BY <1>3 DEF Attempts
  <2>2. hash'[r].sms = "pending" /\ hash'[r].claim = proc[p].claim
    BY <2>1 DEF MyClaim
  <2>3. hash[r].sms = "pending" /\ hash'[r].started = hash[r].started
    BY <1>2, <2>2
  <2>4. MyClaim(p)
    BY <1>2, <2>1, <2>2, <2>3 DEF MyClaim
  <2> QED
    BY <1>1, <1>2, <2>1, <2>3, <2>4 DEF HolderIsFirst
<1>8. FreshIsUnsent(r)'
  BY <1>1, <1>2, <1>4 DEF FreshIsUnsent, Fresh
<1>9. SenderIsAlone(r)'
  BY <1>1, <1>2, <1>4 DEF SenderIsAlone
<1> QED
  BY <1>5, <1>6, <1>7, <1>8, <1>9 DEF SmsFor

-----------------------------------------------------------------------------
(* Facts about records and bounds *)

\* The numbers of a case are natural numbers.
LEMMA CaseNumbers ==
  ASSUME Typed
  PROVE  /\ case.ttl \in Nat /\ case.fallback \in Nat /\ case.slack \in Nat
         /\ case.lease \in Nat /\ case.minTtl \in Nat /\ case.faults \in Nat
         /\ now \in Nat
BY OtpAssumption DEF Typed, CaseType

\* A script that fails or whose answer is lost counts as a fault, and only as
\* many happen as the case allows.
LEMMA FaultsBounded ==
  ASSUME Typed, NEW res \in ScriptResults, Fault(res), case' = case
  PROVE  /\ faults' \in 0..case'.faults
         /\ res.done \in BOOLEAN /\ res.told \in BOOLEAN /\ (res.told => res.done)
<1>1. \/ res = [done |-> TRUE, told |-> TRUE]
      \/ faults < case.faults /\ res \in {[done |-> FALSE, told |-> FALSE],
                                           [done |-> TRUE, told |-> FALSE]}
  BY DEF ScriptResults
<1>2. res.done \in BOOLEAN /\ res.told \in BOOLEAN /\ (res.told => res.done)
  <2>1. CASE res = [done |-> TRUE, told |-> TRUE]
    BY <2>1, Zenon
  <2>2. CASE res = [done |-> FALSE, told |-> FALSE]
    BY <2>2, Zenon
  <2>3. CASE res = [done |-> TRUE, told |-> FALSE]
    BY <2>3, Zenon
  <2> QED
    BY <1>1, <2>1, <2>2, <2>3
<1>3. ~res.told => faults < case.faults
  BY <1>1
<1> QED
  BY <1>2, <1>3, CaseNumbers DEF Fault, Typed

\* Moving a handler on changes its place and nothing else it knows.
LEMMA LocalMoves ==
  ASSUME NEW s \in Local, NEW pc \in Places, NEW req \in Requests \cup {None}
  PROVE  LET t == [s EXCEPT !.pc = pc]
             u == [s EXCEPT !.pc = pc, !.req = req]
         IN  /\ t \in Local /\ t.pc = pc /\ t.req = s.req /\ t.text = s.text
             /\ t.claim = s.claim /\ t.got = s.got
             /\ u \in Local /\ u.pc = pc /\ u.req = req /\ u.text = s.text
BY DEF Local

\* A handler that stopped knows nothing any more.
LEMMA IdleIsSound ==
  ASSUME NEW pc \in {"idle", "done"}
  PROVE  /\ [Idle EXCEPT !.pc = pc] \in Local /\ [Idle EXCEPT !.pc = pc].pc = pc
         /\ LocalSound([Idle EXCEPT !.pc = pc])
         /\ Idle \in Local /\ Idle.pc = "idle" /\ LocalSound(Idle)
BY DEF Idle, Local, LocalSound, Places, Outcomes

\* An attempt ends in one of the two places where nothing runs.
LEMMA AttemptEnds ==
  ASSUME NEW p PROVE AfterAttempt(p) \in {"idle", "done"}
BY DEF AfterAttempt

\* One handler moves, the others stay where they are.
LEMMA OneMoves ==
  ASSUME Typed, NEW p \in Procs, NEW s \in Local, LocalSound(s),
         proc' = [proc EXCEPT ![p] = s]
  PROVE  /\ proc' \in [Procs -> Local] /\ \A q \in Procs : LocalSound(proc'[q])
         /\ proc'[p] = s /\ \A q \in Procs : q # p => proc'[q] = proc[q]
BY DEF Typed

\* One hash is written.
LEMMA OneHash ==
  ASSUME Typed, NEW r \in Requests, NEW h \in HashRow, hash' = [hash EXCEPT ![r] = h]
  PROVE  /\ hash' \in [Requests -> HashRow]
         /\ hash'[r] = h /\ \A q \in Requests : q # r => hash'[q] = hash[q]
BY DEF Typed

\* What a write to a field of a hash leaves of the others.
LEMMA HashFields ==
  ASSUME NEW h \in HashRow,
         NEW tg \in {"not_attempted", "pending", "accepted"},
         NEW st \in {"missing", "pending", "consumed", "expired"},
         NEW sms \in Outcomes \cup {"not_attempted", "pending", "cancelled"}
  PROVE  LET a == [h EXCEPT !.tg = tg]
             b == [h EXCEPT !.status = st]
             c == [h EXCEPT !.sms = sms]
             d == [h EXCEPT !.started = TRUE]
         IN  /\ a \in HashRow /\ a.status = h.status /\ a.sms = h.sms
             /\ a.claim = h.claim /\ a.started = h.started
             /\ b \in HashRow /\ b.status = st
             /\ c \in HashRow /\ c.status = h.status /\ c.claim = h.claim /\ c.sms = sms
             /\ d \in HashRow /\ d.status = h.status /\ d.claim = h.claim
             /\ d.sms = h.sms /\ d.started = TRUE
BY DEF HashRow

\* Handlers are among the processes.
LEMMA RequestsAreProcs ==
  Requests \subseteq Procs /\ Workers \subseteq Procs /\ Resenders \subseteq Procs
BY DEF Procs

\* A handler moves, to anywhere but an attempt.
LEMMA QuietMove ==
  ASSUME OtpInv, NEW p \in Procs, NEW s \in Local, LocalSound(s),
         s.pc \notin {"mark", "send"}, proc' = [proc EXCEPT ![p] = s],
         HashQuiet, calls' = calls, born' = born
  PROVE  /\ proc' \in [Procs -> Local] /\ \A q \in Procs : LocalSound(proc'[q])
         /\ SmsInv'
<1>1. /\ proc' \in [Procs -> Local] /\ \A q \in Procs : LocalSound(proc'[q])
      /\ proc'[p] = s /\ \A q \in Procs : q # p => proc'[q] = proc[q]
  BY OneMoves DEF OtpInv
<1>2. \A r \in Requests : QuietFor(r)
  BY <1>1 DEF QuietFor, HashQuiet
<1> QED
  BY <1>1, <1>2, QuietKeepsSms DEF OtpInv, SmsInv

\* A step without handlers is quiet when it leaves the hashes alone or ends them.
LEMMA QuietElsewhere ==
  ASSUME OtpInv, proc' = proc, HashQuiet, calls' = calls, born' = born
  PROVE  SmsInv'
<1>1. \A r \in Requests : QuietFor(r)
  BY DEF QuietFor, HashQuiet
<1> QED
  BY <1>1, QuietKeepsSms DEF OtpInv, SmsInv

\* Hashes that stay are quiet.
LEMMA SameHashQuiet == ASSUME hash' = hash PROVE HashQuiet
BY DEF HashQuiet, HashQuietFor

-----------------------------------------------------------------------------
(* The steps of a request handler *)

\* Arming the fallback, scheduling it and the answer of Telegram are quiet.
LEMMA ArmStep ==
  ASSUME OtpInv, case' = case, NEW r \in Requests, NEW res \in ScriptResults, Arm(r, res)
  PROVE  OtpInv'
<1>1. Typed /\ SmsInv /\ r \in Procs /\ proc[r] \in Local /\ hash[r] \in HashRow
  BY RequestsAreProcs DEF OtpInv, Typed
<1> DEFINE ok == hash[r].status = "pending" /\ hash[r].tg = "not_attempted"
           pc == IF ok /\ res.told THEN "telegram" ELSE "claim"
           s == [proc[r] EXCEPT !.pc = pc]
           h == [hash[r] EXCEPT !.tg = "pending"]
<1>2. proc' = [proc EXCEPT ![r] = s]
  BY DEF Arm, Goto
<1>3. s \in Local /\ LocalSound(s) /\ s.pc = pc /\ pc \in {"telegram", "claim"}
  <2>1. pc \in Places /\ pc \in {"telegram", "claim"} /\ None \in Requests \cup {None}
    BY DEF Places
  <2>2. proc[r].pc = "arm" /\ LocalSound(proc[r])
    BY <1>1 DEF Arm, Typed
  <2> HIDE DEF pc
  <2>3. s \in Local /\ s.pc = pc /\ s.req = proc[r].req
    BY <1>1, <2>1, LocalMoves
  <2> QED
    BY <2>1, <2>2, <2>3 DEF LocalSound
<1> HIDE DEF s, pc
<1>4. /\ h \in HashRow /\ h.status = hash[r].status /\ h.sms = hash[r].sms
      /\ h.claim = hash[r].claim /\ h.started = hash[r].started
  BY <1>1, HashFields
<1>5. (hash' = [hash EXCEPT ![r] = h]) \/ hash' = hash
  BY DEF Arm
<1> HIDE DEF h
<1>6. /\ hash' \in [Requests -> HashRow]
      /\ hash'[r] = h \/ hash'[r] = hash[r]
      /\ \A q \in Requests : q # r => hash'[q] = hash[q]
  BY <1>1, <1>4, <1>5, OneHash DEF Typed
<1>7. HashQuiet
  BY <1>4, <1>6 DEF HashQuiet, HashQuietFor
<1>8. /\ proc' \in [Procs -> Local] /\ \A q \in Procs : LocalSound(proc'[q])
      /\ SmsInv'
  BY <1>1, <1>2, <1>3, <1>7, QuietMove DEF Arm
<1>9. due' \in [Requests -> Nat \cup {None}] /\ promised' \subseteq Requests
  BY <1>1, CaseNumbers DEF Arm, Typed
<1>10. faults' \in 0..case'.faults
  BY <1>1, FaultsBounded DEF Arm
<1>11. Typed'
  BY <1>1, <1>6, <1>8, <1>9, <1>10 DEF Typed, Arm, keys
<1> QED
  BY <1>8, <1>11 DEF OtpInv

\* schedule_sms_fallback
LEMMA ScheduleStep ==
  ASSUME OtpInv, case' = case, NEW r \in Requests, NEW res \in ScriptResults,
         Schedule(r, res)
  PROVE  OtpInv'
<1>1. Typed /\ SmsInv /\ r \in Procs /\ proc[r] \in Local /\ hash[r] \in HashRow
  BY RequestsAreProcs DEF OtpInv, Typed
<1> DEFINE ok == hash[r].status = "pending" /\ hash[r].tg \in {"not_attempted", "pending"}
           pc == IF ok /\ res.told THEN "done" ELSE "claim"
           s == [proc[r] EXCEPT !.pc = pc]
           h == [hash[r] EXCEPT !.tg = "accepted"]
<1>2. proc' = [proc EXCEPT ![r] = s]
  BY DEF Schedule, Goto
<1>3. s \in Local /\ LocalSound(s) /\ s.pc = pc /\ pc \in {"done", "claim"}
  <2>1. pc \in Places /\ pc \in {"done", "claim"} /\ None \in Requests \cup {None}
    BY DEF Places
  <2>2. proc[r].pc = "schedule" /\ LocalSound(proc[r])
    BY <1>1 DEF Schedule, Typed
  <2> HIDE DEF pc
  <2>3. s \in Local /\ s.pc = pc /\ s.req = proc[r].req
    BY <1>1, <2>1, LocalMoves
  <2> QED
    BY <2>1, <2>2, <2>3 DEF LocalSound
<1> HIDE DEF s, pc
<1>4. /\ h \in HashRow /\ h.status = hash[r].status /\ h.sms = hash[r].sms
      /\ h.claim = hash[r].claim /\ h.started = hash[r].started
  BY <1>1, HashFields
<1>5. (hash' = [hash EXCEPT ![r] = h]) \/ hash' = hash
  BY DEF Schedule
<1> HIDE DEF h
<1>6. /\ hash' \in [Requests -> HashRow]
      /\ hash'[r] = h \/ hash'[r] = hash[r]
      /\ \A q \in Requests : q # r => hash'[q] = hash[q]
  BY <1>1, <1>4, <1>5, OneHash DEF Typed
<1>7. HashQuiet
  BY <1>4, <1>6 DEF HashQuiet, HashQuietFor
<1>8. /\ proc' \in [Procs -> Local] /\ \A q \in Procs : LocalSound(proc'[q])
      /\ SmsInv'
  BY <1>1, <1>2, <1>3, <1>7, QuietMove DEF Schedule, ghosts
<1>9. due' \in [Requests -> Nat \cup {None}]
  BY <1>1, CaseNumbers DEF Schedule, Typed
<1>10. faults' \in 0..case'.faults
  BY <1>1, FaultsBounded DEF Schedule
<1>11. Typed'
  BY <1>1, <1>6, <1>8, <1>9, <1>10 DEF Typed, Schedule, keys, ghosts
<1> QED
  BY <1>8, <1>11 DEF OtpInv

\* The answer of the foreign server
LEMMA TelegramAnswerStep ==
  ASSUME OtpInv, case' = case, NEW r \in Requests, NEW delivered \in BOOLEAN,
         NEW acknowledged \in BOOLEAN, TelegramAnswer(r, delivered, acknowledged)
  PROVE  OtpInv'
<1>1. Typed /\ r \in Procs /\ proc[r] \in Local /\ LocalSound(proc[r])
  BY RequestsAreProcs DEF OtpInv, Typed
<1> DEFINE pc == IF acknowledged THEN "schedule" ELSE "claim"
           s == [proc[r] EXCEPT !.pc = pc]
<1>2. pc \in Places /\ pc \in {"schedule", "claim"} /\ None \in Requests \cup {None}
  BY DEF Places
<1>3. proc' = [proc EXCEPT ![r] = s]
  BY DEF TelegramAnswer, Goto
<1> HIDE DEF pc
<1>4. s \in Local /\ s.pc = pc /\ s.req = proc[r].req
  BY <1>1, <1>2, LocalMoves
<1>5. LocalSound(s)
  BY <1>1, <1>2, <1>4 DEF LocalSound, TelegramAnswer
<1> HIDE DEF s
<1>6. /\ proc' \in [Procs -> Local] /\ \A q \in Procs : LocalSound(proc'[q])
      /\ SmsInv'
  BY <1>1, <1>2, <1>3, <1>4, <1>5, QuietMove, SameHashQuiet DEF TelegramAnswer
<1>7. known' \subseteq Requests
  BY <1>1 DEF TelegramAnswer, Typed
<1> QED
  BY <1>1, <1>6, <1>7 DEF OtpInv, Typed, TelegramAnswer, keys

\* cancel_otp_delivery, the first await: which request is current.
LEMMA CancelLoadStep ==
  ASSUME OtpInv, case' = case, NEW r \in Requests, CancelLoad(r)
  PROVE  OtpInv'
<1>1. Typed /\ r \in Procs /\ proc[r] \in Local /\ LocalSound(proc[r])
  BY RequestsAreProcs DEF OtpInv, Typed
<1> DEFINE req == IF mobile # None /\ hash[mobile].status # "missing" THEN mobile ELSE None
           s == [proc[r] EXCEPT !.pc = "withdraw", !.req = req]
<1>2. proc' = [proc EXCEPT ![r] = s]
  BY DEF CancelLoad
<1>3. req \in Requests \cup {None} /\ "withdraw" \in Places
  BY <1>1 DEF Typed, Places
<1> HIDE DEF req
<1>4. s \in Local /\ s.pc = "withdraw"
  BY <1>1, <1>3, LocalMoves
<1>5. LocalSound(s)
  BY <1>4 DEF LocalSound
<1> HIDE DEF s
<1>6. /\ proc' \in [Procs -> Local] /\ \A q \in Procs : LocalSound(proc'[q])
      /\ SmsInv'
  BY <1>1, <1>2, <1>4, <1>5, QuietMove, SameHashQuiet DEF CancelLoad, ghosts
<1> QED
  BY <1>1, <1>6 DEF OtpInv, Typed, CancelLoad, keys, ghosts

\* The second await: the keys are deleted.
LEMMA CancelDeleteStep ==
  ASSUME OtpInv, case' = case, NEW r \in Requests, CancelDelete(r)
  PROVE  OtpInv'
<1>1. Typed /\ r \in Procs /\ proc[r] \in Local
  BY RequestsAreProcs DEF OtpInv, Typed
<1> DEFINE pc == IF proc[r].req = None THEN "done" ELSE "expire"
           s == [proc[r] EXCEPT !.pc = pc]
<1>2. proc' = [proc EXCEPT ![r] = s]
  BY DEF CancelDelete, Goto
<1>3. /\ pc \in Places /\ pc \in {"done", "expire"} /\ None \in Requests \cup {None}
      /\ pc = "expire" => proc[r].req \in Requests
  BY <1>1 DEF Places, Local
<1> HIDE DEF pc
<1>4. s \in Local /\ s.pc = pc /\ s.req = proc[r].req
  BY <1>1, <1>3, LocalMoves
<1>5. LocalSound(s)
  BY <1>3, <1>4 DEF LocalSound
<1> HIDE DEF s
<1>6. /\ proc' \in [Procs -> Local] /\ \A q \in Procs : LocalSound(proc'[q])
      /\ SmsInv'
  BY <1>1, <1>2, <1>3, <1>4, <1>5, QuietMove, SameHashQuiet DEF CancelDelete, ghosts
<1> QED
  BY <1>1, <1>6 DEF OtpInv, Typed, CancelDelete, ghosts

\* The third await: the hash is ended, so nobody claims it any more.
LEMMA CancelExpireStep ==
  ASSUME OtpInv, case' = case, NEW r \in Requests, CancelExpire(r)
  PROVE  OtpInv'
<1> DEFINE q == proc[r].req
           h == [hash[q] EXCEPT !.status = "expired"]
           s == [Idle EXCEPT !.pc = "done"]
<1>1. Typed /\ r \in Procs /\ proc[r] \in Local /\ q \in Requests /\ hash[q] \in HashRow
  BY RequestsAreProcs DEF OtpInv, Typed, CancelExpire, LocalSound
<1>2. h \in HashRow /\ h.status = "expired"
  BY <1>1, HashFields
<1>3. hash' = [hash EXCEPT ![q] = h] /\ proc' = [proc EXCEPT ![r] = s]
  BY DEF CancelExpire
<1>4. due' \in [Requests -> Nat \cup {None}]
  BY <1>1 DEF CancelExpire, Typed
<1>5. s \in Local /\ LocalSound(s) /\ s.pc = "done"
  BY IdleIsSound
<1> HIDE DEF h, s, q
<1>6. /\ hash' \in [Requests -> HashRow]
      /\ hash'[q] = h /\ \A u \in Requests : u # q => hash'[u] = hash[u]
  BY <1>1, <1>2, <1>3, OneHash
<1>7. HashQuiet
  BY <1>2, <1>6 DEF HashQuiet, HashQuietFor
<1>8. /\ proc' \in [Procs -> Local] /\ \A u \in Procs : LocalSound(proc'[u])
      /\ SmsInv'
  BY <1>1, <1>3, <1>5, <1>7, QuietMove DEF CancelExpire, ghosts
<1> QED
  BY <1>1, <1>4, <1>6, <1>8 DEF OtpInv, Typed, CancelExpire, keys, ghosts

-----------------------------------------------------------------------------
(* The fallback job, the resend and the login *)

\* The job takes an item that is due, or drops one that is settled.
LEMMA SelectStep ==
  ASSUME OtpInv, case' = case, NEW w \in Workers, NEW r \in Requests, Select(w, r)
  PROVE  OtpInv'
<1>1. Typed /\ w \in Procs /\ proc[w] \in Local
  BY RequestsAreProcs DEF OtpInv, Typed
<1>2. CASE hash[r].status = "pending"
  <2> DEFINE s == [proc[w] EXCEPT !.pc = "claim", !.req = r]
  <2>1. proc' = [proc EXCEPT ![w] = s] /\ due' = due
    BY <1>2 DEF Select
  <2>2. s \in Local /\ s.pc = "claim" /\ s.req = r
    <3>1. "claim" \in Places /\ r \in Requests \cup {None}
      BY DEF Places
    <3> QED
      BY <1>1, <3>1 DEF Local
  <2>3. LocalSound(s)
    BY <2>2 DEF LocalSound
  <2> HIDE DEF s
  <2>4. /\ proc' \in [Procs -> Local] /\ \A q \in Procs : LocalSound(proc'[q])
        /\ SmsInv'
    BY <1>1, <2>1, <2>2, <2>3, QuietMove, SameHashQuiet DEF Select, ghosts
  <2> QED
    BY <1>1, <2>1, <2>4 DEF OtpInv, Typed, Select, keys, ghosts
<1>3. CASE hash[r].status # "pending"
  <2>1. proc' = proc /\ due' \in [Requests -> Nat \cup {None}]
    BY <1>1, <1>3 DEF Select, Typed
  <2>2. SmsInv'
    BY <2>1, QuietElsewhere, SameHashQuiet DEF Select, ghosts
  <2> QED
    BY <1>1, <2>1, <2>2 DEF OtpInv, Typed, Select, keys, ghosts
<1> QED
  BY <1>2, <1>3

\* The resend endpoint reads the code ...
LEMMA ResendReadStep ==
  ASSUME OtpInv, case' = case, NEW r \in Resenders, ResendRead(r)
  PROVE  OtpInv'
<1>1. Typed /\ r \in Procs /\ proc[r] \in Local /\ code \in Requests
  BY RequestsAreProcs DEF OtpInv, Typed, ResendRead
<1> DEFINE s == [proc[r] EXCEPT !.pc = "resend", !.req = code]
<1>2. proc' = [proc EXCEPT ![r] = s]
  BY DEF ResendRead
<1>3. s \in Local /\ s.pc = "resend" /\ s.req = code
  <2>1. "resend" \in Places /\ code \in Requests \cup {None}
    BY <1>1 DEF Places
  <2> QED
    BY <1>1, <2>1 DEF Local
<1>4. LocalSound(s)
  BY <1>1, <1>3 DEF LocalSound
<1> HIDE DEF s
<1>5. /\ proc' \in [Procs -> Local] /\ \A q \in Procs : LocalSound(proc'[q])
      /\ SmsInv'
  BY <1>1, <1>2, <1>3, <1>4, QuietMove, SameHashQuiet DEF ResendRead, ghosts
<1> QED
  BY <1>1, <1>5 DEF OtpInv, Typed, ResendRead, keys, ghosts

\* ... and joins the claim protocol, or sends what it read outside of it.
LEMMA ResendLoadStep ==
  ASSUME OtpInv, case' = case, NEW r \in Resenders, ResendLoad(r)
  PROVE  OtpInv'
<1>1. /\ Typed /\ r \in Procs /\ proc[r] \in Local /\ proc[r].req \in Requests
  BY RequestsAreProcs DEF OtpInv, Typed, ResendLoad, LocalSound
<1>2. CASE mobile # None /\ hash[mobile].status # "missing"
  <2> DEFINE s == [proc[r] EXCEPT !.pc = "claim", !.req = mobile]
  <2>1. proc' = [proc EXCEPT ![r] = s] /\ known' = known /\ mobile \in Requests
    BY <1>1, <1>2 DEF ResendLoad, Typed
  <2>2. s \in Local /\ s.pc = "claim" /\ s.req = mobile
    <3>1. "claim" \in Places /\ mobile \in Requests \cup {None}
      BY <2>1 DEF Places
    <3> QED
      BY <1>1, <3>1 DEF Local
  <2>3. LocalSound(s)
    BY <2>1, <2>2 DEF LocalSound
  <2> HIDE DEF s
  <2>4. /\ proc' \in [Procs -> Local] /\ \A q \in Procs : LocalSound(proc'[q])
        /\ SmsInv'
    BY <1>1, <2>1, <2>2, <2>3, QuietMove, SameHashQuiet DEF ResendLoad
  <2> QED
    BY <1>1, <2>1, <2>4 DEF OtpInv, Typed, ResendLoad, keys
<1>3. CASE ~(mobile # None /\ hash[mobile].status # "missing")
  <2>1. /\ proc' = [proc EXCEPT ![r] = Idle]
        /\ known' \subseteq Requests
    BY <1>1, <1>3 DEF ResendLoad, Typed
  <2>2. Idle \in Local /\ Idle.pc = "idle" /\ LocalSound(Idle)
    BY IdleIsSound
  <2>3. /\ proc' \in [Procs -> Local] /\ \A q \in Procs : LocalSound(proc'[q])
        /\ SmsInv'
    BY <1>1, <2>1, <2>2, QuietMove, SameHashQuiet DEF ResendLoad
  <2> QED
    BY <1>1, <2>1, <2>3 DEF OtpInv, Typed, ResendLoad, keys
<1> QED
  BY <1>2, <1>3

\* A login consumes the code and ends its hash.
LEMMA ConsumeStep ==
  ASSUME OtpInv, case' = case, Consume
  PROVE  OtpInv'
<1>1. Typed
  BY DEF OtpInv
<1>2. hash' \in [Requests -> HashRow] /\ HashQuiet
  <2>1. CASE mobile # None /\ hash[mobile].status = "pending"
    <3> DEFINE h == [hash[mobile] EXCEPT !.status = "consumed"]
    <3>1. mobile \in Requests /\ hash[mobile] \in HashRow
      BY <1>1, <2>1 DEF Typed
    <3>2. h \in HashRow /\ h.status = "consumed"
      BY <3>1, HashFields
    <3>3. hash' = [hash EXCEPT ![mobile] = h]
      BY <2>1 DEF Consume
    <3> HIDE DEF h
    <3>4. /\ hash' \in [Requests -> HashRow]
          /\ hash'[mobile] = h /\ \A u \in Requests : u # mobile => hash'[u] = hash[u]
      BY <1>1, <3>1, <3>2, <3>3, OneHash
    <3> QED
      BY <3>2, <3>4 DEF HashQuiet, HashQuietFor
  <2>2. CASE ~(mobile # None /\ hash[mobile].status = "pending")
    <3>1. hash' = hash
      BY <2>2 DEF Consume
    <3> QED
      BY <1>1, <3>1, SameHashQuiet DEF Typed
  <2> QED
    BY <2>1, <2>2
<1>3. due' \in [Requests -> Nat \cup {None}]
  BY <1>1 DEF Consume, Typed
<1>4. SmsInv'
  BY <1>2, QuietElsewhere DEF Consume, ghosts
<1> QED
  BY <1>1, <1>2, <1>3, <1>4 DEF OtpInv, Typed, Consume, ghosts

\* The login deletes the keys again, a lock-out deletes the code.
LEMMA DeleteSteps ==
  ASSUME OtpInv, case' = case, Cleanup \/ LockOut
  PROVE  OtpInv'
<1>1. Typed
  BY DEF OtpInv
<1>2. /\ hash' = hash /\ proc' = proc /\ calls' = calls /\ born' = born
      /\ due' = due /\ known' = known /\ promised' = promised /\ marked' = marked
      /\ now' = now /\ faults' = faults /\ mobile' = mobile
      /\ code' = None /\ limit' \in {limit, None}
  BY DEF Cleanup, LockOut, ghosts
<1>3. SmsInv'
  BY <1>2, QuietElsewhere, SameHashQuiet
<1>4. Typed'
  BY <1>1, <1>2 DEF Typed
<1> QED
  BY <1>3, <1>4 DEF OtpInv

\* A process dies: what it was about to send is not sent.
LEMMA CrashStep ==
  ASSUME OtpInv, case' = case, NEW p \in Procs, Crash(p)
  PROVE  OtpInv'
<1> DEFINE s == [Idle EXCEPT !.pc = AfterAttempt(p)]
<1>1. Typed /\ proc' = [proc EXCEPT ![p] = s]
  BY DEF OtpInv, Crash
<1>2. s \in Local /\ LocalSound(s) /\ s.pc \in {"idle", "done"}
  BY IdleIsSound, AttemptEnds
<1> HIDE DEF s
<1>3. /\ proc' \in [Procs -> Local] /\ \A q \in Procs : LocalSound(proc'[q])
      /\ SmsInv'
  BY <1>1, <1>2, QuietMove, SameHashQuiet DEF Crash, ghosts
<1>4. faults' \in 0..case'.faults
  BY <1>1, CaseNumbers DEF Crash, Typed
<1> QED
  BY <1>1, <1>3, <1>4 DEF OtpInv, Typed, Crash, keys, ghosts

\* Time passes and Redis drops what is too old.
LEMMA TickStep ==
  ASSUME OtpInv, case' = case, Tick
  PROVE  OtpInv'
<1>1. Typed
  BY DEF OtpInv
<1>2. NoHash \in HashRow /\ NoHash.status = "missing"
  BY DEF NoHash, HashRow
<1>3. \A r \in Requests : hash'[r] = NoHash \/ hash'[r] = hash[r]
  BY DEF Tick
<1>4. hash' \in [Requests -> HashRow]
  <2>1. hash' = [r \in Requests |-> hash'[r]]
    BY DEF Tick
  <2>2. \A r \in Requests : hash'[r] \in HashRow
    BY <1>1, <1>2, <1>3 DEF Typed
  <2> QED
    BY <2>1, <2>2
<1>5. HashQuiet
  BY <1>2, <1>3 DEF HashQuiet, HashQuietFor
<1>6. SmsInv'
  BY <1>5, QuietElsewhere DEF Tick, ghosts
<1>7. now' \in 0..case'.ttl
  BY <1>1, CaseNumbers DEF Tick, Typed
<1>8. code' \in Requests \cup {None} /\ limit' \in Requests \cup {None}
      /\ mobile' \in Requests \cup {None}
  BY <1>1 DEF Tick, Kept, Typed
<1> QED
  BY <1>1, <1>4, <1>6, <1>7, <1>8 DEF OtpInv, Typed, Tick, ghosts

-----------------------------------------------------------------------------
(* The steps of the claim protocol *)

\* What a handler does for one request leaves every other request alone.
LEMMA OthersAreSpared ==
  ASSUME OtpInv, NEW p \in Procs, NEW r \in Requests,
         proc'[p].req = r \/ proc'[p].pc \notin {"mark", "send"},
         \A q \in Procs : q # p => proc'[q] = proc[q],
         \A q \in Requests : q # r =>
            hash'[q] = hash[q] /\ calls'[q] = calls[q] /\ born'[q] = born[q],
         SmsFor(r)'
  PROVE  SmsInv'
<1> SUFFICES ASSUME NEW q \in Requests, q # r PROVE SmsFor(q)'
  BY DEF SmsInv
<1>1. QuietFor(q)
  BY DEF QuietFor, HashQuietFor
<1> QED
  BY <1>1, QuietKeepsSms DEF OtpInv, SmsInv

\* A request is made: nobody tried it before.
LEMMA CreateStep ==
  ASSUME OtpInv, case' = case, NEW r \in Requests, NEW linked \in BOOLEAN,
         Create(r, linked)
  PROVE  OtpInv'
<1> DEFINE s == [Idle EXCEPT !.req = r, !.pc = IF linked THEN "arm" ELSE "claim"]
           h == [NoHash EXCEPT !.status = "pending"]
<1>1. Typed /\ SmsFor(r) /\ r \in Procs /\ born[r] = None /\ proc[r] = Idle
  BY RequestsAreProcs DEF OtpInv, SmsInv, Create
<1>2. hash' = [hash EXCEPT ![r] = h] /\ proc' = [proc EXCEPT ![r] = s]
  BY DEF Create
<1>3. h \in HashRow /\ h.status = "pending" /\ h.sms = "not_attempted" /\ h.claim = 0
  BY DEF NoHash, HashRow
<1>4. s \in Local /\ s.req = r /\ s.pc \in {"arm", "claim"}
  BY DEF Idle, Local, Places, Outcomes
<1>5. LocalSound(s)
  BY <1>4 DEF LocalSound
<1> HIDE DEF s, h
<1>6. /\ hash' \in [Requests -> HashRow]
      /\ hash'[r] = h /\ \A q \in Requests : q # r => hash'[q] = hash[q]
  BY <1>1, <1>2, <1>3, OneHash
<1>7. /\ proc' \in [Procs -> Local] /\ \A q \in Procs : LocalSound(proc'[q])
      /\ proc'[r] = s /\ \A q \in Procs : q # r => proc'[q] = proc[q]
  BY <1>1, <1>2, <1>4, <1>5, OneMoves
<1>8. /\ born' \in [Requests -> 0..case'.ttl \cup {None}]
      /\ born'[r] # None /\ \A q \in Requests : q # r => born'[q] = born[q]
  <2>1. now # None
    BY <1>1, CaseNumbers, OtpAssumption
  <2> QED
    BY <1>1, <2>1 DEF Create, Typed
<1>9. calls[r] = 0 /\ Attempts(r) = {}
  BY <1>1 DEF SmsFor, UnmadeIsUntried
<1>10. calls' = calls
  BY DEF Create, ghosts
<1>11. Attempts(r)' = {}
  BY <1>4, <1>7, <1>9 DEF Attempts
<1>12. SmsFor(r)'
  BY <1>1, <1>8, <1>9, <1>10, <1>11
     DEF SmsFor, UnmadeIsUntried, ClaimsApart, HolderIsFirst, FreshIsUnsent,
         SenderIsAlone, Sending, Typed
<1>13. SmsInv'
  BY <1>1, <1>4, <1>6, <1>7, <1>8, <1>10, <1>12, OthersAreSpared
<1>14. Typed'
  BY <1>1, <1>6, <1>7, <1>8, <1>10 DEF Typed, Create, ghosts
<1> QED
  BY <1>13, <1>14 DEF OtpInv

\* A claim is handed out only for a request that was never sent, under a number
\* no other attempt has; every other verdict of the script is quiet.
LEMMA ClaimStep ==
  ASSUME OtpInv, case' = case, NEW p \in Procs, Claim(p)
  PROVE  OtpInv'
<1>0. PICK r \in Requests : proc[p].req = r
  BY DEF OtpInv, Typed, Claim, LocalSound
<1> DEFINE v == Verdict(p, r)
           n == hash[r].claim + 1
<1>1. /\ Typed /\ proc[p] \in Local /\ proc[p].pc = "claim"
      /\ hash[r] \in HashRow /\ SmsFor(r)
  BY DEF OtpInv, Typed, SmsInv, Claim
<1>2. due' \in [Requests -> Nat \cup {None}] /\ promised' \subseteq Requests
  <2>1. now + case.lease \in Nat
    BY <1>1, CaseNumbers
  <2>2. \E d \in Nat \cup {None} : due' = [due EXCEPT ![r] = d]
    <3>1. CASE v = "leave"
      BY <1>0, <1>1, <3>1 DEF Claim, Typed
    <3>2. CASE v = "claim"
      BY <1>0, <1>1, <2>1, <3>2 DEF Claim
    <3>3. CASE v # "leave" /\ v # "claim"
      BY <1>0, <1>1, <3>3 DEF Claim
    <3> QED
      BY <3>1, <3>2, <3>3
  <2> QED
    BY <1>0, <1>1, <2>2 DEF Claim, Typed
<1>3. CASE v = "claim"
  <2> DEFINE s == [proc[p] EXCEPT !.pc = "mark", !.claim = n, !.text = code]
             h == [hash[r] EXCEPT !.sms = "pending", !.claim = n,
                                  !.lease = now + case.lease, !.started = FALSE]
  <2>1. hash' = [hash EXCEPT ![r] = h] /\ proc' = [proc EXCEPT ![p] = s]
    BY <1>0, <1>3 DEF Claim
  <2>2. Fresh(r) /\ code \in Requests
    BY <1>1, <1>3 DEF Verdict, Fresh, Typed
  <2>3. hash[r].claim \in Nat /\ n \in Nat /\ now + case.lease \in Nat
    BY <1>1, CaseNumbers DEF HashRow
  <2> HIDE DEF n
  <2>4. /\ h \in HashRow /\ h.status = hash[r].status /\ h.sms = "pending"
        /\ h.claim = n /\ h.started = FALSE
    BY <1>1, <2>3 DEF HashRow
  <2>5. s \in Local /\ s.pc = "mark" /\ s.req = r /\ s.claim = n /\ s.text = code
    BY <1>0, <1>1, <2>2, <2>3 DEF Local, Places
  <2>6. LocalSound(s)
    BY <1>1, <2>2, <2>5 DEF LocalSound
  <2>7. \A q \in Attempts(r) : proc[q].claim < n /\ q # p
    <3>1. \A q \in Attempts(r) : proc[q].claim <= hash[r].claim /\ proc[q].claim \in Nat
      BY <1>1, <2>2 DEF SmsFor, ClaimsApart, Fresh, Attempts, Typed, Local
    <3> QED
      BY <1>1, <2>3, <3>1 DEF Attempts, n
  <2> HIDE DEF s, h, v
  <2>8. /\ hash' \in [Requests -> HashRow]
        /\ hash'[r] = h /\ \A q \in Requests : q # r => hash'[q] = hash[q]
    BY <1>1, <2>1, <2>4, OneHash
  <2>9. /\ proc' \in [Procs -> Local] /\ \A q \in Procs : LocalSound(proc'[q])
        /\ proc'[p] = s /\ \A q \in Procs : q # p => proc'[q] = proc[q]
    BY <1>1, <2>1, <2>5, <2>6, OneMoves
  <2>10. calls' = calls /\ born' = born
    BY <1>0 DEF Claim
  <2>11. /\ \A q \in Attempts(r)' : q = p \/ (q \in Attempts(r) /\ proc'[q] = proc[q])
         /\ p \in Attempts(r)'
    BY <2>5, <2>9 DEF Attempts
  <2>12. calls[r] = 0 /\ Sending(r) = {} /\ born[r] # None
    BY <1>1, <2>2 DEF SmsFor, FreshIsUnsent, UnmadeIsUntried, Fresh
  <2>13. Sending(r)' = {}
    BY <2>5, <2>9, <2>11, <2>12 DEF Sending
  <2>14. \A q \in Attempts(r)' : /\ q = p => proc'[q].claim = n
                                 /\ q # p => proc'[q] = proc[q] /\ proc[q].claim < n
                                             /\ q \in Attempts(r)
    BY <2>5, <2>7, <2>9, <2>11
  <2>15. ClaimsApart(r)'
    <3>1. \A q \in Attempts(r)' : proc'[q].claim \in Nat
      BY <2>9 DEF Attempts, Local
    <3>2. \A q \in Attempts(r)' : proc'[q].claim <= hash'[r].claim
      BY <2>3, <2>4, <2>8, <2>14, <3>1
    <3>3. \A q, u \in Attempts(r)' : proc'[q].claim = proc'[u].claim => q = u
      <4> SUFFICES ASSUME NEW q \in Attempts(r)', NEW u \in Attempts(r)',
                          proc'[q].claim = proc'[u].claim
                   PROVE  q = u
        OBVIOUS
      <4>1. CASE q # p /\ u # p
        BY <1>1, <2>14, <4>1 DEF SmsFor, ClaimsApart
      <4>2. CASE q = p \/ u = p
        BY <2>3, <2>14, <3>1, <4>2
      <4> QED
        BY <4>1, <4>2
    <3> QED
      BY <3>2, <3>3 DEF ClaimsApart
  <2>16. HolderIsFirst(r)'
    BY <2>4, <2>8 DEF HolderIsFirst
  <2>17. SmsFor(r)'
    BY <1>1, <2>10, <2>12, <2>13, <2>15, <2>16
       DEF SmsFor, UnmadeIsUntried, FreshIsUnsent, SenderIsAlone
  <2>18. SmsInv'
    BY <1>1, <2>5, <2>8, <2>9, <2>10, <2>17, OthersAreSpared
  <2>19. Typed'
    BY <1>1, <1>2, <2>8, <2>9 DEF Typed, Claim, keys
  <2> QED
    BY <2>18, <2>19 DEF OtpInv
<1>4. CASE v # "claim"
  <2> DEFINE s == [Idle EXCEPT !.pc = AfterAttempt(p)]
  <2>1. proc' = [proc EXCEPT ![p] = s]
    BY <1>0, <1>4 DEF Claim
  <2>2. s \in Local /\ LocalSound(s) /\ s.pc \in {"idle", "done"}
    BY IdleIsSound, AttemptEnds
  <2>3. \E h \in HashRow :
           /\ hash' = [hash EXCEPT ![r] = h]
           /\ \/ h = hash[r] \/ h.status = "expired"
              \/ /\ h.status = hash[r].status /\ h.claim = hash[r].claim
                 /\ h.sms \in {"ambiguous", "cancelled"}
    <3>1. CASE v = "ambiguous"
      <4> DEFINE h == [hash[r] EXCEPT !.sms = "ambiguous"]
      <4>1. hash' = [hash EXCEPT ![r] = h]
        BY <1>0, <3>1 DEF Claim
      <4>2. h \in HashRow /\ h.status = hash[r].status /\ h.claim = hash[r].claim
            /\ h.sms = "ambiguous"
        BY <1>1 DEF HashRow, Outcomes
      <4> QED
        BY <4>1, <4>2
    <3>2. CASE v = "cancel"
      <4> DEFINE h == [hash[r] EXCEPT !.sms = "cancelled"]
      <4>1. hash' = [hash EXCEPT ![r] = h]
        BY <1>0, <3>2 DEF Claim
      <4>2. h \in HashRow /\ h.status = hash[r].status /\ h.claim = hash[r].claim
            /\ h.sms = "cancelled"
        BY <1>1 DEF HashRow
      <4> QED
        BY <4>1, <4>2
    <3>3. CASE v = "expire"
      <4> DEFINE h == [hash[r] EXCEPT !.status = "expired"]
      <4>1. hash' = [hash EXCEPT ![r] = h]
        BY <1>0, <3>3 DEF Claim
      <4>2. h \in HashRow /\ h.status = "expired"
        BY <1>1, HashFields
      <4> QED
        BY <4>1, <4>2
    <3>4. CASE v \notin {"ambiguous", "cancel", "expire"}
      BY <1>0, <1>1, <1>4, <3>4 DEF Claim
    <3> QED
      BY <3>1, <3>2, <3>3, <3>4
  <2> HIDE DEF s, v
  <2>4. PICK h \in HashRow :
           /\ hash' = [hash EXCEPT ![r] = h]
           /\ \/ h = hash[r] \/ h.status = "expired"
              \/ /\ h.status = hash[r].status /\ h.claim = hash[r].claim
                 /\ h.sms \in {"ambiguous", "cancelled"}
    BY <2>3
  <2>5. /\ hash' \in [Requests -> HashRow]
        /\ hash'[r] = h /\ \A q \in Requests : q # r => hash'[q] = hash[q]
    BY <1>1, <2>4, OneHash
  <2>6. HashQuiet
    BY <2>4, <2>5 DEF HashQuiet, HashQuietFor
  <2>7. /\ proc' \in [Procs -> Local] /\ \A q \in Procs : LocalSound(proc'[q])
        /\ SmsInv'
    BY <1>0, <1>1, <2>1, <2>2, <2>6, QuietMove DEF Claim
  <2>8. Typed'
    BY <1>1, <1>2, <2>5, <2>7 DEF Typed, Claim, keys
  <2> QED
    BY <2>7, <2>8 DEF OtpInv
<1> QED
  BY <1>3, <1>4

\* The mark is set by the holder of the claim, who is the first to set it: from
\* then on the request is claimed no more, and only the holder calls.
LEMMA MarkStep ==
  ASSUME OtpInv, case' = case, NEW p \in Procs, NEW res \in ScriptResults, Mark(p, res)
  PROVE  OtpInv'
<1>0. PICK r \in Requests : proc[p].req = r
  BY DEF OtpInv, Typed, Mark, LocalSound
<1>1. /\ Typed /\ proc[p] \in Local /\ proc[p].pc = "mark" /\ LocalSound(proc[p])
      /\ hash[r] \in HashRow /\ SmsFor(r) /\ p \in Attempts(r)
  BY <1>0 DEF OtpInv, Typed, SmsInv, Mark, Attempts
<1>2. /\ faults' \in 0..case'.faults
      /\ res.done \in BOOLEAN /\ res.told \in BOOLEAN /\ (res.told => res.done)
  BY <1>1, FaultsBounded DEF Mark
<1> DEFINE ok == hash[r].status = "pending" /\ MyClaim(p)
           h == [hash[r] EXCEPT !.started = TRUE]
           s == [proc[p] EXCEPT !.pc = "send"]
           e == [Idle EXCEPT !.pc = AfterAttempt(p)]
<1>3. e \in Local /\ LocalSound(e) /\ e.pc \in {"idle", "done"}
  BY IdleIsSound, AttemptEnds
<1>4. marked' \subseteq Requests
  BY <1>0, <1>1 DEF Mark, Typed
<1>5. CASE ok /\ res.done
  <2>1. hash' = [hash EXCEPT ![r] = h]
    BY <1>0, <1>5 DEF Mark
  <2>2. /\ h \in HashRow /\ h.status = hash[r].status /\ h.claim = hash[r].claim
        /\ h.sms = hash[r].sms /\ h.started = TRUE
    BY <1>1 DEF HashRow
  <2>3. /\ s \in Local /\ s.pc = "send" /\ s.req = r /\ s.text = proc[p].text
        /\ s.claim = proc[p].claim
    BY <1>0, <1>1 DEF Local, Places
  <2>4. LocalSound(s)
    BY <1>1, <2>3 DEF LocalSound
  <2>5. \/ proc' = [proc EXCEPT ![p] = s]
        \/ proc' = [proc EXCEPT ![p] = e]
    BY <1>0, <1>5 DEF Mark, Goto
  <2> HIDE DEF s, h, e
  <2>6. /\ hash' \in [Requests -> HashRow]
        /\ hash'[r] = h /\ \A q \in Requests : q # r => hash'[q] = hash[q]
    BY <1>1, <2>1, <2>2, OneHash
  <2>7. /\ proc' \in [Procs -> Local] /\ \A q \in Procs : LocalSound(proc'[q])
        /\ proc'[p] = s \/ proc'[p] = e
        /\ \A q \in Procs : q # p => proc'[q] = proc[q]
    BY <1>1, <1>3, <2>3, <2>4, <2>5, OneMoves
  <2>8. calls' = calls /\ born' = born
    BY DEF Mark
  <2>9. Fresh(r) /\ hash[r].sms = "pending" /\ hash[r].claim = proc[p].claim
    BY <1>0, <1>1, <1>5 DEF Fresh, MyClaim, SmsFor, HolderIsFirst
  <2>10. calls[r] = 0 /\ Sending(r) = {} /\ born[r] # None
    BY <1>1, <2>9 DEF SmsFor, FreshIsUnsent, UnmadeIsUntried, Fresh
  <2>11. \A q \in Attempts(r)' : /\ q \in Attempts(r)
                                 /\ proc'[q].claim = proc[q].claim
                                 /\ q # p => proc'[q] = proc[q]
                                 /\ q = p => proc'[q].pc = "send"
    BY <1>1, <1>3, <2>3, <2>7 DEF Attempts
  <2>12. \A q \in Sending(r)' : q = p
    BY <2>10, <2>11 DEF Sending
  <2>13. ClaimsApart(r)'
    BY <1>1, <2>2, <2>6, <2>11 DEF SmsFor, ClaimsApart
  <2>14. HolderIsFirst(r)'
    <3> SUFFICES ASSUME NEW q \in Attempts(r)', proc'[q].pc = "mark", MyClaim(q)'
                 PROVE  FALSE
      BY DEF HolderIsFirst
    <3>1. q # p /\ q \in Attempts(r) /\ proc'[q] = proc[q] /\ proc[q].req = r
      BY <2>11 DEF Attempts
    <3>2. proc[q].claim = hash[r].claim
      BY <2>2, <2>6, <3>1 DEF MyClaim
    <3> QED
      BY <1>1, <2>9, <3>1, <3>2 DEF SmsFor, ClaimsApart
  <2>15. SmsFor(r)'
    <3>1. ~Fresh(r)'
      BY <2>2, <2>6, <2>9 DEF Fresh
    <3> QED
      BY <1>1, <2>8, <2>10, <2>12, <2>13, <2>14, <3>1
         DEF SmsFor, UnmadeIsUntried, FreshIsUnsent, SenderIsAlone
  <2>16. SmsInv'
    BY <1>1, <1>3, <2>3, <2>6, <2>7, <2>8, <2>15, OthersAreSpared
  <2>17. Typed'
    BY <1>1, <1>2, <1>4, <2>6, <2>7 DEF Typed, Mark, keys
  <2> QED
    BY <2>16, <2>17 DEF OtpInv
<1>6. CASE ~(ok /\ res.done)
  <2>1. hash' = hash /\ marked' = marked /\ proc' = [proc EXCEPT ![p] = e]
    BY <1>0, <1>2, <1>6 DEF Mark
  <2> HIDE DEF e
  <2>2. /\ proc' \in [Procs -> Local] /\ \A q \in Procs : LocalSound(proc'[q])
        /\ SmsInv'
    BY <1>1, <1>3, <2>1, QuietMove, SameHashQuiet DEF Mark
  <2>3. Typed'
    BY <1>1, <1>2, <2>1, <2>2 DEF Typed, Mark, keys
  <2> QED
    BY <2>2, <2>3 DEF OtpInv
<1> QED
  BY <1>5, <1>6

\* The call itself: the caller is alone, the first, and nobody can claim the
\* request again.
LEMMA SendStep ==
  ASSUME OtpInv, case' = case, NEW p \in Procs, NEW outcome \in Outcomes,
         NEW delivered \in BOOLEAN, Send(p, outcome, delivered)
  PROVE  OtpInv'
<1>0. PICK r \in Requests : proc[p].req = r
  BY DEF OtpInv, Typed, Send, LocalSound
<1>1. /\ Typed /\ proc[p] \in Local /\ proc[p].pc = "send" /\ LocalSound(proc[p])
      /\ SmsFor(r) /\ p \in Attempts(r) /\ p \in Sending(r)
  BY <1>0 DEF OtpInv, Typed, SmsInv, Send, Attempts, Sending
<1> DEFINE s == [proc[p] EXCEPT !.pc = "record", !.got = outcome]
<1>2. proc' = [proc EXCEPT ![p] = s]
  BY DEF Send
<1>3. s \in Local /\ s.pc = "record" /\ s.req = r /\ s.got = outcome
  BY <1>0, <1>1 DEF Local, Places
<1>4. LocalSound(s)
  BY <1>3 DEF LocalSound
<1> HIDE DEF s
<1>5. /\ proc' \in [Procs -> Local] /\ \A q \in Procs : LocalSound(proc'[q])
      /\ proc'[p] = s /\ \A q \in Procs : q # p => proc'[q] = proc[q]
  BY <1>1, <1>2, <1>3, <1>4, OneMoves
<1>6. /\ calls[r] = 0 /\ \A q \in Sending(r) : q = p
  BY <1>1 DEF SmsFor, SenderIsAlone
<1>7. /\ calls' \in [Requests -> Nat] /\ calls'[r] = 1
      /\ \A q \in Requests : q # r => calls'[q] = calls[q]
  BY <1>0, <1>1, <1>6 DEF Send, Typed
<1>8. hash' = hash /\ born' = born /\ known' \subseteq Requests
  BY <1>1 DEF Send, Typed, LocalSound
<1>9. /\ \A q \in Attempts(r)' : q # p /\ q \in Attempts(r) /\ proc'[q] = proc[q]
      /\ Sending(r)' = {}
  BY <1>3, <1>5, <1>6 DEF Attempts, Sending
<1>10. ~Fresh(r) /\ born[r] # None
  BY <1>1 DEF SmsFor, FreshIsUnsent, UnmadeIsUntried
<1>11. ClaimsApart(r)'
  BY <1>1, <1>8, <1>9 DEF SmsFor, ClaimsApart
<1>12. HolderIsFirst(r)'
  BY <1>1, <1>8, <1>9 DEF SmsFor, HolderIsFirst, MyClaim
<1>13. SmsFor(r)'
  BY <1>7, <1>8, <1>9, <1>10, <1>11, <1>12
     DEF SmsFor, UnmadeIsUntried, FreshIsUnsent, Fresh, SenderIsAlone
<1>14. SmsInv'
  BY <1>1, <1>3, <1>5, <1>7, <1>8, <1>13, OthersAreSpared
<1>15. Typed'
  BY <1>1, <1>5, <1>7, <1>8 DEF Typed, Send, keys
<1> QED
  BY <1>14, <1>15 DEF OtpInv

\* The outcome settles the hash of the holder and is quiet.
LEMMA RecordStep ==
  ASSUME OtpInv, case' = case, NEW p \in Procs, NEW res \in ScriptResults, Record(p, res)
  PROVE  OtpInv'
<1>0. PICK r \in Requests : proc[p].req = r
  BY DEF OtpInv, Typed, Record, LocalSound
<1>1. /\ Typed /\ proc[p] \in Local /\ proc[p].pc = "record" /\ LocalSound(proc[p])
      /\ hash[r] \in HashRow /\ proc[p].got \in Outcomes
  BY DEF OtpInv, Typed, Record, LocalSound
<1>2. faults' \in 0..case'.faults
  BY <1>1, FaultsBounded DEF Record
<1> DEFINE s == [proc[p] EXCEPT !.pc = "cancel"]
           e == [Idle EXCEPT !.pc = AfterAttempt(p)]
           h == [hash[r] EXCEPT !.sms = proc[p].got]
<1>3. /\ \/ hash' = [hash EXCEPT ![r] = h] \/ hash' = hash
      /\ \/ proc' = [proc EXCEPT ![p] = s] \/ proc' = [proc EXCEPT ![p] = e]
  BY <1>0 DEF Record, Goto
<1>4. due' \in [Requests -> Nat \cup {None}]
  BY <1>0, <1>1 DEF Record, Typed
<1>5. h \in HashRow /\ h.status = hash[r].status /\ h.claim = hash[r].claim
      /\ h.sms \notin {"not_attempted", "pending"}
  BY <1>1 DEF HashRow, Outcomes
<1>6. /\ s \in Local /\ s.pc = "cancel" /\ s.req = r
      /\ e \in Local /\ LocalSound(e) /\ e.pc \in {"idle", "done"}
  <2>1. s \in Local /\ s.pc = "cancel" /\ s.req = r
    BY <1>0, <1>1 DEF Local, Places
  <2> QED
    BY <2>1, IdleIsSound, AttemptEnds
<1>7. LocalSound(s)
  BY <1>6 DEF LocalSound
<1> HIDE DEF s, e, h
<1>8. hash' \in [Requests -> HashRow] /\ HashQuiet
  <2>1. CASE hash' = [hash EXCEPT ![r] = h]
    <3>1. /\ hash' \in [Requests -> HashRow]
          /\ hash'[r] = h /\ \A q \in Requests : q # r => hash'[q] = hash[q]
      BY <1>1, <1>5, <2>1, OneHash
    <3> QED
      BY <1>5, <3>1 DEF HashQuiet, HashQuietFor
  <2>2. CASE hash' = hash
    BY <1>1, <2>2, SameHashQuiet DEF Typed
  <2> QED
    BY <1>3, <2>1, <2>2
<1>9. /\ proc' \in [Procs -> Local] /\ \A q \in Procs : LocalSound(proc'[q])
      /\ SmsInv'
  <2>1. calls' = calls /\ born' = born
    BY DEF Record, ghosts
  <2> QED
    BY <1>3, <1>6, <1>7, <1>8, <2>1, QuietMove
<1>10. Typed'
  BY <1>1, <1>2, <1>4, <1>8, <1>9 DEF Typed, Record, keys, ghosts
<1> QED
  BY <1>9, <1>10 DEF OtpInv

-----------------------------------------------------------------------------
(* The theorems *)

\* Nothing is stored and nobody runs at first.
LEMMA OtpInvInit == Init => OtpInv
<1> SUFFICES ASSUME Init PROVE OtpInv
  OBVIOUS
<1>1. NoHash \in HashRow /\ NoHash.status = "missing"
  BY DEF NoHash, HashRow
<1>2. Idle \in Local /\ Idle.pc = "idle" /\ LocalSound(Idle)
  BY IdleIsSound
<1>3. case \in Cases /\ case.ttl \in Nat /\ case.faults \in Nat
  BY OtpAssumption DEF Init, CaseType
<1>4. Typed
  BY <1>1, <1>2, <1>3 DEF Init, Typed
<1>5. \A r \in Requests : Attempts(r) = {} /\ Sending(r) = {}
  BY <1>2 DEF Init, Attempts, Sending
<1>6. SmsInv
  BY <1>1, <1>5 DEF Init, SmsInv, SmsFor, UnmadeIsUntried, ClaimsApart, HolderIsFirst,
     FreshIsUnsent, Fresh, SenderIsAlone
<1> QED
  BY <1>4, <1>6 DEF OtpInv

\* Every step of every handler, of the job, of a login and of the clock keeps the
\* invariant.
LEMMA OtpInvNext == OtpInv /\ [Next]_vars => OtpInv'
<1> SUFFICES ASSUME OtpInv, [Next]_vars PROVE OtpInv'
  OBVIOUS
<1>1. CASE UNCHANGED vars
  BY <1>1 DEF vars, OtpInv, Typed, SmsInv, SmsFor, UnmadeIsUntried, ClaimsApart,
     HolderIsFirst, FreshIsUnsent, Fresh, SenderIsAlone, Sending, Attempts, MyClaim
<1>2. CASE Step /\ case' = case
  BY <1>2, ArmStep, ScheduleStep, TelegramAnswerStep, CancelLoadStep, CancelDeleteStep,
     CancelExpireStep, SelectStep, ResendReadStep, ResendLoadStep, ConsumeStep,
     DeleteSteps, CrashStep, TickStep, CreateStep, ClaimStep, MarkStep, SendStep,
     RecordStep DEF Step
<1> QED
  BY <1>1, <1>2 DEF Next

-----------------------------------------------------------------------------
(* Calls outside the claim protocol, and attempts that were given up *)

\* The code, the pointer to its request and the request's hash come and go
\* together: who finds the code finds its delivery state.
KeysAgree ==
  code # None => code = mobile /\ hash[code].status # "missing" /\ born[code] # None

\* A code that was sent without a claim is gone, and no request brings it back.
RepeatIsOver == \A r \in Requests : unclaimed[r] # 0 => born[r] # None /\ code # r

ResendKnows == \A p \in Procs : proc[p].pc = "resend" => born[proc[p].req] # None

\* Whoever sets the mark calls the provider, is about to, or was lost.
MarkedIsCalled ==
  \A r \in marked : \/ calls[r] # 0 \/ r \in lost
                    \/ \E p \in Procs : proc[p].pc = "send" /\ proc[p].req = r

CallInv ==
  /\ unclaimed \in [Requests -> Nat] /\ lost \subseteq Requests
  /\ KeysAgree /\ RepeatIsOver /\ ResendKnows /\ MarkedIsCalled

\* A step that stores no code and keeps the hashes that are there.
Steady ==
  /\ code' = code /\ mobile' = mobile /\ born' = born
  /\ \A r \in Requests : hash[r].status # "missing" => hash'[r].status # "missing"

\* A field of a hash is written, the status stays.
LEMMA StatusStays ==
  ASSUME Typed, NEW r \in Requests, NEW h \in HashRow, hash' = [hash EXCEPT ![r] = h],
         hash[r].status # "missing" => h.status # "missing",
         code' = code, mobile' = mobile, born' = born
  PROVE  Steady
BY OneHash DEF Steady

\* A code is stored together with its delivery state and lost before it.
LEMMA KeysNext ==
  ASSUME OtpInv, KeysAgree, Step, case' = case PROVE KeysAgree'
<1>1. Typed /\ None \notin Requests /\ None \notin Nat
  BY OtpAssumption DEF OtpInv
<1>2. ASSUME Steady PROVE KeysAgree'
  BY <1>1, <1>2 DEF Steady, KeysAgree, Typed
<1>3. ASSUME code' = None PROVE KeysAgree'
  BY <1>3 DEF KeysAgree
<1>4. ASSUME code' = code, mobile' = mobile, born' = born, hash' = hash PROVE KeysAgree'
  BY <1>4 DEF KeysAgree
<1>5. ASSUME NEW r \in Requests, NEW linked \in BOOLEAN, Create(r, linked) PROVE KeysAgree'
  <2>1. NoHash \in HashRow /\ [NoHash EXCEPT !.status = "pending"].status # "missing"
    BY DEF NoHash, HashRow
  <2>2. hash'[r].status # "missing" /\ born'[r] = now /\ code' = r /\ mobile' = r
    BY <1>1, <1>5, <2>1 DEF Create, Typed
  <2> QED
    BY <1>1, <2>2, CaseNumbers DEF KeysAgree
<1>6. ASSUME NEW r \in Requests, NEW res \in ScriptResults, Arm(r, res) PROVE KeysAgree'
  <2>1. \/ hash' = hash
        \/ hash' = [hash EXCEPT ![r] = [hash[r] EXCEPT !.tg = "pending"]]
    BY <1>6 DEF Arm
  <2>2. /\ [hash[r] EXCEPT !.tg = "pending"] \in HashRow
        /\ [hash[r] EXCEPT !.tg = "pending"].status = hash[r].status
    BY <1>1 DEF Typed, HashRow
  <2>3. code' = code /\ mobile' = mobile /\ born' = born
    BY <1>6 DEF Arm, keys
  <2> QED
    BY <1>1, <1>2, <1>4, <2>1, <2>2, <2>3, StatusStays
<1>7. ASSUME NEW r \in Requests, NEW res \in ScriptResults, Schedule(r, res) PROVE KeysAgree'
  <2>1. \/ hash' = hash
        \/ hash' = [hash EXCEPT ![r] = [hash[r] EXCEPT !.tg = "accepted"]]
    BY <1>7 DEF Schedule
  <2>2. /\ [hash[r] EXCEPT !.tg = "accepted"] \in HashRow
        /\ [hash[r] EXCEPT !.tg = "accepted"].status = hash[r].status
    BY <1>1 DEF Typed, HashRow
  <2>3. code' = code /\ mobile' = mobile /\ born' = born
    BY <1>7 DEF Schedule, keys
  <2> QED
    BY <1>1, <1>2, <1>4, <2>1, <2>2, <2>3, StatusStays
<1>8. ASSUME NEW p \in Procs, NEW res \in ScriptResults, Mark(p, res) PROVE KeysAgree'
  <2>0. PICK r \in Requests : proc[p].req = r
    BY <1>1, <1>8 DEF Typed, Mark, LocalSound
  <2>1. \/ hash' = hash
        \/ hash' = [hash EXCEPT ![r] = [hash[r] EXCEPT !.started = TRUE]]
    BY <1>8, <2>0 DEF Mark
  <2>2. /\ [hash[r] EXCEPT !.started = TRUE] \in HashRow
        /\ [hash[r] EXCEPT !.started = TRUE].status = hash[r].status
    <3>1. hash[r] \in HashRow
      BY <1>1 DEF Typed
    <3> QED
      BY <3>1 DEF HashRow
  <2>3. code' = code /\ mobile' = mobile /\ born' = born
    BY <1>8 DEF Mark, keys
  <2> QED
    BY <1>1, <1>2, <1>4, <2>1, <2>2, <2>3, StatusStays
<1>9. ASSUME NEW p \in Procs, NEW res \in ScriptResults, Record(p, res) PROVE KeysAgree'
  <2>0. PICK r \in Requests : proc[p].req = r
    BY <1>1, <1>9 DEF Typed, Record, LocalSound
  <2>1. \/ hash' = hash
        \/ hash' = [hash EXCEPT ![r] = [hash[r] EXCEPT !.sms = proc[p].got]]
    BY <1>9, <2>0 DEF Record
  <2>2. proc[p].got \in Outcomes
    BY <1>1, <1>9 DEF Typed, Record, LocalSound
  <2>3. /\ [hash[r] EXCEPT !.sms = proc[p].got] \in HashRow
        /\ [hash[r] EXCEPT !.sms = proc[p].got].status = hash[r].status
    BY <1>1, <2>2 DEF Typed, HashRow
  <2>4. code' = code /\ mobile' = mobile /\ born' = born
    BY <1>9 DEF Record, keys
  <2> QED
    BY <1>1, <1>2, <1>4, <2>1, <2>3, <2>4, StatusStays
<1>10. ASSUME NEW p \in Procs, Claim(p) PROVE KeysAgree'
  <2>0. PICK r \in Requests : proc[p].req = r
    BY <1>1, <1>10 DEF Typed, Claim, LocalSound
  <2> DEFINE n == hash[r].claim + 1
             a == [hash[r] EXCEPT !.sms = "ambiguous"]
             b == [hash[r] EXCEPT !.status = "expired"]
             c == [hash[r] EXCEPT !.sms = "cancelled"]
             d == [hash[r] EXCEPT !.sms = "pending", !.claim = n,
                                  !.lease = now + case.lease, !.started = FALSE]
  <2>1. \E h \in {a, b, c, d, hash[r]} : hash' = [hash EXCEPT ![r] = h]
    <3> DEFINE v == Verdict(p, r)
    <3>1. hash' = [hash EXCEPT ![r] =
            CASE v = "ambiguous" -> a [] v = "expire" -> b [] v = "cancel" -> c
              [] v = "claim" -> d [] OTHER -> hash[r]]
      BY <1>10, <2>0 DEF Claim
    <3> HIDE DEF v, a, b, c, d
    <3> QED
      BY <3>1
  <2>2. \A h \in {a, b, c, d, hash[r]} :
          h \in HashRow /\ (hash[r].status # "missing" => h.status # "missing")
    <3>1. hash[r] \in HashRow /\ now \in Nat /\ case.lease \in Nat
      BY <1>1, CaseNumbers DEF Typed
    <3>2. a \in HashRow /\ a.status = hash[r].status
      BY <3>1 DEF HashRow, Outcomes
    <3>3. b \in HashRow /\ b.status = "expired"
      BY <3>1 DEF HashRow
    <3>4. c \in HashRow /\ c.status = hash[r].status
      BY <3>1 DEF HashRow
    <3>5. d \in HashRow /\ d.status = hash[r].status
      <4>1. n \in Nat /\ now + case.lease \in Nat
        BY <3>1 DEF HashRow
      <4> HIDE DEF n
      <4> QED
        BY <3>1, <4>1 DEF HashRow
    <3> HIDE DEF a, b, c, d
    <3> QED
      BY <3>1, <3>2, <3>3, <3>4, <3>5
  <2>3. code' = code /\ mobile' = mobile /\ born' = born
    BY <1>10 DEF Claim, keys
  <2> HIDE DEF a, b, c, d
  <2> QED
    BY <1>1, <1>2, <2>1, <2>2, <2>3, StatusStays
<1>11. ASSUME NEW r \in Requests, CancelExpire(r) PROVE KeysAgree'
  <2>0. PICK q \in Requests : proc[r].req = q
    BY <1>1, <1>11, RequestsAreProcs DEF Typed, CancelExpire, LocalSound
  <2>1. hash' = [hash EXCEPT ![q] = [hash[q] EXCEPT !.status = "expired"]]
    BY <1>11, <2>0 DEF CancelExpire
  <2>2. /\ [hash[q] EXCEPT !.status = "expired"] \in HashRow
        /\ [hash[q] EXCEPT !.status = "expired"].status # "missing"
    BY <1>1 DEF Typed, HashRow
  <2>3. code' = code /\ mobile' = mobile /\ born' = born
    BY <1>11 DEF CancelExpire, keys
  <2> QED
    BY <1>1, <1>2, <2>1, <2>2, <2>3, StatusStays
<1>12. ASSUME Tick PROVE KeysAgree'
  <2> SUFFICES ASSUME code' # None
               PROVE  code' = mobile' /\ hash'[code'].status # "missing" /\ born'[code'] # None
    BY DEF KeysAgree
  <2>1. code' = code /\ code # None /\ Live(code, now + 1)
    BY <1>12 DEF Tick, Kept
  <2>2. mobile = code /\ hash[code].status # "missing" /\ born[code] # None /\ code \in Requests
    BY <1>1, <2>1 DEF KeysAgree, Typed
  <2>3. mobile' = mobile /\ born' = born /\ hash'[code] = hash[code]
    BY <1>12, <2>1, <2>2 DEF Tick, Kept
  <2> QED
    BY <2>1, <2>2, <2>3
<1>13. ASSUME NEW r \in Requests,
              \/ CancelLoad(r) \/ CancelDelete(r)
              \/ \E delivered, acknowledged \in BOOLEAN :
                   TelegramAnswer(r, delivered, acknowledged)
       PROVE  KeysAgree'
  BY <1>3, <1>4, <1>13 DEF CancelLoad, CancelDelete, TelegramAnswer, keys
<1>14. ASSUME NEW p \in Procs,
              \/ Crash(p)
              \/ \E outcome \in Outcomes, delivered \in BOOLEAN : Send(p, outcome, delivered)
       PROVE  KeysAgree'
  BY <1>4, <1>14 DEF Crash, Send, keys
<1>15. ASSUME NEW w \in Workers, NEW r \in Requests, Select(w, r) PROVE KeysAgree'
  BY <1>4, <1>15 DEF Select, keys
<1>16. ASSUME NEW q \in Resenders, ResendRead(q) \/ ResendLoad(q) PROVE KeysAgree'
  BY <1>4, <1>16 DEF ResendRead, ResendLoad, keys
<1>17. ASSUME Consume \/ Cleanup \/ LockOut PROVE KeysAgree'
  BY <1>3, <1>17 DEF Consume, Cleanup, LockOut
<1> QED
  BY <1>5, <1>6, <1>7, <1>8, <1>9, <1>10, <1>11, <1>12, <1>13, <1>14, <1>15, <1>16,
     <1>17 DEF Step

Calls == <<marked, calls, unclaimed, lost>>

\* A step that neither calls the provider nor begins or ends a call.
NoCall ==
  /\ UNCHANGED Calls /\ UNCHANGED born /\ code' \in {code, None}
  /\ \A p \in Procs : /\ proc'[p].pc = "resend" => proc'[p] = proc[p]
                      /\ proc[p].pc = "send" => proc'[p] = proc[p]

LEMMA NoCallKeeps ==
  ASSUME OtpInv, CallInv, NoCall, KeysAgree' PROVE CallInv'
<1>1. None \notin Requests
  BY OtpAssumption
<1>2. RepeatIsOver' /\ ResendKnows' /\ MarkedIsCalled'
  BY <1>1 DEF NoCall, Calls, CallInv, RepeatIsOver, ResendKnows, MarkedIsCalled
<1> QED
  BY <1>2 DEF CallInv, NoCall, Calls

\* A handler moves on, neither out of a call nor into a resend.
LEMMA MoveIsNoCall ==
  ASSUME Typed, NEW p \in Procs, NEW t, proc' = [proc EXCEPT ![p] = t],
         proc[p].pc # "send", t.pc # "resend",
         UNCHANGED Calls, UNCHANGED born, code' \in {code, None}
  PROVE  NoCall
BY DEF NoCall, Typed

\* Every step keeps what is known about calls.
LEMMA CallNext == OtpInv /\ CallInv /\ [Next]_vars => CallInv'
<1> SUFFICES ASSUME OtpInv, CallInv, [Next]_vars PROVE CallInv'
  OBVIOUS
<1>1. /\ Typed /\ None \notin Requests /\ None \notin Nat /\ unclaimed \in [Requests -> Nat]
      /\ lost \subseteq Requests /\ KeysAgree /\ RepeatIsOver /\ ResendKnows /\ MarkedIsCalled
  BY OtpAssumption DEF OtpInv, CallInv
<1>2. CASE UNCHANGED vars
  BY <1>2 DEF vars, CallInv, KeysAgree, RepeatIsOver, ResendKnows, MarkedIsCalled
<1>3. CASE Step /\ case' = case
  <2>1. KeysAgree' /\ Typed'
    BY <1>1, <1>2, <1>3, KeysNext, OtpInvNext DEF OtpInv, Next
  <2>2. ASSUME NoCall PROVE CallInv'
    BY <2>1, <2>2, NoCallKeeps
  <2>3. \A p \in Procs : Idle.pc # "resend" /\ [Idle EXCEPT !.pc = AfterAttempt(p)].pc # "resend"
    BY AttemptEnds, IdleIsSound
  <2>4. ASSUME proc' = proc, UNCHANGED Calls, UNCHANGED born, code' \in {code, None}
        PROVE  CallInv'
    BY <2>2, <2>4 DEF NoCall
  <2>5. ASSUME NEW p \in Procs, NEW pc \in Places, NEW req \in Requests \cup {None},
               \/ proc' = [proc EXCEPT ![p].pc = pc]
               \/ proc' = [proc EXCEPT ![p].pc = pc, ![p].req = req],
               proc[p].pc # "send", pc # "resend",
               UNCHANGED Calls, UNCHANGED born, code' \in {code, None}
        PROVE  CallInv'
    <3> DEFINE t == [proc[p] EXCEPT !.pc = pc]
               u == [proc[p] EXCEPT !.pc = pc, !.req = req]
    <3>1. t.pc = pc /\ u.pc = pc
      BY <1>1 DEF Typed, Local
    <3>2. \/ proc' = [proc EXCEPT ![p] = t]
          \/ proc' = [proc EXCEPT ![p] = u]
      BY <2>5
    <3> HIDE DEF t, u
    <3> QED
      BY <1>1, <2>2, <2>5, <3>1, <3>2, MoveIsNoCall
  <2>6. ASSUME NEW p \in Procs, proc' = [proc EXCEPT ![p] = [Idle EXCEPT !.pc = AfterAttempt(p)]],
               proc[p].pc # "send", UNCHANGED Calls, UNCHANGED born, code' \in {code, None}
        PROVE  CallInv'
    BY <1>1, <2>2, <2>3, <2>6, MoveIsNoCall
  <2>7. ASSUME NEW r \in Requests, NEW linked \in BOOLEAN, Create(r, linked) PROVE CallInv'
    <3> DEFINE t == [Idle EXCEPT !.req = r, !.pc = IF linked THEN "arm" ELSE "claim"]
    <3>1. r \in Procs /\ t.pc \in {"arm", "claim"} /\ proc[r].pc = "idle"
      BY <2>7, RequestsAreProcs DEF Create, Idle
    <3>2. proc' = [proc EXCEPT ![r] = t]
      BY <2>7 DEF Create
    <3> HIDE DEF t
    <3>3. UNCHANGED Calls /\ code' = r /\ born' = [born EXCEPT ![r] = now] /\ born[r] = None
      BY <2>7 DEF Create, ghosts, Calls
    <3>4. now \in Nat /\ \A q \in Requests : born[q] # None => born'[q] # None
      BY <1>1, <3>3, CaseNumbers DEF Typed
    <3>5. RepeatIsOver'
      BY <1>1, <3>3, <3>4 DEF RepeatIsOver, Calls
    <3>6. ResendKnows'
      <4> SUFFICES ASSUME NEW p \in Procs, proc'[p].pc = "resend" PROVE born'[proc'[p].req] # None
        BY DEF ResendKnows
      <4>1. proc'[p] = proc[p]
        BY <1>1, <3>1, <3>2 DEF Typed
      <4>2. proc[p].req \in Requests
        BY <1>1, <4>1 DEF Typed, LocalSound
      <4> QED
        BY <1>1, <3>4, <4>1, <4>2 DEF ResendKnows
    <3>7. MarkedIsCalled'
      BY <1>1, <3>1, <3>2, <3>3 DEF MarkedIsCalled, Calls, Typed
    <3> QED
      BY <1>1, <2>1, <3>3, <3>5, <3>6, <3>7 DEF CallInv, Calls
  <2>8. ASSUME NEW r \in Requests, NEW res \in ScriptResults, Arm(r, res) PROVE CallInv'
    <3>1. \E pc \in {"telegram", "claim"} : proc' = [proc EXCEPT ![r].pc = pc]
      BY <2>8 DEF Arm, Goto
    <3>2. UNCHANGED Calls /\ UNCHANGED born /\ code' = code /\ proc[r].pc = "arm"
      BY <2>8 DEF Arm, Calls, keys
    <3> QED
      BY <2>5, <3>1, <3>2, RequestsAreProcs DEF Places
  <2>9. ASSUME NEW r \in Requests, NEW res \in ScriptResults, Schedule(r, res) PROVE CallInv'
    <3>1. \E pc \in {"done", "claim"} : proc' = [proc EXCEPT ![r].pc = pc]
      BY <2>9 DEF Schedule, Goto
    <3>2. UNCHANGED Calls /\ UNCHANGED born /\ code' = code /\ proc[r].pc = "schedule"
      BY <2>9 DEF Schedule, Calls, keys, ghosts
    <3> QED
      BY <2>5, <3>1, <3>2, RequestsAreProcs DEF Places
  <2>10. ASSUME NEW r \in Requests, NEW delivered \in BOOLEAN, NEW acknowledged \in BOOLEAN,
                TelegramAnswer(r, delivered, acknowledged) PROVE CallInv'
    <3>1. \E pc \in {"schedule", "claim"} : proc' = [proc EXCEPT ![r].pc = pc]
      BY <2>10 DEF TelegramAnswer, Goto
    <3>2. UNCHANGED Calls /\ UNCHANGED born /\ code' = code /\ proc[r].pc = "telegram"
      BY <2>10 DEF TelegramAnswer, Calls, keys
    <3> QED
      BY <2>5, <3>1, <3>2, RequestsAreProcs DEF Places
  <2>11. ASSUME NEW r \in Requests, CancelLoad(r) PROVE CallInv'
    <3>1. \E req \in Requests \cup {None} :
            proc' = [proc EXCEPT ![r].pc = "withdraw", ![r].req = req]
      BY <1>1, <2>11 DEF CancelLoad, Typed
    <3>2. UNCHANGED Calls /\ UNCHANGED born /\ code' = code /\ proc[r].pc = "cancel"
      BY <2>11 DEF CancelLoad, Calls, keys, ghosts
    <3> QED
      BY <2>5, <3>1, <3>2, RequestsAreProcs DEF Places
  <2>12. ASSUME NEW r \in Requests, CancelDelete(r) PROVE CallInv'
    <3>1. \E pc \in {"done", "expire"} : proc' = [proc EXCEPT ![r].pc = pc]
      BY <2>12 DEF CancelDelete, Goto
    <3>2. UNCHANGED Calls /\ UNCHANGED born /\ code' = None /\ proc[r].pc = "withdraw"
      BY <2>12 DEF CancelDelete, Calls, ghosts
    <3> QED
      BY <2>5, <3>1, <3>2, RequestsAreProcs DEF Places
  <2>13. ASSUME NEW r \in Requests, CancelExpire(r) PROVE CallInv'
    <3>1. proc' = [proc EXCEPT ![r] = [Idle EXCEPT !.pc = "done"]] /\ r \in Procs
      BY <2>13, RequestsAreProcs DEF CancelExpire
    <3>2. UNCHANGED Calls /\ UNCHANGED born /\ code' = code /\ proc[r].pc = "expire"
      BY <2>13 DEF CancelExpire, Calls, keys, ghosts
    <3>3. [Idle EXCEPT !.pc = "done"].pc # "resend"
      BY DEF Idle
    <3> QED
      BY <1>1, <2>2, <3>1, <3>2, <3>3, MoveIsNoCall
  <2>14. ASSUME NEW p \in Procs, Claim(p) PROVE CallInv'
    <3> DEFINE t == [proc[p] EXCEPT !.pc = "mark", !.claim = hash[proc[p].req].claim + 1,
                                    !.text = code]
               e == [Idle EXCEPT !.pc = AfterAttempt(p)]
    <3>1. \/ proc' = [proc EXCEPT ![p] = t]
          \/ proc' = [proc EXCEPT ![p] = e]
      BY <2>14 DEF Claim
    <3>2. t.pc = "mark" /\ e.pc # "resend"
      BY <1>1, <2>3 DEF Typed, Local
    <3>3. UNCHANGED Calls /\ UNCHANGED born /\ code' = code /\ proc[p].pc = "claim"
      BY <2>14 DEF Claim, Calls, keys
    <3> HIDE DEF t, e
    <3> QED
      BY <1>1, <2>2, <3>1, <3>2, <3>3, MoveIsNoCall
  <2>15. ASSUME NEW p \in Procs, NEW res \in ScriptResults, Mark(p, res) PROVE CallInv'
    <3>0. PICK r \in Requests : proc[p].req = r
      BY <1>1, <2>15 DEF Typed, Mark, LocalSound
    <3> DEFINE ok == hash[r].status = "pending" /\ MyClaim(p)
               t == [proc[p] EXCEPT !.pc = "send"]
               e == [Idle EXCEPT !.pc = AfterAttempt(p)]
    <3>1. /\ t.pc = "send" /\ t.req = r /\ e.pc # "resend"
      BY <1>1, <2>3, <3>0 DEF Typed, Local
    <3>2. /\ unclaimed' = unclaimed /\ calls' = calls /\ born' = born /\ code' = code
          /\ proc[p].pc = "mark"
      BY <2>15 DEF Mark, keys
    <3>3. \/ proc' = [proc EXCEPT ![p] = t] /\ ok /\ res.told
          \/ proc' = [proc EXCEPT ![p] = e] /\ ~(ok /\ res.told)
      BY <2>15, <3>0 DEF Mark, Goto
    <3>4. /\ marked' = IF ok /\ res.done THEN marked \cup {r} ELSE marked
          /\ lost' = IF ok /\ res.done /\ ~res.told THEN lost \cup {r} ELSE lost
      BY <2>15, <3>0 DEF Mark
    <3> HIDE DEF t, e, ok
    <3>5. RepeatIsOver'
      BY <1>1, <3>2 DEF RepeatIsOver
    <3>6. ResendKnows'
      BY <1>1, <3>1, <3>2, <3>3 DEF ResendKnows, Typed
    <3>7. MarkedIsCalled'
      <4> SUFFICES ASSUME NEW q \in marked'
                   PROVE  \/ calls'[q] # 0 \/ q \in lost'
                          \/ \E u \in Procs : proc'[u].pc = "send" /\ proc'[u].req = q
        BY DEF MarkedIsCalled
      <4>1. CASE q \in marked
        <5>1. \A u \in Procs : proc[u].pc = "send" => proc'[u] = proc[u]
          BY <1>1, <3>2, <3>3 DEF Typed
        <5> QED
          BY <1>1, <3>2, <3>4, <4>1, <5>1 DEF MarkedIsCalled
      <4>2. CASE q \notin marked
        <5>1. q = r /\ ok /\ res.done
          BY <3>4, <4>2
        <5>2. CASE res.told
          <6>1. proc'[p] = t
            BY <1>1, <3>3, <5>1, <5>2 DEF Typed
          <6> QED
            BY <3>1, <5>1, <6>1
        <5>3. CASE ~res.told
          BY <3>4, <5>1, <5>3
        <5> QED
          BY <5>2, <5>3
      <4> QED
        BY <4>1, <4>2
    <3> QED
      BY <1>1, <2>1, <3>2, <3>4, <3>5, <3>6, <3>7 DEF CallInv
  <2>16. ASSUME NEW p \in Procs, NEW outcome \in Outcomes, NEW delivered \in BOOLEAN,
                Send(p, outcome, delivered) PROVE CallInv'
    <3>0. PICK r \in Requests : proc[p].req = r
      BY <1>1, <2>16 DEF Typed, Send, LocalSound
    <3> DEFINE t == [proc[p] EXCEPT !.pc = "record", !.got = outcome]
    <3>1. t.pc = "record" /\ proc' = [proc EXCEPT ![p] = t]
      BY <1>1, <2>16 DEF Typed, Local, Send
    <3>2. /\ unclaimed' = unclaimed /\ lost' = lost /\ marked' = marked /\ born' = born
          /\ code' = code /\ calls' = [calls EXCEPT ![r] = @ + 1]
      BY <2>16, <3>0 DEF Send, keys
    <3> HIDE DEF t
    <3>3. /\ \A q \in Requests : calls[q] # 0 => calls'[q] # 0
          /\ calls'[r] # 0
      BY <1>1, <3>2 DEF Typed
    <3>4. \A u \in Procs : u # p => proc'[u] = proc[u]
      BY <1>1, <3>1 DEF Typed
    <3>5. MarkedIsCalled'
      <4> SUFFICES ASSUME NEW q \in marked, q # r
                   PROVE  \/ calls'[q] # 0 \/ q \in lost'
                          \/ \E u \in Procs : proc'[u].pc = "send" /\ proc'[u].req = q
        BY <3>2, <3>3 DEF MarkedIsCalled
      <4>1. q \in Requests
        BY <1>1 DEF Typed
      <4> QED
        BY <1>1, <3>0, <3>2, <3>3, <3>4, <4>1 DEF MarkedIsCalled
    <3>6. ResendKnows'
      BY <1>1, <3>1, <3>2, <3>4 DEF ResendKnows, Typed
    <3> QED
      BY <1>1, <2>1, <3>2, <3>5, <3>6 DEF CallInv, RepeatIsOver
  <2>17. ASSUME NEW p \in Procs, NEW res \in ScriptResults, Record(p, res) PROVE CallInv'
    <3>1. \/ proc' = [proc EXCEPT ![p].pc = "cancel"]
          \/ proc' = [proc EXCEPT ![p] = [Idle EXCEPT !.pc = AfterAttempt(p)]]
      BY <2>17 DEF Record, Goto
    <3>2. UNCHANGED Calls /\ UNCHANGED born /\ code' = code /\ proc[p].pc = "record"
      BY <2>17 DEF Record, Calls, keys, ghosts
    <3> QED
      BY <2>5, <2>6, <3>1, <3>2 DEF Places
  <2>18. ASSUME NEW p \in Procs, Crash(p) PROVE CallInv'
    <3> DEFINE e == [Idle EXCEPT !.pc = AfterAttempt(p)]
    <3>1. proc' = [proc EXCEPT ![p] = e] /\ e.pc # "resend"
      BY <2>3, <2>18 DEF Crash
    <3>2. /\ unclaimed' = unclaimed /\ marked' = marked /\ born' = born
          /\ code' = code /\ calls' = calls
          /\ lost' = IF proc[p].pc = "send" THEN lost \cup {proc[p].req} ELSE lost
      BY <2>18 DEF Crash, keys
    <3> HIDE DEF e
    <3>3. \A u \in Procs : u # p => proc'[u] = proc[u]
      BY <1>1, <3>1 DEF Typed
    <3>4. lost' \subseteq Requests
      BY <1>1, <3>2 DEF Typed, LocalSound
    <3>5. MarkedIsCalled'
      BY <1>1, <3>2, <3>3 DEF MarkedIsCalled
    <3>6. ResendKnows'
      BY <1>1, <3>1, <3>2, <3>3 DEF ResendKnows, Typed
    <3> QED
      BY <1>1, <2>1, <3>2, <3>4, <3>5, <3>6 DEF CallInv, RepeatIsOver
  <2>19. ASSUME NEW w \in Workers, NEW r \in Requests, Select(w, r) PROVE CallInv'
    <3>1. proc' = proc \/ proc' = [proc EXCEPT ![w].pc = "claim", ![w].req = r]
      BY <2>19 DEF Select
    <3>2. UNCHANGED Calls /\ UNCHANGED born /\ code' = code /\ proc[w].pc = "idle"
      BY <2>19 DEF Select, Calls, keys, ghosts, Idle
    <3> QED
      BY <2>4, <2>5, <3>1, <3>2, RequestsAreProcs DEF Places
  <2>20. ASSUME NEW q \in Resenders, ResendRead(q) PROVE CallInv'
    <3> DEFINE t == [proc[q] EXCEPT !.pc = "resend", !.req = code]
    <3>1. /\ q \in Procs /\ t.pc = "resend" /\ t.req = code /\ proc' = [proc EXCEPT ![q] = t]
          /\ proc[q].pc = "idle" /\ code # None
      BY <1>1, <2>20, RequestsAreProcs DEF Typed, Local, ResendRead, Idle
    <3>2. UNCHANGED Calls /\ UNCHANGED born /\ code' = code
      BY <2>20 DEF ResendRead, Calls, keys, ghosts
    <3> HIDE DEF t
    <3>3. proc'[q] = t /\ \A u \in Procs : u # q => proc'[u] = proc[u]
      BY <1>1, <3>1 DEF Typed
    <3>4. ResendKnows'
      BY <1>1, <3>1, <3>2, <3>3 DEF ResendKnows, KeysAgree
    <3>5. MarkedIsCalled'
      BY <1>1, <3>1, <3>2, <3>3 DEF MarkedIsCalled, Calls
    <3> QED
      BY <1>1, <2>1, <3>2, <3>4, <3>5 DEF CallInv, RepeatIsOver, Calls
  <2>21. ASSUME NEW q \in Resenders, ResendLoad(q) PROVE CallInv'
    <3>1. proc[q].pc = "resend" /\ q \in Procs
      BY <2>21, RequestsAreProcs DEF ResendLoad
    <3>2. CASE mobile # None /\ hash[mobile].status # "missing"
      <4>1. proc' = [proc EXCEPT ![q].pc = "claim", ![q].req = mobile]
        BY <2>21, <3>2 DEF ResendLoad
      <4>2. UNCHANGED Calls /\ UNCHANGED born /\ code' = code
        BY <2>21, <3>2 DEF ResendLoad, Calls, keys
      <4>3. mobile \in Requests \cup {None}
        BY <1>1 DEF Typed
      <4> QED
        BY <2>5, <3>1, <4>1, <4>2, <4>3 DEF Places
    <3>3. CASE ~(mobile # None /\ hash[mobile].status # "missing")
      <4>0. PICK r \in Requests : proc[q].req = r
        BY <1>1, <3>1 DEF Typed, LocalSound
      <4>1. /\ unclaimed' = [unclaimed EXCEPT ![r] = @ + 1] /\ proc' = [proc EXCEPT ![q] = Idle]
            /\ lost' = lost /\ marked' = marked /\ calls' = calls /\ born' = born
            /\ code' = code
        BY <2>21, <3>3, <4>0 DEF ResendLoad, keys
      <4>2. code # r /\ born[r] # None
        BY <1>1, <3>1, <3>3, <4>0 DEF KeysAgree, ResendKnows
      <4>3. RepeatIsOver' /\ unclaimed' \in [Requests -> Nat]
        BY <1>1, <4>1, <4>2 DEF RepeatIsOver
      <4>4. proc'[q] = Idle /\ Idle.pc = "idle" /\ \A u \in Procs : u # q => proc'[u] = proc[u]
        BY <1>1, <3>1, <4>1 DEF Typed, Idle
      <4>5. ResendKnows' /\ MarkedIsCalled'
        BY <1>1, <3>1, <4>1, <4>4 DEF ResendKnows, MarkedIsCalled
      <4> QED
        BY <1>1, <2>1, <4>1, <4>3, <4>5 DEF CallInv
    <3> QED
      BY <3>2, <3>3
  <2>22. ASSUME Consume \/ Cleanup \/ LockOut \/ Tick PROVE CallInv'
    <3>1. proc' = proc /\ UNCHANGED Calls /\ UNCHANGED born /\ code' \in {code, None}
      BY <2>22 DEF Consume, Cleanup, LockOut, Tick, Kept, Calls, ghosts
    <3> QED
      BY <2>4, <3>1
  <2> QED
    BY <1>3, <2>7, <2>8, <2>9, <2>10, <2>11, <2>12, <2>13, <2>14, <2>15, <2>16, <2>17,
       <2>18, <2>19, <2>20, <2>21, <2>22 DEF Step
<1> QED
  BY <1>2, <1>3 DEF Next

LEMMA CallInit == Init => CallInv
BY DEF Init, CallInv, KeysAgree, RepeatIsOver, ResendKnows, MarkedIsCalled, Idle

-----------------------------------------------------------------------------
(* The theorems about the state and about calls *)

\* The state of Redis and of the handlers is well formed: a handler that runs
\* knows the request it works on.
THEOREM OtpTypeCorrect == Spec => []TypeOK
<1>1. OtpInv /\ CallInv => TypeOK
  BY DEF OtpInv, CallInv, Typed, TypeOK, HashRow, Local
<1>2. OtpInv /\ CallInv /\ [Next]_vars => (OtpInv /\ CallInv)'
  BY OtpInvNext, CallNext
<1> QED
  BY <1>1, <1>2, OtpInvInit, CallInit, PTL DEF Spec

\* Under the claim protocol the SMS provider is called at most once for a login
\* request, for any number of requests, runners of the job and resends, whatever
\* lease runs out, process dies or script answer is lost (claim_sms_delivery,
\* mark_sms_provider_attempt_started); and the resend that sends without a claim
\* (auth.py, "Legacy compatibility") never sends the code that is stored: it
\* repeats only codes that were consumed, withdrawn or expired since it read them.
THEOREM OneSmsPerRequest == Spec => []OneSms
<1>1. OtpInv /\ CallInv => OneSms
  BY DEF OtpInv, SmsInv, SmsFor, SenderIsAlone, CallInv, RepeatIsOver, OneSms
<1>2. OtpInv /\ CallInv /\ [Next]_vars => (OtpInv /\ CallInv)'
  BY OtpInvNext, CallNext
<1> QED
  BY <1>1, <1>2, OtpInvInit, CallInit, PTL DEF Spec

-----------------------------------------------------------------------------
(* The fallback: what the attempt of a promised request waits for *)

\* Handlers and job keep up, and the leases that faults can cost fit into the
\* code's life.
EnoughTime ==
  /\ case.timely
  /\ case.fallback + case.slack + case.faults * case.lease + case.minTtl <= case.ttl

\* When the request is tried again at the latest, after the faults so far
Latest(r) == born[r] + case.fallback + case.slack + faults * case.lease

\* Until an attempt is marked nobody is past the mark and no outcome is recorded.
UnmarkedIsUnsent(r) ==
  r \notin marked =>
    /\ ~hash[r].started /\ hash[r].sms \notin Outcomes
    /\ \A p \in Procs : proc[p].req = r => proc[p].pc \notin {"send", "record"}

Prompt == {"arm", "telegram", "schedule", "claim"}

\* A handler acts in the unit of time of its request, and for that request.
HandlerIsPrompt(r) ==
  /\ proc[r].pc \in Prompt => proc[r].req = r /\ born[r] = now
  /\ r \in promised => born[r] # None
  /\ born[r] # None => born[r] <= now

Waiting(r) == r \in promised /\ r \notin marked

\* The code of the request is the one that is stored, and its hash is there.
Current(r) == hash[r].status = "pending" /\ code = r

\* A code that is waiting for its SMS is not given up.
NotGivenUp(r) ==
  Current(r) /\ (born[r] = now \/ Waiting(r)) => hash[r].sms # "cancelled"

\* p holds the claim of the request and is about to mark it.
Holds(p, r) == proc[p].pc = "mark" /\ proc[p].req = r /\ MyClaim(p)

\* Somebody holds the claim: the lease began just now.
BeingTried(r) ==
  /\ \E p \in Procs : Holds(p, r)
  /\ due[r] = now + case.lease /\ now <= Latest(r)

\* It is in the sorted set, not overdue, and due in time: a further lease is
\* either a claim in progress or was paid for with a fault.
DueInTime(r) ==
  Current(r) /\ Waiting(r) =>
    due[r] # None /\ now <= due[r] /\ (due[r] <= Latest(r) \/ BeingTried(r))

FallbackFor(r) ==
  UnmarkedIsUnsent(r) /\ HandlerIsPrompt(r) /\ NotGivenUp(r) /\ DueInTime(r)

FallbackInv == EnoughTime => \A r \in Requests : FallbackFor(r)

-----------------------------------------------------------------------------
(* Arithmetic of the deadline *)

\* The products in the deadline: a fault costs one lease.
LEMMA FaultTime ==
  ASSUME Typed
  PROVE  /\ faults \in Nat /\ faults * case.lease \in Nat
         /\ case.faults * case.lease \in Nat
         /\ faults * case.lease <= case.faults * case.lease
         /\ (faults + 1) * case.lease = faults * case.lease + case.lease
<1>1. PICK f \in Nat : f = faults
  BY CaseNumbers DEF Typed
<1>2. PICK m \in Nat : m = case.faults
  BY CaseNumbers
<1>3. PICK l \in Nat : l = case.lease
  BY CaseNumbers
<1>4. f <= m
  BY <1>1, <1>2 DEF Typed
<1>5. f * l \in Nat /\ m * l \in Nat /\ (f + 1) * l = f * l + l
  OBVIOUS
<1>6. PICK d \in Nat : m = f + d
  BY <1>4
<1>7. m * l = f * l + d * l /\ d * l \in Nat
  BY <1>6
<1>8. f * l <= m * l
  BY <1>5, <1>7
<1> QED
  BY <1>1, <1>2, <1>3, <1>5, <1>8

\* The deadline of a made request: at least the recovery time after it, early
\* enough for the code to be sent, and moved by one lease with a fault.
LEMMA Deadline ==
  ASSUME Typed, EnoughTime, NEW r \in Requests, born[r] # None
  PROVE  /\ born[r] \in Nat /\ Latest(r) \in Nat
         /\ born[r] + case.fallback + case.slack <= Latest(r)
         /\ Latest(r) + case.minTtl <= born[r] + case.ttl
         /\ born'[r] = born[r] /\ case' = case =>
              /\ faults' = faults => Latest(r)' = Latest(r)
              /\ faults' = faults + 1 => Latest(r)' = Latest(r) + case.lease
<1>1. born[r] \in Nat
  BY CaseNumbers DEF Typed
<1>2. PICK x \in Nat : x = faults * case.lease
  BY FaultTime
<1>3. PICK y \in Nat : y = case.faults * case.lease
  BY FaultTime
<1>4. x <= y /\ (faults + 1) * case.lease = x + case.lease
  BY <1>2, <1>3, FaultTime
<1>5. Latest(r) = born[r] + case.fallback + case.slack + x
  BY <1>2 DEF Latest
<1>6. case.fallback + case.slack + y + case.minTtl <= case.ttl
  BY <1>3 DEF EnoughTime
<1>7. /\ Latest(r) \in Nat /\ born[r] + case.fallback + case.slack <= Latest(r)
      /\ Latest(r) + case.minTtl <= born[r] + case.ttl
  BY <1>1, <1>4, <1>5, <1>6, CaseNumbers
<1>8. ASSUME born'[r] = born[r], case' = case, faults' = faults
      PROVE  Latest(r)' = Latest(r)
  BY <1>8 DEF Latest
<1>9. ASSUME born'[r] = born[r], case' = case, faults' = faults + 1
      PROVE  Latest(r)' = Latest(r) + case.lease
  <2>1. Latest(r)' = born[r] + case.fallback + case.slack + (x + case.lease)
    BY <1>4, <1>9 DEF Latest
  <2> QED
    BY <1>1, <1>5, <2>1, CaseNumbers
<1> QED
  BY <1>1, <1>7, <1>8, <1>9

-----------------------------------------------------------------------------
(* Steps that keep the promise by themselves *)

\* A process stays, or: it is not past the mark of an unmarked request, a handler
\* is prompt, and giving a claim back before the mark costs a fault.
MoveCalm(p, r) ==
  \/ proc'[p] = proc[p]
  \/ /\ proc'[p].req = r /\ proc'[p].pc \in {"send", "record"} => r \in marked'
     /\ p = r /\ proc'[p].pc \in Prompt => proc'[p].req = r /\ born[r] = now
     /\ hash[r].status = "pending" /\ Holds(p, r) =>
          r \in marked' \/ faults' = faults + 1

HashCalm(r) ==
  /\ hash'[r].status = "pending" =>
       /\ hash[r].status = "pending"
       /\ hash'[r].sms = "cancelled" => hash[r].sms = "cancelled"
  /\ r \notin marked' => /\ hash'[r].sms = hash[r].sms
                         /\ hash'[r].claim = hash[r].claim
                         /\ hash'[r].started = hash[r].started

\* Put into the sorted set in the unit of time of the request.
Entered(r) == born[r] = now /\ due'[r] \in now .. now + case.fallback + case.slack

CalmFor(r) ==
  /\ now' = now /\ born'[r] = born[r] /\ faults' \in {faults, faults + 1}
  /\ marked \subseteq marked' /\ (code' = r => code = r)
  /\ HashCalm(r)
  /\ \A p \in Procs : MoveCalm(p, r)
  /\ r \in promised' => r \in promised \/ Entered(r)
  /\ \/ due'[r] = due[r] \/ Entered(r)
     \/ ~Current(r)' \/ r \in marked'

\* A calm step keeps what is known about the fallback of the request.
LEMMA CalmKeepsFallback ==
  ASSUME Typed, EnoughTime, case' = case, NEW r \in Requests, FallbackFor(r), CalmFor(r)
  PROVE  FallbackFor(r)'
<1>1. /\ now' = now /\ born'[r] = born[r] /\ faults' \in {faults, faults + 1}
      /\ marked \subseteq marked' /\ (code' = r => code = r)
      /\ \A p \in Procs : MoveCalm(p, r)
      /\ r \in promised' => r \in promised \/ Entered(r)
      /\ \/ due'[r] = due[r] \/ Entered(r)
         \/ ~Current(r)' \/ r \in marked'
  BY DEF CalmFor
<1>2. /\ hash'[r].status = "pending" =>
           /\ hash[r].status = "pending"
           /\ hash'[r].sms = "cancelled" => hash[r].sms = "cancelled"
      /\ r \notin marked' => /\ hash'[r].sms = hash[r].sms
                             /\ hash'[r].claim = hash[r].claim
                             /\ hash'[r].started = hash[r].started
  BY DEF CalmFor, HashCalm
<1>3. UnmarkedIsUnsent(r) /\ HandlerIsPrompt(r) /\ NotGivenUp(r) /\ DueInTime(r)
  BY DEF FallbackFor
<1>4. now \in Nat /\ now # None /\ case.lease \in Nat /\ r \in Procs
  BY CaseNumbers, OtpAssumption, RequestsAreProcs
<1>5. UnmarkedIsUnsent(r)'
  <2> SUFFICES ASSUME r \notin marked'
               PROVE  /\ ~hash'[r].started /\ hash'[r].sms \notin Outcomes
                      /\ \A p \in Procs : proc'[p].req = r => proc'[p].pc \notin {"send", "record"}
    BY DEF UnmarkedIsUnsent
  <2>1. r \notin marked
    BY <1>1
  <2>2. /\ ~hash[r].started /\ hash[r].sms \notin Outcomes
        /\ \A p \in Procs : proc[p].req = r => proc[p].pc \notin {"send", "record"}
    BY <1>3, <2>1 DEF UnmarkedIsUnsent
  <2>3. \A p \in Procs : proc'[p].req = r => proc'[p].pc \notin {"send", "record"}
    BY <1>1, <2>2 DEF MoveCalm
  <2> QED
    BY <1>2, <2>2, <2>3
<1>6. HandlerIsPrompt(r)'
  <2>1. proc'[r].pc \in Prompt => proc'[r].req = r /\ born'[r] = now'
    BY <1>1, <1>3, <1>4 DEF HandlerIsPrompt, MoveCalm
  <2>2. r \in promised' => born'[r] # None
    BY <1>1, <1>3, <1>4 DEF HandlerIsPrompt, Entered
  <2>3. born'[r] # None => born'[r] <= now'
    BY <1>1, <1>3 DEF HandlerIsPrompt
  <2> QED
    BY <2>1, <2>2, <2>3 DEF HandlerIsPrompt
<1>7. Current(r)' => Current(r)
  BY <1>1, <1>2 DEF Current
<1>8. NotGivenUp(r)'
  <2> SUFFICES ASSUME Current(r)', born'[r] = now' \/ Waiting(r)', hash'[r].sms = "cancelled"
               PROVE  FALSE
    BY DEF NotGivenUp
  <2>1. Current(r) /\ hash[r].sms = "cancelled"
    BY <1>2, <1>7 DEF Current
  <2>2. born[r] = now \/ Waiting(r)
    BY <1>1 DEF Waiting, Entered
  <2> QED
    BY <1>3, <2>1, <2>2 DEF NotGivenUp
<1>9. DueInTime(r)'
  <2> SUFFICES ASSUME Current(r)', Waiting(r)'
               PROVE  /\ due'[r] # None /\ now' <= due'[r]
                      /\ due'[r] <= Latest(r)' \/ BeingTried(r)'
    BY DEF DueInTime
  <2>1. r \notin marked' /\ r \in promised' /\ r \notin marked /\ born[r] # None
    BY <1>1, <1>6 DEF Waiting, HandlerIsPrompt
  <2>2. /\ born[r] \in Nat /\ Latest(r) \in Nat
        /\ born[r] + case.fallback + case.slack <= Latest(r)
        /\ Latest(r)' = Latest(r) \/ (faults' = faults + 1 /\ Latest(r)' = Latest(r) + case.lease)
    BY <1>1, <2>1, Deadline
  <2>3. CASE Entered(r)
    <3>1. due'[r] \in Nat /\ now <= due'[r] /\ due'[r] <= now + case.fallback + case.slack
          /\ born[r] = now
      BY <1>4, <2>3, CaseNumbers DEF Entered
    <3>2. due'[r] <= Latest(r)' /\ due'[r] # None
      BY <1>4, <2>2, <3>1, CaseNumbers, OtpAssumption
    <3> QED
      BY <1>1, <3>1, <3>2
  <2>4. CASE ~Entered(r)
    <3>1. due'[r] = due[r] /\ Waiting(r) /\ Current(r)
      BY <1>1, <1>7, <2>1, <2>4 DEF Waiting
    <3>2. due[r] # None /\ now <= due[r] /\ (due[r] <= Latest(r) \/ BeingTried(r))
      BY <1>3, <3>1 DEF DueInTime
    <3>3. due[r] \in Nat
      BY <3>2 DEF Typed
    <3>4. CASE due[r] <= Latest(r)
      BY <1>1, <1>4, <2>2, <3>1, <3>2, <3>3, <3>4
    <3>5. CASE BeingTried(r)
      <4>1. PICK p \in Procs : Holds(p, r)
        BY <3>5 DEF BeingTried
      <4>2. due[r] = now + case.lease /\ now <= Latest(r)
        BY <3>5 DEF BeingTried
      <4>3. CASE faults' = faults + 1
        <5>1. Latest(r)' = Latest(r) + case.lease
          BY <1>1, <2>1, <4>3, Deadline
        <5>2. due[r] <= Latest(r) + case.lease
          BY <1>4, <2>2, <4>2
        <5> QED
          BY <1>1, <3>1, <3>2, <5>1, <5>2
      <4>4. CASE faults' # faults + 1
        <5>1. proc'[p] = proc[p]
          BY <1>1, <2>1, <3>1, <4>1, <4>4 DEF MoveCalm, Current
        <5>2. Holds(p, r)'
          BY <1>2, <2>1, <4>1, <5>1 DEF Holds, MyClaim
        <5>3. Latest(r)' = Latest(r)
          BY <2>2, <4>4
        <5>4. BeingTried(r)'
          BY <1>1, <3>1, <4>1, <4>2, <5>2, <5>3 DEF BeingTried
        <5> QED
          BY <1>1, <3>1, <3>2, <5>4
      <4> QED
        BY <4>3, <4>4
    <3> QED
      BY <3>2, <3>4, <3>5
  <2> QED
    BY <2>3, <2>4
<1> QED
  BY <1>5, <1>6, <1>8, <1>9 DEF FallbackFor

\* One process moves: it does not hold a claim or a fault is counted, it is not
\* past a mark, and a handler that goes on is prompt.
LEMMA MoveIsCalm ==
  ASSUME Typed, NEW p \in Procs, NEW s \in Local, proc' = [proc EXCEPT ![p] = s],
         proc[p].pc # "mark" \/ faults' = faults + 1,
         s.pc \notin {"send", "record"},
         p \in Requests /\ s.pc \in Prompt => s.req = p /\ born[p] = now
  PROVE  \A r \in Requests, q \in Procs : MoveCalm(q, r)
<1> TAKE r \in Requests, q \in Procs
<1>1. proc'[p] = s /\ (q # p => proc'[q] = proc[q])
  BY DEF Typed
<1> QED
  BY <1>1 DEF MoveCalm, Holds

\* A step that touches neither the hashes nor the sorted set is calm when the
\* processes are.
LEMMA PlainIsCalm ==
  ASSUME Typed, now' = now, born' = born, hash' = hash, due' = due, marked' = marked,
         promised' = promised, code' \in {code, None}, faults' \in {faults, faults + 1},
         NEW r \in Requests, \A p \in Procs : MoveCalm(p, r)
  PROVE  CalmFor(r)
<1>1. code' = r => code = r
  BY OtpAssumption
<1>2. HashCalm(r)
  BY DEF HashCalm
<1> QED
  BY <1>1, <1>2 DEF CalmFor

\* Fault(res) counts at most one fault.
LEMMA OneFault ==
  ASSUME NEW res \in ScriptResults, Fault(res) PROVE faults' \in {faults, faults + 1}
BY DEF Fault

AllFallback == \A r \in Requests : FallbackFor(r)
AllCalm == \A r \in Requests : CalmFor(r)

\* What every step starts from.
Before == OtpInv /\ EnoughTime /\ AllFallback /\ case' = case

\* The deadline is entered into the sorted set within the time of the request.
LEMMA ArmCalm ==
  ASSUME Before, NEW r \in Requests, NEW res \in ScriptResults, Arm(r, res)
  PROVE  AllCalm
<1>1. /\ Typed /\ r \in Procs /\ proc[r] \in Local /\ hash[r] \in HashRow
      /\ proc[r].pc = "arm" /\ FallbackFor(r)
  BY RequestsAreProcs DEF Before, AllFallback, OtpInv, Typed, Arm
<1>2. proc[r].req = r /\ born[r] = now
  BY <1>1 DEF FallbackFor, HandlerIsPrompt, Prompt
<1>3. PICK pc \in {"telegram", "claim"} : proc' = [proc EXCEPT ![r].pc = pc]
  BY DEF Arm, Goto
<1> DEFINE s == [proc[r] EXCEPT !.pc = pc]
           h == [hash[r] EXCEPT !.tg = "pending"]
<1>4. s \in Local /\ s.pc = pc /\ s.req = r /\ proc' = [proc EXCEPT ![r] = s]
  BY <1>1, <1>2, <1>3 DEF Local, Places
<1>5. /\ h \in HashRow /\ h.status = hash[r].status /\ h.sms = hash[r].sms
      /\ h.claim = hash[r].claim /\ h.started = hash[r].started
  BY <1>1, HashFields
<1> HIDE DEF s
<1>6. \A q \in Requests, p \in Procs : MoveCalm(p, q)
  BY <1>1, <1>2, <1>4, MoveIsCalm DEF Prompt
<1>7. /\ now' = now /\ born' = born /\ marked' = marked /\ code' = code
      /\ faults' \in {faults, faults + 1}
  BY OneFault DEF Arm, keys
<1>8. CASE hash' = hash /\ due' = due /\ promised' = promised
  BY <1>1, <1>6, <1>7, <1>8, PlainIsCalm DEF AllCalm
<1>9. CASE /\ hash' = [hash EXCEPT ![r] = h]
           /\ due' = [due EXCEPT ![r] = now + case.fallback + case.slack]
           /\ promised' = promised \cup {r}
  <2> HIDE DEF h
  <2>1. hash'[r] = h /\ \A q \in Requests : q # r => hash'[q] = hash[q]
    BY <1>1, <1>5, <1>9, OneHash
  <2>2. /\ due'[r] = now + case.fallback + case.slack
        /\ \A q \in Requests : q # r => due'[q] = due[q]
    BY <1>1, <1>9 DEF Typed
  <2>3. Entered(r)
    BY <1>1, <1>2, <2>2, CaseNumbers DEF Entered
  <2>4. \A q \in Requests : HashCalm(q)
    BY <1>5, <2>1 DEF HashCalm
  <2> QED
    BY <1>6, <1>7, <1>9, <2>2, <2>3, <2>4 DEF AllCalm, CalmFor
<1> QED
  BY <1>8, <1>9 DEF Arm

\* The confirmed fallback is due earlier than the armed one.
LEMMA ScheduleCalm ==
  ASSUME Before, NEW r \in Requests, NEW res \in ScriptResults, Schedule(r, res)
  PROVE  AllCalm
<1>1. /\ Typed /\ r \in Procs /\ proc[r] \in Local /\ hash[r] \in HashRow
      /\ proc[r].pc = "schedule" /\ FallbackFor(r)
  BY RequestsAreProcs DEF Before, AllFallback, OtpInv, Typed, Schedule
<1>2. proc[r].req = r /\ born[r] = now
  BY <1>1 DEF FallbackFor, HandlerIsPrompt, Prompt
<1>3. PICK pc \in {"done", "claim"} : proc' = [proc EXCEPT ![r].pc = pc]
  BY DEF Schedule, Goto
<1> DEFINE s == [proc[r] EXCEPT !.pc = pc]
           h == [hash[r] EXCEPT !.tg = "accepted"]
<1>4. s \in Local /\ s.pc = pc /\ s.req = r /\ proc' = [proc EXCEPT ![r] = s]
  BY <1>1, <1>2, <1>3 DEF Local, Places
<1>5. /\ h \in HashRow /\ h.status = hash[r].status /\ h.sms = hash[r].sms
      /\ h.claim = hash[r].claim /\ h.started = hash[r].started
  BY <1>1, HashFields
<1> HIDE DEF s
<1>6. \A q \in Requests, p \in Procs : MoveCalm(p, q)
  BY <1>1, <1>2, <1>4, MoveIsCalm DEF Prompt
<1>7. /\ now' = now /\ born' = born /\ marked' = marked /\ code' = code
      /\ faults' \in {faults, faults + 1} /\ promised' = promised
  BY OneFault DEF Schedule, keys, ghosts
<1>8. CASE hash' = hash /\ due' = due
  BY <1>1, <1>6, <1>7, <1>8, PlainIsCalm DEF AllCalm
<1>9. CASE /\ hash' = [hash EXCEPT ![r] = h]
           /\ due' = [due EXCEPT ![r] = now + case.fallback]
  <2> HIDE DEF h
  <2>1. hash'[r] = h /\ \A q \in Requests : q # r => hash'[q] = hash[q]
    BY <1>1, <1>5, <1>9, OneHash
  <2>2. due'[r] = now + case.fallback /\ \A q \in Requests : q # r => due'[q] = due[q]
    BY <1>1, <1>9 DEF Typed
  <2>3. Entered(r)
    BY <1>1, <1>2, <2>2, CaseNumbers DEF Entered
  <2>4. \A q \in Requests : HashCalm(q)
    BY <1>5, <2>1 DEF HashCalm
  <2> QED
    BY <1>6, <1>7, <2>2, <2>3, <2>4 DEF AllCalm, CalmFor
<1> QED
  BY <1>8, <1>9 DEF Schedule

\* Whatever Telegram answers, the handler goes on at once.
LEMMA TelegramAnswerCalm ==
  ASSUME Before, NEW r \in Requests, NEW delivered \in BOOLEAN,
         NEW acknowledged \in BOOLEAN, TelegramAnswer(r, delivered, acknowledged)
  PROVE  AllCalm
<1>1. /\ Typed /\ r \in Procs /\ proc[r] \in Local
      /\ proc[r].pc = "telegram" /\ FallbackFor(r)
  BY RequestsAreProcs DEF Before, AllFallback, OtpInv, Typed, TelegramAnswer
<1>2. proc[r].req = r /\ born[r] = now
  BY <1>1 DEF FallbackFor, HandlerIsPrompt, Prompt
<1>3. PICK pc \in {"schedule", "claim"} : proc' = [proc EXCEPT ![r].pc = pc]
  BY DEF TelegramAnswer, Goto
<1> DEFINE s == [proc[r] EXCEPT !.pc = pc]
<1>4. s \in Local /\ s.pc = pc /\ s.req = r /\ proc' = [proc EXCEPT ![r] = s]
  BY <1>1, <1>2, <1>3 DEF Local, Places
<1> HIDE DEF s
<1>5. \A q \in Requests, p \in Procs : MoveCalm(p, q)
  BY <1>1, <1>2, <1>4, MoveIsCalm DEF Prompt
<1> QED
  BY <1>1, <1>5, PlainIsCalm DEF AllCalm, TelegramAnswer, keys

\* A withdrawal deletes the code or ends a hash: nothing waits for it any more.
LEMMA CancelCalm ==
  ASSUME Before, NEW r \in Requests,
         CancelLoad(r) \/ CancelDelete(r) \/ CancelExpire(r)
  PROVE  AllCalm
<1>1. Typed /\ r \in Procs /\ proc[r] \in Local /\ LocalSound(proc[r])
  BY RequestsAreProcs DEF Before, OtpInv, Typed
<1>2. PICK s \in Local : /\ s.pc \in {"withdraw", "done", "expire"}
                         /\ proc' = [proc EXCEPT ![r] = s]
  <2>1. CASE CancelLoad(r)
    <3>1. PICK req : req = IF mobile # None /\ hash[mobile].status # "missing"
                           THEN mobile ELSE None
      OBVIOUS
    <3>2. req \in Requests \cup {None} /\ "withdraw" \in Places
      BY <1>1, <3>1 DEF Typed, Places
    <3> DEFINE u == [proc[r] EXCEPT !.pc = "withdraw", !.req = req]
    <3>3. u \in Local /\ u.pc = "withdraw"
      BY <1>1, <3>2 DEF Local
    <3>4. proc' = [proc EXCEPT ![r] = u]
      BY <2>1, <3>1 DEF CancelLoad
    <3> HIDE DEF u
    <3> QED
      BY <3>3, <3>4
  <2>2. CASE CancelDelete(r)
    BY <1>1, <2>2 DEF CancelDelete, Goto, Local, Places
  <2>3. CASE CancelExpire(r)
    BY <2>3, IdleIsSound DEF CancelExpire
  <2> QED
    BY <2>1, <2>2, <2>3
<1>3. proc[r].pc # "mark"
  BY DEF CancelLoad, CancelDelete, CancelExpire
<1>4. \A q \in Requests, p \in Procs : MoveCalm(p, q)
  BY <1>1, <1>2, <1>3, MoveIsCalm DEF Prompt
<1>5. CASE CancelLoad(r) \/ CancelDelete(r)
  BY <1>1, <1>4, <1>5, PlainIsCalm DEF AllCalm, CancelLoad, CancelDelete, keys, ghosts
<1>6. CASE CancelExpire(r)
  <2>1. PICK q \in Requests : q = proc[r].req
    BY <1>1, <1>6 DEF CancelExpire, LocalSound
  <2> DEFINE h == [hash[q] EXCEPT !.status = "expired"]
  <2>2. hash[q] \in HashRow /\ hash' = [hash EXCEPT ![q] = h]
    BY <1>1, <1>6, <2>1 DEF CancelExpire, Typed
  <2>3. /\ h \in HashRow /\ h.status = "expired" /\ h.sms = hash[q].sms
        /\ h.claim = hash[q].claim /\ h.started = hash[q].started
    BY <2>2 DEF HashRow
  <2> HIDE DEF h
  <2>4. hash'[q] = h /\ \A u \in Requests : u # q => hash'[u] = hash[u]
    BY <1>1, <2>2, <2>3, OneHash
  <2>5. \A u \in Requests : u # q => due'[u] = due[u]
    BY <1>1, <1>6, <2>1 DEF CancelExpire, Typed
  <2>6. \A u \in Requests : HashCalm(u)
    BY <2>3, <2>4 DEF HashCalm
  <2>7. ~Current(q)'
    BY <2>3, <2>4 DEF Current
  <2>8. /\ now' = now /\ born' = born /\ marked' = marked /\ code' = code
        /\ faults' = faults /\ promised' = promised
    BY <1>6 DEF CancelExpire, keys, ghosts
  <2> QED
    BY <1>4, <2>5, <2>6, <2>7, <2>8 DEF AllCalm, CalmFor
<1> QED
  BY <1>5, <1>6

\* The job and the resend take a request on, or the job drops a settled one.
LEMMA TakeOnCalm ==
  ASSUME Before,
         \/ \E w \in Workers, r \in Requests : Select(w, r)
         \/ \E w \in Resenders : ResendRead(w) \/ ResendLoad(w)
  PROVE  AllCalm
<1>1. Typed
  BY DEF Before, OtpInv
<1>2. ASSUME NEW w \in Workers, NEW r \in Requests, Select(w, r) PROVE AllCalm
  <2>1. w \in Procs /\ proc[w] \in Local /\ proc[w].pc = "idle" /\ w \notin Requests
    BY <1>1, <1>2, RequestsAreProcs, IdleIsSound, OtpAssumption DEF Typed, Select
  <2>2. CASE hash[r].status = "pending"
    <3> DEFINE s == [proc[w] EXCEPT !.pc = "claim", !.req = r]
    <3>1. s \in Local /\ s.pc = "claim" /\ proc' = [proc EXCEPT ![w] = s]
      BY <1>2, <2>1, <2>2 DEF Select, Local, Places
    <3> HIDE DEF s
    <3>2. \A q \in Requests, p \in Procs : MoveCalm(p, q)
      BY <1>1, <2>1, <3>1, MoveIsCalm
    <3> QED
      BY <1>1, <1>2, <2>2, <3>2, PlainIsCalm DEF AllCalm, Select, keys, ghosts
  <2>3. CASE hash[r].status # "pending"
    <3>1. /\ proc' = proc /\ hash' = hash /\ now' = now /\ born' = born /\ marked' = marked
          /\ code' = code /\ faults' = faults /\ promised' = promised
          /\ due' = [due EXCEPT ![r] = None]
      BY <1>2, <2>3 DEF Select, keys, ghosts
    <3>2. \A q \in Requests : q # r => due'[q] = due[q]
      BY <1>1, <3>1 DEF Typed
    <3>3. ~Current(r)'
      BY <2>3, <3>1 DEF Current
    <3>4. \A q \in Requests : HashCalm(q) /\ \A p \in Procs : MoveCalm(p, q)
      BY <3>1 DEF HashCalm, MoveCalm
    <3> QED
      BY <3>1, <3>2, <3>3, <3>4 DEF AllCalm, CalmFor
  <2> QED
    BY <2>2, <2>3
<1>3. ASSUME NEW w \in Resenders, ResendRead(w) \/ ResendLoad(w) PROVE AllCalm
  <2>1. /\ w \in Procs /\ proc[w] \in Local /\ proc[w].pc # "mark" /\ w \notin Requests
    BY <1>1, <1>3, RequestsAreProcs, IdleIsSound, OtpAssumption
       DEF Typed, ResendRead, ResendLoad
  <2>2. PICK s \in Local : /\ s.pc \in {"resend", "claim", "idle"}
                           /\ proc' = [proc EXCEPT ![w] = s]
    <3>1. CASE ResendRead(w)
      <4>1. code \in Requests \cup {None} /\ "resend" \in Places
        BY <1>1 DEF Typed, Places
      <4> DEFINE u == [proc[w] EXCEPT !.pc = "resend", !.req = code]
      <4>2. proc' = [proc EXCEPT ![w] = u]
        BY <3>1 DEF ResendRead
      <4>3. u \in Local /\ u.pc = "resend"
        BY <2>1, <4>1 DEF Local
      <4> HIDE DEF u
      <4> QED
        BY <4>2, <4>3
    <3>2. CASE ResendLoad(w) /\ mobile # None /\ hash[mobile].status # "missing"
      BY <1>1, <2>1, <3>2 DEF ResendLoad, Local, Places, Typed
    <3>3. CASE ResendLoad(w) /\ ~(mobile # None /\ hash[mobile].status # "missing")
      BY <3>3, IdleIsSound DEF ResendLoad
    <3> QED
      BY <1>3, <3>1, <3>2, <3>3
  <2>3. \A q \in Requests, p \in Procs : MoveCalm(p, q)
    BY <1>1, <2>1, <2>2, MoveIsCalm
  <2>4. /\ now' = now /\ born' = born /\ marked' = marked /\ code' = code
        /\ faults' = faults /\ promised' = promised /\ hash' = hash /\ due' = due
    BY <1>3 DEF ResendRead, ResendLoad, keys, ghosts
  <2> QED
    BY <1>1, <2>3, <2>4, PlainIsCalm DEF AllCalm
<1> QED
  BY <1>2, <1>3

\* After a login or a lock-out there is no code that waits for anything.
LEMMA VerifyCalm ==
  ASSUME Before, Consume \/ Cleanup \/ LockOut PROVE AllCalm
<1>1. Typed /\ None \notin Requests
  BY OtpAssumption DEF Before, OtpInv
<1>2. /\ now' = now /\ born' = born /\ marked' = marked /\ code' = None
      /\ faults' = faults /\ promised' = promised /\ proc' = proc
  BY DEF Consume, Cleanup, LockOut, ghosts
<1>3. \A r \in Requests : /\ ~Current(r)' /\ code' # r
                          /\ \A p \in Procs : MoveCalm(p, r)
  BY <1>1, <1>2 DEF Current, MoveCalm
<1>4. \A r \in Requests : HashCalm(r)
  <2>1. CASE hash' = hash
    BY <2>1 DEF HashCalm
  <2>2. CASE mobile # None /\ hash' = [hash EXCEPT ![mobile].status = "consumed"]
    <3>1. PICK m \in Requests : m = mobile
      BY <1>1, <2>2 DEF Typed
    <3> DEFINE h == [hash[m] EXCEPT !.status = "consumed"]
    <3>2. hash[m] \in HashRow /\ hash' = [hash EXCEPT ![m] = h]
      BY <1>1, <2>2, <3>1 DEF Typed
    <3>3. /\ h \in HashRow /\ h.status = "consumed" /\ h.sms = hash[m].sms
          /\ h.claim = hash[m].claim /\ h.started = hash[m].started
      BY <3>2 DEF HashRow
    <3> HIDE DEF h
    <3>4. hash'[m] = h /\ \A u \in Requests : u # m => hash'[u] = hash[u]
      BY <1>1, <3>2, <3>3, OneHash
    <3> QED
      BY <3>3, <3>4 DEF HashCalm
  <2> QED
    BY <2>1, <2>2 DEF Consume, Cleanup, LockOut
<1> QED
  BY <1>2, <1>3, <1>4 DEF AllCalm, CalmFor

\* A process that dies with a claim costs a fault, and with it a lease.
LEMMA CrashCalm ==
  ASSUME Before, NEW p \in Procs, Crash(p) PROVE AllCalm
<1> DEFINE s == [Idle EXCEPT !.pc = AfterAttempt(p)]
<1>1. Typed /\ proc' = [proc EXCEPT ![p] = s] /\ faults' = faults + 1
  BY DEF Before, OtpInv, Crash
<1>2. s \in Local /\ s.pc \in {"idle", "done"}
  BY IdleIsSound, AttemptEnds
<1> HIDE DEF s
<1>3. \A r \in Requests, q \in Procs : MoveCalm(q, r)
  BY <1>1, <1>2, MoveIsCalm DEF Prompt
<1> QED
  BY <1>1, <1>3, PlainIsCalm DEF AllCalm, Crash, keys, ghosts

\* The mark ends the waiting; a mark that is not set although the claim is held
\* costs a fault.
LEMMA MarkCalm ==
  ASSUME Before, NEW p \in Procs, NEW res \in ScriptResults, Mark(p, res)
  PROVE  AllCalm
<1>0. PICK r \in Requests : proc[p].req = r
  BY DEF Before, OtpInv, Typed, Mark, LocalSound
<1>1. /\ Typed /\ proc[p] \in Local /\ proc[p].pc = "mark" /\ hash[r] \in HashRow
  BY DEF Before, OtpInv, Typed, Mark
<1>2. /\ faults' \in {faults, faults + 1} /\ (~res.told => faults' = faults + 1)
      /\ res.told => res.done
  BY <1>1, OneFault, FaultsBounded DEF Before, Mark, Fault
<1>3. /\ now' = now /\ born' = born /\ code' = code /\ promised' = promised /\ due' = due
  BY DEF Mark, keys
<1> DEFINE e == [Idle EXCEPT !.pc = AfterAttempt(p)]
           s == [proc[p] EXCEPT !.pc = "send"]
           h == [hash[r] EXCEPT !.started = TRUE]
<1>4. e \in Local /\ e.pc \in {"idle", "done"}
  BY IdleIsSound, AttemptEnds
<1>5. s \in Local /\ s.pc = "send" /\ s.req = r
  BY <1>0, <1>1 DEF Local, Places
<1>6. CASE hash[r].status = "pending" /\ MyClaim(p) /\ res.done
  <2>1. /\ hash' = [hash EXCEPT ![r] = h] /\ marked' = marked \cup {r}
        /\ proc' = [proc EXCEPT ![p] = s] \/ proc' = [proc EXCEPT ![p] = e]
    BY <1>0, <1>6 DEF Mark, Goto
  <2>2. h \in HashRow /\ h.status = hash[r].status /\ h.sms = hash[r].sms
    BY <1>1, HashFields
  <2> HIDE DEF h, s, e
  <2>3. hash'[r] = h /\ \A q \in Requests : q # r => hash'[q] = hash[q]
    BY <1>1, <2>1, <2>2, OneHash
  <2>4. /\ proc'[p] = s \/ proc'[p] = e
        /\ \A q \in Procs : q # p => proc'[q] = proc[q]
    BY <1>1, <2>1 DEF Typed
  <2>5. \A q \in Requests, u \in Procs : MoveCalm(u, q)
    BY <1>0, <1>4, <1>5, <2>1, <2>4 DEF MoveCalm, Holds, Prompt
  <2>6. \A q \in Requests : HashCalm(q)
    BY <2>1, <2>2, <2>3 DEF HashCalm
  <2> QED
    BY <1>2, <1>3, <2>1, <2>5, <2>6 DEF AllCalm, CalmFor
<1>7. CASE ~(hash[r].status = "pending" /\ MyClaim(p) /\ res.done)
  <2>1. hash' = hash /\ marked' = marked /\ proc' = [proc EXCEPT ![p] = e]
    BY <1>0, <1>2, <1>7 DEF Mark
  <2> HIDE DEF e
  <2>2. proc'[p] = e /\ \A q \in Procs : q # p => proc'[q] = proc[q]
    BY <1>1, <2>1 DEF Typed
  <2>3. \A q \in Requests, u \in Procs : MoveCalm(u, q)
    BY <1>0, <1>2, <1>4, <1>7, <2>2 DEF MoveCalm, Holds, Prompt
  <2> QED
    BY <1>1, <1>2, <1>3, <2>1, <2>3, PlainIsCalm DEF AllCalm
<1> QED
  BY <1>6, <1>7

\* The provider is called for a marked request only.
LEMMA SendCalm ==
  ASSUME Before, NEW p \in Procs, NEW outcome \in Outcomes,
         NEW delivered \in BOOLEAN, Send(p, outcome, delivered)
  PROVE  AllCalm
<1>0. PICK r \in Requests : proc[p].req = r
  BY DEF Before, OtpInv, Typed, Send, LocalSound
<1>1. Typed /\ proc[p] \in Local /\ proc[p].pc = "send" /\ FallbackFor(r)
  BY DEF Before, AllFallback, OtpInv, Typed, Send
<1>2. r \in marked
  BY <1>0, <1>1 DEF FallbackFor, UnmarkedIsUnsent
<1> DEFINE s == [proc[p] EXCEPT !.pc = "record", !.got = outcome]
<1>3. s \in Local /\ s.pc = "record" /\ s.req = r /\ proc' = [proc EXCEPT ![p] = s]
  BY <1>0, <1>1 DEF Send, Local, Places
<1> HIDE DEF s
<1>4. proc'[p] = s /\ \A q \in Procs : q # p => proc'[q] = proc[q]
  BY <1>1, <1>3 DEF Typed
<1>5. /\ now' = now /\ born' = born /\ code' = code /\ promised' = promised /\ due' = due
      /\ hash' = hash /\ marked' = marked /\ faults' = faults
  BY DEF Send, keys
<1>6. \A q \in Requests, u \in Procs : MoveCalm(u, q)
  BY <1>0, <1>1, <1>2, <1>3, <1>4, <1>5 DEF MoveCalm, Holds, Prompt
<1> QED
  BY <1>1, <1>5, <1>6, PlainIsCalm DEF AllCalm

\* An outcome is recorded for a marked request only, and is no cancellation.
LEMMA RecordCalm ==
  ASSUME Before, NEW p \in Procs, NEW res \in ScriptResults, Record(p, res)
  PROVE  AllCalm
<1>0. PICK r \in Requests : proc[p].req = r
  BY DEF Before, OtpInv, Typed, Record, LocalSound
<1>1. /\ Typed /\ proc[p] \in Local /\ proc[p].pc = "record" /\ hash[r] \in HashRow
      /\ proc[p].got \in Outcomes /\ FallbackFor(r)
  BY DEF Before, AllFallback, OtpInv, Typed, Record, LocalSound
<1>2. r \in marked
  BY <1>0, <1>1 DEF FallbackFor, UnmarkedIsUnsent
<1>3. PICK s \in Local : s.pc \in {"cancel", "idle", "done"} /\ proc' = [proc EXCEPT ![p] = s]
  <2>1. CASE Goto(p, "cancel")
    <3>1. "cancel" \in Places
      BY DEF Places
    <3> DEFINE u == [proc[p] EXCEPT !.pc = "cancel"]
    <3>2. proc' = [proc EXCEPT ![p] = u]
      BY <2>1 DEF Goto
    <3>3. u \in Local /\ u.pc = "cancel"
      BY <1>1, <3>1 DEF Local
    <3> HIDE DEF u
    <3> QED
      BY <3>2, <3>3
  <2>2. CASE proc' = [proc EXCEPT ![p] = [Idle EXCEPT !.pc = AfterAttempt(p)]]
    BY <2>2, IdleIsSound, AttemptEnds
  <2> QED
    BY <2>1, <2>2 DEF Record
<1>4. \A q \in Requests, u \in Procs : MoveCalm(u, q)
  BY <1>1, <1>3, MoveIsCalm DEF Prompt
<1>5. /\ now' = now /\ born' = born /\ code' = code /\ promised' = promised
      /\ marked' = marked /\ faults' \in {faults, faults + 1}
  BY OneFault DEF Record, keys, ghosts
<1> DEFINE h == [hash[r] EXCEPT !.sms = proc[p].got]
<1>6. CASE hash' = hash /\ due' = due
  BY <1>1, <1>4, <1>5, <1>6, PlainIsCalm DEF AllCalm
<1>7. CASE hash' = [hash EXCEPT ![r] = h] /\ due' = [due EXCEPT ![r] = None]
  <2>1. h \in HashRow /\ h.status = hash[r].status /\ h.sms # "cancelled"
    BY <1>1 DEF HashRow, Outcomes
  <2> HIDE DEF h
  <2>2. hash'[r] = h /\ \A q \in Requests : q # r => hash'[q] = hash[q]
    BY <1>1, <1>7, <2>1, OneHash
  <2>3. \A q \in Requests : q # r => due'[q] = due[q]
    BY <1>1, <1>7 DEF Typed
  <2>4. \A q \in Requests : HashCalm(q)
    BY <1>2, <1>5, <2>1, <2>2 DEF HashCalm
  <2> QED
    BY <1>2, <1>4, <1>5, <2>3, <2>4 DEF AllCalm, CalmFor
<1> QED
  BY <1>0, <1>6, <1>7 DEF Record

-----------------------------------------------------------------------------
(* The request, the claim and the clock *)

\* A calm step keeps the fallback of every request.
LEMMA AllCalmKeeps ==
  ASSUME Before, AllCalm PROVE AllFallback'
BY CalmKeepsFallback DEF Before, AllCalm, AllFallback, OtpInv

\* A new request has not been promised anything yet; while it is made no other
\* code is stored.
LEMMA CreateFallback ==
  ASSUME Before, NEW r \in Requests, NEW linked \in BOOLEAN, Create(r, linked)
  PROVE  AllFallback'
<1> DEFINE s == [Idle EXCEPT !.req = r, !.pc = IF linked THEN "arm" ELSE "claim"]
           h == [NoHash EXCEPT !.status = "pending"]
<1>1. /\ Typed /\ FallbackFor(r) /\ r \in Procs /\ born[r] = None /\ now \in Nat
      /\ None \notin Requests /\ now # None
  BY RequestsAreProcs, CaseNumbers, OtpAssumption DEF Before, AllFallback, OtpInv, Create
<1>2. hash' = [hash EXCEPT ![r] = h] /\ proc' = [proc EXCEPT ![r] = s]
  BY DEF Create
<1>3. /\ h \in HashRow /\ h.sms = "not_attempted" /\ h.started = FALSE
  BY DEF NoHash, HashRow
<1>4. s \in Local /\ s.req = r /\ s.pc \in {"arm", "claim"}
  BY DEF Idle, Local, Places, Outcomes
<1> HIDE DEF s, h
<1>5. hash'[r] = h /\ \A q \in Requests : q # r => hash'[q] = hash[q]
  BY <1>1, <1>2, <1>3, OneHash
<1>6. proc'[r] = s /\ \A q \in Procs : q # r => proc'[q] = proc[q]
  BY <1>1, <1>2 DEF Typed
<1>7. /\ now' = now /\ born'[r] = now /\ code' = r /\ marked' = marked
      /\ promised' = promised /\ due' = due /\ faults' = faults
      /\ \A q \in Requests : q # r => born'[q] = born[q]
  BY <1>1 DEF Create, ghosts, Typed
<1>8. r \notin promised
  BY <1>1 DEF FallbackFor, HandlerIsPrompt
<1>9. FallbackFor(r)'
  <2>1. UnmarkedIsUnsent(r)'
    <3>1. ~hash'[r].started /\ hash'[r].sms \notin Outcomes
      BY <1>3, <1>5 DEF Outcomes
    <3>2. r \notin marked =>
          \A q \in Procs : proc'[q].req = r => proc'[q].pc \notin {"send", "record"}
      BY <1>1, <1>4, <1>6 DEF FallbackFor, UnmarkedIsUnsent
    <3> QED
      BY <1>7, <3>1, <3>2 DEF UnmarkedIsUnsent
  <2>2. HandlerIsPrompt(r)'
    BY <1>1, <1>4, <1>6, <1>7, <1>8 DEF HandlerIsPrompt
  <2>3. NotGivenUp(r)'
    BY <1>3, <1>5 DEF NotGivenUp
  <2>4. DueInTime(r)'
    BY <1>7, <1>8 DEF DueInTime, Waiting
  <2> QED
    BY <2>1, <2>2, <2>3, <2>4 DEF FallbackFor
<1>10. ASSUME NEW q \in Requests, q # r PROVE FallbackFor(q)'
  <2>1. FallbackFor(q) /\ q \in Procs
    BY RequestsAreProcs DEF Before, AllFallback
  <2>2. ~Current(q)'
    BY <1>7, <1>10 DEF Current
  <2>3. UnmarkedIsUnsent(q)'
    <3>1. hash'[q] = hash[q]
      BY <1>5, <1>10
    <3>2. q \notin marked =>
          \A u \in Procs : proc'[u].req = q => proc'[u].pc \notin {"send", "record"}
      BY <1>4, <1>6, <1>10, <2>1 DEF FallbackFor, UnmarkedIsUnsent
    <3> QED
      BY <1>7, <2>1, <3>1, <3>2 DEF FallbackFor, UnmarkedIsUnsent
  <2>4. HandlerIsPrompt(q)'
    BY <1>6, <1>7, <1>10, <2>1 DEF FallbackFor, HandlerIsPrompt
  <2> QED
    BY <2>2, <2>3, <2>4 DEF FallbackFor, NotGivenUp, DueInTime
<1> QED
  BY <1>9, <1>10 DEF AllFallback

\* While a code waits for its SMS, or was made just now, it is young enough to be
\* sent.
LEMMA YoungEnough ==
  ASSUME Typed, EnoughTime, NEW r \in Requests, FallbackFor(r), Current(r),
         born[r] = now \/ Waiting(r)
  PROVE  /\ born[r] # None /\ now <= Latest(r)
         /\ ~(born[r] + case.ttl - now < case.minTtl)
<1>1. now \in Nat /\ now # None
  BY CaseNumbers, OtpAssumption
<1>2. born[r] # None
  BY <1>1 DEF FallbackFor, HandlerIsPrompt, Waiting
<1>3. /\ born[r] \in Nat /\ Latest(r) \in Nat
      /\ born[r] + case.fallback + case.slack <= Latest(r)
      /\ Latest(r) + case.minTtl <= born[r] + case.ttl
  BY <1>2, Deadline
<1>4. now <= Latest(r)
  <2>1. CASE born[r] = now
    BY <1>1, <1>3, <2>1, CaseNumbers
  <2>2. CASE Waiting(r)
    <3>1. due[r] # None /\ now <= due[r] /\ (due[r] <= Latest(r) \/ BeingTried(r))
      BY <2>2 DEF FallbackFor, DueInTime
    <3>2. due[r] \in Nat
      BY <3>1 DEF Typed
    <3> QED
      BY <1>1, <1>3, <3>1, <3>2 DEF BeingTried
  <2> QED
    BY <2>1, <2>2
<1>5. ~(born[r] + case.ttl - now < case.minTtl)
  BY <1>1, <1>3, <1>4, CaseNumbers
<1> QED
  BY <1>2, <1>4, <1>5

\* A claim that is handed out puts the request into the hands of somebody about to
\* mark it.  No verdict takes a waiting request out of the sorted set: it is
\* neither too old to be sent nor settled.
LEMMA ClaimFallback ==
  ASSUME Before, NEW p \in Procs, Claim(p)
  PROVE  AllFallback'
<1>0. PICK r \in Requests : proc[p].req = r
  BY DEF Before, OtpInv, Typed, Claim, LocalSound
<1> DEFINE v == Verdict(p, r)
           n == hash[r].claim + 1
<1>1. /\ Typed /\ EnoughTime /\ case' = case /\ proc[p] \in Local /\ proc[p].pc = "claim"
      /\ hash[r] \in HashRow /\ FallbackFor(r) /\ None \notin Requests
      /\ now \in Nat /\ now # None /\ case.lease \in Nat
  BY CaseNumbers, OtpAssumption DEF Before, AllFallback, OtpInv, Typed, Claim
<1>2. p \in Requests => p = r /\ born[r] = now
  BY <1>0, <1>1 DEF Before, AllFallback, FallbackFor, HandlerIsPrompt, Prompt
<1>3. /\ now' = now /\ born' = born /\ code' = code /\ marked' = marked /\ faults' = faults
  BY DEF Claim, keys
<1>4. /\ UnmarkedIsUnsent(r) /\ HandlerIsPrompt(r) /\ NotGivenUp(r) /\ DueInTime(r)
  BY <1>1 DEF FallbackFor
<1>5. CASE v = "claim"
  <2> DEFINE s == [proc[p] EXCEPT !.pc = "mark", !.claim = n, !.text = code]
             h == [hash[r] EXCEPT !.sms = "pending", !.claim = n,
                                  !.lease = now + case.lease, !.started = FALSE]
  <2>1. /\ hash' = [hash EXCEPT ![r] = h] /\ proc' = [proc EXCEPT ![p] = s]
        /\ due' = [due EXCEPT ![r] = now + case.lease]
        /\ promised' = IF p \in Requests THEN promised \cup {r} ELSE promised
    BY <1>0, <1>5 DEF Claim
  <2>2. code \in Requests /\ hash[r].status = "pending"
    BY <1>1, <1>5 DEF Verdict, Typed
  <2>3. hash[r].claim \in Nat /\ n \in Nat /\ now + case.lease \in Nat
    BY <1>1 DEF HashRow
  <2> HIDE DEF n, v
  <2>4. /\ h \in HashRow /\ h.status = "pending" /\ h.sms = "pending"
        /\ h.claim = n /\ h.started = FALSE
    BY <1>1, <2>2, <2>3 DEF HashRow
  <2>5. s \in Local /\ s.pc = "mark" /\ s.req = r /\ s.claim = n
    BY <1>0, <1>1, <2>2, <2>3 DEF Local, Places
  <2> HIDE DEF s, h
  <2>6. hash'[r] = h /\ \A q \in Requests : q # r => hash'[q] = hash[q]
    BY <1>1, <2>1, <2>4, OneHash
  <2>7. proc'[p] = s /\ \A q \in Procs : q # p => proc'[q] = proc[q]
    BY <1>1, <2>1 DEF Typed
  <2>8. due'[r] = now + case.lease /\ \A q \in Requests : q # r => due'[q] = due[q]
    BY <1>1, <2>1 DEF Typed
  <2>9. r \in promised' => r \in promised \/ born[r] = now
    BY <1>2, <2>1
  <2>10. UnmarkedIsUnsent(r)'
    <3>1. ~hash'[r].started /\ hash'[r].sms \notin Outcomes
      BY <2>4, <2>6 DEF Outcomes
    <3>2. r \notin marked =>
          \A q \in Procs : proc'[q].req = r => proc'[q].pc \notin {"send", "record"}
      BY <1>4, <2>5, <2>7 DEF UnmarkedIsUnsent
    <3> QED
      BY <1>3, <3>1, <3>2 DEF UnmarkedIsUnsent
  <2>11. HandlerIsPrompt(r)'
    <3>1. r \in Procs
      BY RequestsAreProcs
    <3>2. proc'[r].pc \in Prompt => proc'[r].req = r /\ born'[r] = now'
      BY <1>3, <1>4, <2>5, <2>7, <3>1 DEF HandlerIsPrompt, Prompt
    <3> QED
      BY <1>1, <1>3, <1>4, <2>9, <3>2 DEF HandlerIsPrompt
  <2>12. NotGivenUp(r)'
    BY <2>4, <2>6 DEF NotGivenUp
  <2>13. DueInTime(r)'
    <3> SUFFICES ASSUME Current(r)', Waiting(r)'
                 PROVE  due'[r] # None /\ now' <= due'[r] /\ BeingTried(r)'
      BY DEF DueInTime
    <3>1. Current(r) /\ (born[r] = now \/ Waiting(r))
      BY <1>3, <2>2, <2>9 DEF Current, Waiting
    <3>2. now <= Latest(r)
      BY <1>1, <3>1, YoungEnough
    <3>3. Latest(r)' = Latest(r)
      BY <1>1, <1>3 DEF Latest
    <3>4. Holds(p, r)'
      BY <2>4, <2>5, <2>6, <2>7 DEF Holds, MyClaim
    <3>5. BeingTried(r)'
      BY <1>1, <1>3, <2>8, <3>2, <3>3, <3>4 DEF BeingTried
    <3>6. due'[r] # None /\ now' <= due'[r]
      BY <1>1, <1>3, <2>3, <2>8, OtpAssumption
    <3> QED
      BY <3>5, <3>6
  <2>14. ASSUME NEW q \in Requests, q # r PROVE FallbackFor(q)'
    <3>1. \A u \in Procs : MoveCalm(u, q)
      BY <1>1, <1>2, <2>5, <2>7, <2>14 DEF MoveCalm, Holds, Prompt
    <3>2. HashCalm(q)
      BY <2>6, <2>14 DEF HashCalm
    <3>3. q \in promised' => q \in promised
      BY <2>1, <2>14
    <3>4. CalmFor(q)
      BY <1>3, <2>8, <2>14, <3>1, <3>2, <3>3 DEF CalmFor
    <3> QED
      BY <1>1, <3>4, CalmKeepsFallback DEF Before, AllFallback
  <2>15. FallbackFor(r)'
    BY <2>10, <2>11, <2>12, <2>13 DEF FallbackFor
  <2> QED
    BY <2>14, <2>15 DEF AllFallback
<1>6. CASE v # "claim"
  <2> DEFINE s == [Idle EXCEPT !.pc = AfterAttempt(p)]
  <2>1. proc' = [proc EXCEPT ![p] = s] /\ promised' = promised
    BY <1>0, <1>6 DEF Claim
  <2>2. s \in Local /\ s.pc \in {"idle", "done"}
    BY IdleIsSound, AttemptEnds
  <2> HIDE DEF s
  <2>3. \A q \in Requests, u \in Procs : MoveCalm(u, q)
    BY <1>1, <2>1, <2>2, MoveIsCalm DEF Prompt
  <2>4. ASSUME NEW h \in HashRow, hash' = [hash EXCEPT ![r] = h],
               NEW d, due' = [due EXCEPT ![r] = d], HashCalm(r),
               d = due[r] \/ ~Current(r)' \/ r \in marked
        PROVE  AllFallback'
    <3>1. hash'[r] = h /\ \A q \in Requests : q # r => hash'[q] = hash[q]
      BY <1>1, <2>4, OneHash
    <3>2. due'[r] = d /\ \A q \in Requests : q # r => due'[q] = due[q]
      BY <1>1, <2>4 DEF Typed
    <3>3. \A q \in Requests : HashCalm(q)
      BY <2>4, <3>1 DEF HashCalm
    <3>4. AllCalm
      BY <1>3, <2>1, <2>3, <2>4, <3>2, <3>3 DEF AllCalm, CalmFor
    <3> QED
      BY <3>4, AllCalmKeeps
  <2>5. ASSUME NEW h \in HashRow, hash' = [hash EXCEPT ![r] = h],
               NEW d, due' = [due EXCEPT ![r] = d],
               h.status = hash[r].status, h.started = hash[r].started, h.sms = "cancelled",
               ~(Current(r) /\ (born[r] = now \/ Waiting(r)))
        PROVE  AllFallback'
    <3>1. hash'[r] = h /\ \A q \in Requests : q # r => hash'[q] = hash[q]
      BY <1>1, <2>5, OneHash
    <3>2. \A q \in Requests : q # r => due'[q] = due[q]
      BY <1>1, <2>5 DEF Typed
    <3>3. proc'[p] = s /\ \A q \in Procs : q # p => proc'[q] = proc[q]
      BY <1>1, <2>1 DEF Typed
    <3>4. ~(Current(r)' /\ (born'[r] = now' \/ Waiting(r)'))
      BY <1>3, <2>1, <2>5, <3>1 DEF Current, Waiting
    <3>5. UnmarkedIsUnsent(r)'
      <4>1. hash'[r].started = hash[r].started /\ hash'[r].sms \notin Outcomes
        BY <2>5, <3>1 DEF Outcomes
      <4>2. r \notin marked =>
            \A q \in Procs : proc'[q].req = r => proc'[q].pc \notin {"send", "record"}
        BY <1>4, <2>2, <3>3 DEF UnmarkedIsUnsent
      <4> QED
        BY <1>3, <1>4, <4>1, <4>2 DEF UnmarkedIsUnsent
    <3>6. HandlerIsPrompt(r)'
      <4>1. r \in Procs
        BY RequestsAreProcs
      <4> QED
        BY <1>3, <1>4, <2>1, <2>2, <3>3, <4>1 DEF HandlerIsPrompt, Prompt
    <3>7. FallbackFor(r)'
      BY <3>4, <3>5, <3>6 DEF FallbackFor, NotGivenUp, DueInTime
    <3>8. ASSUME NEW q \in Requests, q # r PROVE FallbackFor(q)'
      <4>1. HashCalm(q)
        BY <3>1, <3>8 DEF HashCalm
      <4>2. CalmFor(q)
        BY <1>3, <2>1, <2>3, <3>2, <3>8, <4>1 DEF CalmFor
      <4> QED
        BY <1>1, <4>2, CalmKeepsFallback DEF Before, AllFallback
    <3> QED
      BY <3>7, <3>8 DEF AllFallback
  <2>6. CASE v = "leave"
    <3>1. hash' = [hash EXCEPT ![r] = hash[r]] /\ due' = [due EXCEPT ![r] = due[r]]
      BY <1>0, <2>6 DEF Claim
    <3>2. HashCalm(r)
      BY <1>1, <3>1 DEF HashCalm, Typed
    <3> QED
      BY <1>1, <2>4, <3>1, <3>2
  <2>7. CASE v = "ambiguous"
    <3> DEFINE h == [hash[r] EXCEPT !.sms = "ambiguous"]
    <3>1. hash' = [hash EXCEPT ![r] = h] /\ due' = [due EXCEPT ![r] = None]
      BY <1>0, <2>7 DEF Claim
    <3>2. h \in HashRow /\ h.status = hash[r].status /\ h.sms = "ambiguous"
      BY <1>1 DEF HashRow, Outcomes
    <3>3. hash[r].started
      BY <2>7 DEF Verdict
    <3>4. r \in marked
      BY <1>4, <3>3 DEF UnmarkedIsUnsent
    <3> HIDE DEF h, v
    <3>5. hash'[r] = h
      BY <1>1, <3>1, <3>2, OneHash
    <3>6. HashCalm(r)
      BY <1>3, <3>2, <3>4, <3>5 DEF HashCalm
    <3> QED
      BY <2>4, <3>1, <3>2, <3>4, <3>6
  <2>8. CASE v = "expire"
    <3> DEFINE h == [hash[r] EXCEPT !.status = "expired"]
    <3>1. hash' = [hash EXCEPT ![r] = h] /\ due' = [due EXCEPT ![r] = None]
      BY <1>0, <2>8 DEF Claim
    <3>2. /\ h \in HashRow /\ h.status = "expired" /\ h.sms = hash[r].sms
          /\ h.claim = hash[r].claim /\ h.started = hash[r].started
      BY <1>1 DEF HashRow
    <3> HIDE DEF h, v
    <3>3. hash'[r] = h
      BY <1>1, <3>1, <3>2, OneHash
    <3>4. HashCalm(r) /\ ~Current(r)'
      BY <3>2, <3>3 DEF HashCalm, Current
    <3> QED
      BY <2>4, <3>1, <3>2, <3>4
  <2>9. CASE v = "cancel"
    <3> DEFINE h == [hash[r] EXCEPT !.sms = "cancelled"]
    <3>1. hash' = [hash EXCEPT ![r] = h] /\ due' = [due EXCEPT ![r] = None]
      BY <1>0, <2>9 DEF Claim
    <3>2. /\ h \in HashRow /\ h.status = hash[r].status /\ h.sms = "cancelled"
          /\ h.started = hash[r].started
      BY <1>1 DEF HashRow
    <3>3. born[code] + case.ttl - now < case.minTtl
      BY <2>9 DEF Verdict
    <3> HIDE DEF h, v
    <3>4. ~(Current(r) /\ (born[r] = now \/ Waiting(r)))
      BY <1>1, <3>3, YoungEnough DEF Current
    <3> QED
      BY <2>5, <3>1, <3>2, <3>4
  <2>10. CASE v = "remove"
    <3>1. hash' = [hash EXCEPT ![r] = hash[r]] /\ due' = [due EXCEPT ![r] = None]
      BY <1>0, <2>10 DEF Claim
    <3>2. hash[r].status # "pending" \/ hash[r].sms \notin {"pending", "not_attempted"}
      BY <2>10 DEF Verdict
    <3> HIDE DEF v
    <3>3. hash'[r] = hash[r] /\ HashCalm(r)
      BY <1>1, <3>1 DEF HashCalm, Typed
    <3>4. CASE hash[r].sms = "cancelled"
      <4>1. ~(Current(r) /\ (born[r] = now \/ Waiting(r)))
        BY <1>4, <3>4 DEF NotGivenUp
      <4> QED
        BY <1>1, <2>5, <3>1, <3>4, <4>1
    <3>5. CASE hash[r].sms # "cancelled"
      <4>1. ~Current(r)' \/ r \in marked
        <5>1. CASE hash[r].status # "pending"
          BY <3>3, <5>1 DEF Current
        <5>2. CASE hash[r].status = "pending"
          <6>1. hash[r].sms \in Outcomes
            BY <1>1, <3>2, <3>5, <5>2 DEF HashRow
          <6> QED
            BY <1>4, <6>1 DEF UnmarkedIsUnsent
        <5> QED
          BY <5>1, <5>2
      <4> QED
        BY <1>1, <2>4, <3>1, <3>3, <4>1
    <3> QED
      BY <3>4, <3>5
  <2>11. v \in {"leave", "ambiguous", "expire", "cancel", "remove"}
    BY <1>6 DEF Verdict
  <2> QED
    BY <2>6, <2>7, <2>8, <2>9, <2>10, <2>11
<1> QED
  BY <1>5, <1>6

\* Time passes only when nobody is between two steps and nothing is overdue, so
\* no deadline is missed.
LEMMA TickFallback ==
  ASSUME Before, Tick
  PROVE  AllFallback'
<1> SUFFICES ASSUME NEW r \in Requests PROVE FallbackFor(r)'
  BY DEF AllFallback
<1>1. /\ Typed /\ EnoughTime /\ case' = case /\ FallbackFor(r) /\ Quiet /\ r \in Procs
      /\ now \in Nat /\ None \notin Nat /\ None \notin Requests
  BY CaseNumbers, RequestsAreProcs, OtpAssumption
     DEF Before, AllFallback, OtpInv, EnoughTime, Tick
<1>2. /\ now' = now + 1 /\ born' = born /\ due' = due /\ proc' = proc /\ faults' = faults
      /\ marked' = marked /\ promised' = promised
  BY DEF Tick, ghosts
<1>3. NoHash.status = "missing" /\ NoHash.sms = "not_attempted" /\ NoHash.started = FALSE
  BY DEF NoHash
<1>4. hash'[r] = NoHash \/ hash'[r] = hash[r]
  BY DEF Tick
<1>5. Current(r)' => Current(r) /\ hash'[r] = hash[r]
  BY <1>1, <1>3, <1>4 DEF Current, Tick, Kept
<1>6. \A p \in Procs : proc[p].pc \in {"idle", "done"}
  BY <1>1 DEF Quiet
<1>7. UnmarkedIsUnsent(r) /\ HandlerIsPrompt(r) /\ NotGivenUp(r) /\ DueInTime(r)
  BY <1>1 DEF FallbackFor
<1>8. UnmarkedIsUnsent(r)'
  BY <1>2, <1>3, <1>4, <1>7 DEF UnmarkedIsUnsent, Outcomes
<1>9. HandlerIsPrompt(r)'
  <2>1. born[r] # None => born[r] \in Nat
    BY <1>1, CaseNumbers DEF Typed
  <2> QED
    BY <1>1, <1>2, <1>6, <1>7, <2>1 DEF HandlerIsPrompt, Prompt
<1>10. born[r] # now + 1
  <2>1. born[r] # None => born[r] \in Nat /\ born[r] <= now
    BY <1>1, <1>7, CaseNumbers DEF Typed, HandlerIsPrompt
  <2> QED
    BY <1>1, <2>1
<1>11. NotGivenUp(r)'
  BY <1>2, <1>5, <1>7, <1>10 DEF NotGivenUp, Waiting
<1>12. DueInTime(r)'
  <2> SUFFICES ASSUME Current(r)', Waiting(r)'
               PROVE  due'[r] # None /\ now' <= due'[r] /\ due'[r] <= Latest(r)'
    BY DEF DueInTime
  <2>1. due[r] # None /\ (due[r] <= Latest(r) \/ BeingTried(r))
    BY <1>2, <1>5, <1>7 DEF DueInTime, Waiting
  <2>2. due[r] \in Nat /\ now < due[r] /\ ~BeingTried(r)
    BY <1>1, <1>6, <2>1 DEF Typed, Quiet, BeingTried, Holds
  <2>3. Latest(r)' = Latest(r)
    BY <1>1, <1>2 DEF Latest
  <2> QED
    BY <1>1, <1>2, <2>1, <2>2, <2>3
<1> QED
  BY <1>8, <1>9, <1>11, <1>12 DEF FallbackFor

-----------------------------------------------------------------------------
(* The theorem about the fallback *)

\* Nothing is promised at first.
LEMMA FallbackInit == Init => FallbackInv
<1> SUFFICES ASSUME Init, NEW r \in Requests PROVE FallbackFor(r)
  BY DEF FallbackInv
<1>1. NoHash.sms = "not_attempted" /\ NoHash.started = FALSE /\ NoHash.status = "missing"
  BY DEF NoHash
<1>2. Idle.pc = "idle" /\ r \in Procs
  BY RequestsAreProcs DEF Idle
<1>3. UnmarkedIsUnsent(r)
  BY <1>1, <1>2 DEF Init, UnmarkedIsUnsent, Outcomes
<1>4. HandlerIsPrompt(r)
  BY <1>2 DEF Init, HandlerIsPrompt, Prompt
<1> QED
  BY <1>1, <1>3, <1>4 DEF Init, FallbackFor, NotGivenUp, DueInTime, Current

\* Every step keeps it.
LEMMA FallbackNext == OtpInv /\ FallbackInv /\ [Next]_vars => FallbackInv'
<1> SUFFICES ASSUME OtpInv, FallbackInv, [Next]_vars, EnoughTime'
             PROVE  AllFallback'
  BY DEF FallbackInv, AllFallback
<1>1. case' = case
  BY DEF Next, vars
<1>2. Before
  BY <1>1 DEF Before, FallbackInv, AllFallback, EnoughTime
<1>3. CASE UNCHANGED vars
  BY <1>2, <1>3 DEF Before, AllFallback, FallbackFor, UnmarkedIsUnsent, HandlerIsPrompt,
     NotGivenUp, DueInTime, BeingTried, Holds, MyClaim, Latest, Current, Waiting, vars
<1>4. CASE Step
  BY <1>2, <1>4, ArmCalm, ScheduleCalm, TelegramAnswerCalm, CancelCalm, TakeOnCalm,
     VerifyCalm, CrashCalm, MarkCalm, SendCalm, RecordCalm, AllCalmKeeps,
     CreateFallback, ClaimFallback, TickFallback DEF Step
<1> QED
  BY <1>3, <1>4 DEF Next

\* For a promised code the provider is called before the code is too old to be
\* sent, whatever handler, runner of the job or script fails on the way, as long
\* as the leases these faults can cost fit into the code's life (EnoughTime): each
\* fault puts the attempt off by one lease at most (arm_sms_fallback,
\* _CLAIM_SCRIPT, select_due_otp_requests).  The exception is a fault between the
\* mark and the call, after which the code gives the request up
\* (execute_claimed_otp_sms_delivery): the requests in lost.
THEOREM FallbackIsKept == Spec => [](EnoughTime => FallbackKept)
<1>1. OtpInv /\ CallInv /\ FallbackInv => (EnoughTime => FallbackKept)
  <2> SUFFICES ASSUME OtpInv, CallInv, EnoughTime, \A q \in Requests : FallbackFor(q),
                      NEW r \in promised, Quiet, Current(r),
                      born[r] + case.ttl - now <= case.minTtl
               PROVE  calls[r] > 0 \/ r \in lost
    BY DEF FallbackInv, FallbackKept, Current
  <2>1. Typed /\ r \in Requests
    BY DEF OtpInv, Typed
  <2>2. CASE r \in marked
    <3>1. calls[r] # 0 \/ r \in lost
      BY <2>2 DEF CallInv, MarkedIsCalled, Quiet
    <3>2. calls[r] \in Nat
      BY <2>1 DEF Typed
    <3> QED
      BY <3>1, <3>2
  <2>3. CASE r \notin marked
    <3>1. Waiting(r) /\ FallbackFor(r)
      BY <2>1, <2>3 DEF Waiting
    <3>2. born[r] # None
      BY <2>1, <3>1, YoungEnough
    <3>3. /\ born[r] \in Nat /\ Latest(r) \in Nat
          /\ Latest(r) + case.minTtl <= born[r] + case.ttl
      BY <2>1, <3>2, Deadline
    <3>4. due[r] # None /\ (due[r] <= Latest(r) \/ BeingTried(r))
      BY <3>1 DEF FallbackFor, DueInTime
    <3>5. due[r] \in Nat /\ now < due[r] /\ due[r] <= Latest(r)
      BY <2>1, <3>4 DEF Typed, Quiet, BeingTried, Holds
    <3> QED
      BY <2>1, <3>3, <3>5, CaseNumbers
  <2> QED
    BY <2>2, <2>3
<1>2. Init => OtpInv /\ CallInv /\ FallbackInv
  BY OtpInvInit, CallInit, FallbackInit
<1>3. OtpInv /\ CallInv /\ FallbackInv /\ [Next]_vars => (OtpInv /\ CallInv /\ FallbackInv)'
  BY OtpInvNext, CallNext, FallbackNext
<1> QED
  BY <1>1, <1>2, <1>3, PTL DEF Spec
=============================================================================
