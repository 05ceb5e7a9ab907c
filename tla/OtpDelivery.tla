---------------------------- MODULE OtpDelivery ----------------------------
(***************************************************************************)
(* Login codes of one mobile number: the Redis state of                    *)
(* core/services/otp_delivery_state_service.py, the request, resend and    *)
(* verify endpoints of api/routers/auth.py, the provider attempt of        *)
(* core/services/otp_sms_delivery_service.py and the fallback job of       *)
(* core/otp_sms_fallback_worker.py.                                        *)
(*                                                                         *)
(* A Lua script is one step; two awaits of a handler are two steps.  Codes *)
(* are as distinct as the requests that made them, so a code IS its        *)
(* request.  The keys otp:, otp_limit:, otp_delivery:mobile: and the       *)
(* request hash are written by one script with one TTL and expire          *)
(* together.                                                               *)
(***************************************************************************)
EXTENDS Naturals, FiniteSets

CONSTANTS
  Requests,     \* login requests for the mobile number
  Workers,      \* runners of the fallback job, one item each
  Resenders,    \* calls of /resend-otp-sms
  Cases,        \* the cases a run covers
  None

\* A case fixes what differs between the situations one run looks at.
CaseType ==
  [ttl : Nat,              \* OTP_CODE_TTL_SECONDS
   fallback : Nat,         \* OTP_SMS_FALLBACK_SECONDS
   slack : Nat,            \* recovery_at is fallback + slack after the request
   lease : Nat,            \* OTP_SMS_CLAIM_LEASE_SECONDS
   minTtl : Nat,           \* OTP_SMS_MINIMUM_SEND_TTL_SECONDS
   requests : SUBSET Requests,
   workers : SUBSET Workers,
   timely : BOOLEAN,       \* no process stays between two steps for a unit of time
   faults : Nat]           \* bound on process deaths and failed scripts

ASSUME OtpAssumption ==
  /\ Cases \subseteq CaseType
  /\ \A c \in Cases : /\ c.minTtl <= c.lease /\ c.lease < c.fallback + c.slack
                      /\ c.fallback + c.slack < c.ttl
  /\ Requests \cap (Workers \cup Resenders) = {}
  /\ None \notin Requests \cup Workers \cup Resenders \cup Nat

Procs == Requests \cup Workers \cup Resenders

VARIABLES
  now,
  code,      \* otp:{mobile}: the request whose code is stored
  limit,     \* otp_limit:{mobile}: the request that set it
  mobile,    \* otp_delivery:mobile:{digest}: the current request
  born,      \* when each request was created
  hash,      \* otp_delivery:request:{id}
  due,       \* the sorted set otp_delivery:sms_fallback_due: scores
  locked,    \* the verify lock of the subject, longer than Ttl
  proc,      \* the local state of each handler, worker and resend
  cleaning,  \* a login between the consumption and its own deletes
  faults,
  marked,    \* requests whose provider attempt was marked as started
  calls,     \* provider calls made under a claim, per request
  unclaimed, \* provider calls a resend made without a claim, per code sent
  lost,      \* marked requests whose caller was not told, or died before the call
  known,     \* codes that reached the user
  promised,  \* requests their own handler put into the sorted set
  case       \* the case this behaviour belongs to; it never changes

vars == <<now, code, limit, mobile, born, hash, due, locked, proc, cleaning,
          faults, marked, calls, unclaimed, lost, known, promised, case>>

keys == <<code, limit, mobile>>
ghosts == <<marked, calls, unclaimed, lost, known, promised>>

NoHash == [status |-> "missing", tg |-> "not_attempted",
           sms |-> "not_attempted", claim |-> 0, lease |-> 0,
           started |-> FALSE]

\* A handler that is not running; req is the request it works on, claim the
\* generation it holds, text the code it sends, got the provider's outcome.
Idle == [pc |-> "idle", req |-> None, text |-> None, claim |-> 0,
         got |-> None]

Outcomes == {"accepted", "failed", "ambiguous"}

Init ==
  /\ now = 0 /\ faults = 0
  /\ code = None /\ limit = None /\ mobile = None
  /\ born = [r \in Requests |-> None]
  /\ hash = [r \in Requests |-> NoHash]
  /\ due = [r \in Requests |-> None]
  /\ locked = FALSE /\ cleaning = FALSE
  /\ proc = [p \in Procs |-> Idle]
  /\ marked = {} /\ lost = {} /\ known = {} /\ promised = {}
  /\ calls = [r \in Requests |-> 0] /\ unclaimed = [r \in Requests |-> 0]
  /\ case \in Cases

Goto(p, pc) == proc' = [proc EXCEPT ![p].pc = pc]

Fault(res) == faults' = IF res.told THEN faults ELSE faults + 1

\* Whether a script's effect happened, and whether the caller was told.
ScriptResults ==
  {[done |-> TRUE, told |-> TRUE]} \cup
  (IF faults < case.faults THEN {[done |-> FALSE, told |-> FALSE],
                        [done |-> TRUE, told |-> FALSE]} ELSE {})

---------------------------------------------------------------------------
(* /request-otp *)

\* create_otp_delivery_state; without a linked Telegram account the handler
\* goes straight to the SMS.
Create(r, linked) ==
  /\ r \in case.requests /\ born[r] = None /\ proc[r] = Idle
  /\ code = None /\ limit = None
  /\ code' = r /\ limit' = r /\ mobile' = r
  /\ born' = [born EXCEPT ![r] = now]
  /\ hash' = [hash EXCEPT ![r] = [NoHash EXCEPT !.status = "pending"]]
  /\ proc' = [proc EXCEPT ![r] = [Idle EXCEPT !.req = r,
                !.pc = IF linked THEN "arm" ELSE "claim"]]
  /\ UNCHANGED <<now, due, locked, cleaning, faults, ghosts>>

\* Mutant: the deadline is kept in the hash, never in the sorted set.
ArmHashOnly(r, res) ==
  LET ok == hash[r].status = "pending" /\ hash[r].tg = "not_attempted" IN
  /\ proc[r].pc = "arm"
  /\ hash' = IF ok /\ res.done
             THEN [hash EXCEPT ![r].tg = "pending"] ELSE hash
  /\ promised' = IF ok /\ res.done THEN promised \cup {r} ELSE promised
  /\ Goto(r, IF ok /\ res.told THEN "telegram" ELSE "claim")
  /\ Fault(res)
  /\ UNCHANGED <<now, keys, born, due, locked, cleaning, marked,
                 calls, unclaimed, lost, known>>

\* arm_sms_fallback, before the command leaves for the foreign server.
Arm(r, res) ==
  LET ok == hash[r].status = "pending" /\ hash[r].tg = "not_attempted" IN
  /\ proc[r].pc = "arm"
  /\ IF ok /\ res.done
     THEN /\ hash' = [hash EXCEPT ![r].tg = "pending"]
          /\ due' = [due EXCEPT ![r] = now + case.fallback + case.slack]
          /\ promised' = promised \cup {r}
     ELSE UNCHANGED <<hash, due, promised>>
  /\ Goto(r, IF ok /\ res.told THEN "telegram" ELSE "claim")
  /\ Fault(res)
  /\ UNCHANGED <<now, keys, born, locked, cleaning, marked, calls,
                 unclaimed, lost, known>>

\* forward_telegram_otp_delivery: the bot may have delivered the code
\* although the acknowledgement timed out.
TelegramAnswer(r, delivered, acknowledged) ==
  /\ proc[r].pc = "telegram"
  /\ acknowledged => delivered
  /\ known' = IF delivered THEN known \cup {r} ELSE known
  /\ Goto(r, IF acknowledged THEN "schedule" ELSE "claim")
  /\ UNCHANGED <<now, keys, born, hash, due, locked, cleaning, faults,
                 marked, calls, unclaimed, lost, promised>>

\* schedule_sms_fallback; when the script did not confirm, the handler falls
\* through to the immediate SMS.
Schedule(r, res) ==
  LET ok == /\ hash[r].status = "pending"
            /\ hash[r].tg \in {"not_attempted", "pending"} IN
  /\ proc[r].pc = "schedule"
  /\ IF ok /\ res.done
     THEN /\ hash' = [hash EXCEPT ![r].tg = "accepted"]
          /\ due' = [due EXCEPT ![r] = now + case.fallback]
     ELSE UNCHANGED <<hash, due>>
  /\ Goto(r, IF ok /\ res.told THEN "done" ELSE "claim")
  /\ Fault(res)
  /\ UNCHANGED <<now, keys, born, locked, cleaning, ghosts>>

---------------------------------------------------------------------------
(* One provider attempt, by a request handler, a resend or the worker *)

NotDue(p, r) == p \in Workers /\ (due[r] = None \/ due[r] > now)

\* Mutant: a claim whose lease ran out is taken again whether or not its
\* provider call had started.
VerdictBlind(p, r) ==
  IF hash[r].status # "pending" THEN "remove"
  ELSE IF /\ hash[r].sms = "pending"
          /\ now < hash[r].lease \/ (due[r] # None /\ now < due[r]) THEN "leave"
  ELSE IF hash[r].sms \notin {"pending", "not_attempted"} THEN "remove"
  ELSE IF code = None THEN "expire"
  ELSE IF born[code] + case.ttl - now < case.minTtl THEN "cancel"
  ELSE IF NotDue(p, r) THEN "leave"
  ELSE "claim"

\* What _CLAIM_SCRIPT decides for request r, in the order of its tests.
Verdict(p, r) ==
  IF hash[r].status # "pending" THEN "remove"
  ELSE IF /\ hash[r].sms = "pending"
          /\ now < hash[r].lease \/ (due[r] # None /\ now < due[r]) THEN "leave"
  ELSE IF hash[r].sms = "pending" /\ hash[r].started THEN "ambiguous"
  ELSE IF hash[r].sms \notin {"pending", "not_attempted"} THEN "remove"
  ELSE IF code = None THEN "expire"
  ELSE IF born[code] + case.ttl - now < case.minTtl THEN "cancel"
  ELSE IF NotDue(p, r) THEN "leave"
  ELSE "claim"

AfterAttempt(p) == IF p \in Requests THEN "done" ELSE "idle"

\* claim_sms_delivery.  A claim that was refused ends the attempt.
Claim(p) ==
  LET r == proc[p].req
      v == Verdict(p, r)
      n == hash[r].claim + 1 IN
  /\ proc[p].pc = "claim"
  /\ hash' = [hash EXCEPT ![r] =
       CASE v = "ambiguous" -> [@ EXCEPT !.sms = "ambiguous"]
         [] v = "expire" -> [@ EXCEPT !.status = "expired"]
         [] v = "cancel" -> [@ EXCEPT !.sms = "cancelled"]
         [] v = "claim" -> [@ EXCEPT !.sms = "pending", !.claim = n,
                              !.lease = now + case.lease, !.started = FALSE]
         [] OTHER -> @]
  /\ due' = [due EXCEPT ![r] =
       CASE v = "leave" -> @ [] v = "claim" -> now + case.lease [] OTHER -> None]
  /\ promised' = IF v = "claim" /\ p \in Requests THEN promised \cup {r} ELSE promised
  /\ proc' = [proc EXCEPT ![p] =
       IF v = "claim" THEN [@ EXCEPT !.pc = "mark", !.claim = n, !.text = code]
       ELSE [Idle EXCEPT !.pc = AfterAttempt(p)]]
  /\ UNCHANGED <<now, keys, born, locked, cleaning, faults, marked, calls,
                 unclaimed, lost, known>>

MyClaim(p) ==
  LET r == proc[p].req IN
  hash[r].sms = "pending" /\ hash[r].claim = proc[p].claim

\* mark_sms_provider_attempt_started: when the caller is not told, it gives
\* up without calling the provider.
Mark(p, res) ==
  LET r == proc[p].req
      ok == hash[r].status = "pending" /\ MyClaim(p) IN
  /\ proc[p].pc = "mark"
  /\ IF ok /\ res.done
     THEN /\ hash' = [hash EXCEPT ![r].started = TRUE]
          /\ marked' = marked \cup {r}
     ELSE UNCHANGED <<hash, marked>>
  /\ lost' = IF ok /\ res.done /\ ~res.told THEN lost \cup {r} ELSE lost
  /\ IF ok /\ res.told
     THEN Goto(p, "send")
     ELSE proc' = [proc EXCEPT ![p] = [Idle EXCEPT !.pc = AfterAttempt(p)]]
  /\ Fault(res)
  /\ UNCHANGED <<now, keys, born, due, locked, cleaning, calls, unclaimed,
                 known, promised>>

\* send_otp_sms_result_async: an ambiguous call may have been delivered.
Send(p, outcome, delivered) ==
  LET r == proc[p].req IN
  /\ proc[p].pc = "send"
  /\ outcome = "accepted" => delivered
  /\ outcome = "failed" => ~delivered
  /\ calls' = [calls EXCEPT ![r] = @ + 1]
  /\ known' = IF delivered THEN known \cup {proc[p].text} ELSE known
  /\ proc' = [proc EXCEPT ![p].pc = "record", ![p].got = outcome]
  /\ UNCHANGED <<now, keys, born, hash, due, locked, cleaning, faults,
                 marked, unclaimed, lost, promised>>

\* record_sms_delivery_result.  Only the request handler acts on a recorded
\* rejection: it withdraws the code.
Record(p, res) ==
  LET r == proc[p].req
      ok == MyClaim(p) IN
  /\ proc[p].pc = "record"
  /\ IF ok /\ res.done
     THEN /\ hash' = [hash EXCEPT ![r].sms = proc[p].got]
          /\ due' = [due EXCEPT ![r] = None]
     ELSE UNCHANGED <<hash, due>>
  /\ IF ok /\ res.told /\ proc[p].got = "failed" /\ p \in Requests
     THEN Goto(p, "cancel")
     ELSE proc' = [proc EXCEPT ![p] = [Idle EXCEPT !.pc = AfterAttempt(p)]]
  /\ Fault(res)
  /\ UNCHANGED <<now, keys, born, locked, cleaning, ghosts>>

---------------------------------------------------------------------------
(* cancel_otp_delivery: three awaits, by mobile number *)

CancelLoad(r) ==
  /\ proc[r].pc = "cancel"
  /\ proc' = [proc EXCEPT ![r].pc = "withdraw",
       ![r].req = IF mobile # None /\ hash[mobile].status # "missing"
                  THEN mobile ELSE None]
  /\ UNCHANGED <<now, keys, born, hash, due, locked, cleaning, faults, ghosts>>

CancelDelete(r) ==
  /\ proc[r].pc = "withdraw"
  /\ code' = None /\ limit' = None /\ mobile' = None
  /\ Goto(r, IF proc[r].req = None THEN "done" ELSE "expire")
  /\ UNCHANGED <<now, born, hash, due, locked, cleaning, faults, ghosts>>

CancelExpire(r) ==
  LET q == proc[r].req IN
  /\ proc[r].pc = "expire"
  /\ hash' = [hash EXCEPT ![q].status = "expired"]
  /\ due' = [due EXCEPT ![q] = None]
  /\ proc' = [proc EXCEPT ![r] = [Idle EXCEPT !.pc = "done"]]
  /\ UNCHANGED <<now, keys, born, locked, cleaning, faults, ghosts>>

---------------------------------------------------------------------------
(* The fallback job *)

\* select_due_otp_requests: an item that is not pending leaves the set.
Select(w, r) ==
  /\ proc[w] = Idle /\ w \in case.workers /\ due[r] # None /\ due[r] <= now
  /\ IF hash[r].status = "pending"
     THEN /\ proc' = [proc EXCEPT ![w].pc = "claim", ![w].req = r]
          /\ UNCHANGED due
     ELSE /\ due' = [due EXCEPT ![r] = None]
          /\ UNCHANGED proc
  /\ UNCHANGED <<now, keys, born, hash, locked, cleaning, faults, ghosts>>

---------------------------------------------------------------------------
(* /resend-otp-sms *)

\* The endpoint reads the code, checks the account in the database ...
ResendRead(s) ==
  /\ proc[s] = Idle /\ code # None
  /\ proc' = [proc EXCEPT ![s].pc = "resend", ![s].req = code]
  /\ UNCHANGED <<now, keys, born, hash, due, locked, cleaning, faults, ghosts>>

\* ... and then loads the delivery state.  With a state it joins the claim
\* protocol; without one it calls the provider with the code it read, without
\* a claim (send_otp_sms).
ResendLoad(s) ==
  /\ proc[s].pc = "resend"
  /\ \/ /\ mobile # None /\ hash[mobile].status # "missing"
        /\ proc' = [proc EXCEPT ![s].pc = "claim", ![s].req = mobile]
        /\ UNCHANGED <<known, unclaimed>>
     \/ /\ ~(mobile # None /\ hash[mobile].status # "missing")
        /\ unclaimed' = [unclaimed EXCEPT ![proc[s].req] = @ + 1]
        /\ known' \in {known, known \cup {proc[s].req}}
        /\ proc' = [proc EXCEPT ![s] = Idle]
  /\ UNCHANGED <<now, keys, born, hash, due, locked, cleaning, faults,
                 marked, calls, lost, promised>>

---------------------------------------------------------------------------
(* /verify-otp *)

\* consume_otp_code, after the stored code was compared and the lock read.
Consume ==
  /\ code \in known /\ ~locked
  /\ code' = None /\ limit' = None /\ mobile' = None
  /\ IF mobile # None
     THEN /\ hash' = IF hash[mobile].status = "pending"
                     THEN [hash EXCEPT ![mobile].status = "consumed"] ELSE hash
          /\ due' = [due EXCEPT ![mobile] = None]
     ELSE UNCHANGED <<hash, due>>
  /\ cleaning' = TRUE
  /\ UNCHANGED <<now, born, locked, proc, faults, ghosts>>

\* The login went on and deletes the two keys once more.
Cleanup ==
  /\ cleaning
  /\ cleaning' = FALSE
  /\ code' = None /\ limit' = None
  /\ UNCHANGED <<now, mobile, born, hash, due, locked, proc, faults, ghosts>>

\* _record_otp_verify_failure at the last failure allowed.
LockOut ==
  /\ ~locked /\ code # None
  /\ locked' = TRUE /\ code' = None
  /\ UNCHANGED <<now, limit, mobile, born, hash, due, proc, cleaning, faults,
                 ghosts>>

---------------------------------------------------------------------------
(* Faults and time *)

\* The process behind a handler, a resend or the job dies.
Crash(p) ==
  /\ proc[p].pc \notin {"idle", "done"} /\ faults < case.faults
  /\ faults' = faults + 1
  /\ proc' = [proc EXCEPT ![p] = [Idle EXCEPT !.pc = AfterAttempt(p)]]
  /\ lost' = IF proc[p].pc = "send" THEN lost \cup {proc[p].req} ELSE lost
  /\ UNCHANGED <<now, keys, born, hash, due, locked, cleaning, marked, calls,
                 unclaimed, known, promised>>

\* Nobody is between two steps, and the job has looked at what is due: it
\* runs every second, a unit of time stands for several.
Quiet ==
  /\ ~cleaning
  /\ \A p \in Procs : proc[p].pc \in {"idle", "done"}
  /\ \A r \in Requests : due[r] # None => due[r] > now

Live(r, t) == born[r] # None /\ t < born[r] + case.ttl

Kept(key) == IF key # None /\ Live(key, now + 1) THEN key ELSE None

\* One unit of time, kept from passing under a running handler in a timely case;
\* Redis drops the keys whose TTL is over.
Tick ==
  /\ case.timely => Quiet
  /\ now < case.ttl
  /\ now' = now + 1
  /\ code' = Kept(code) /\ limit' = Kept(limit) /\ mobile' = Kept(mobile)
  /\ hash' = [r \in Requests |->
       IF Live(r, now) /\ ~Live(r, now + 1) THEN NoHash ELSE hash[r]]
  /\ UNCHANGED <<born, due, locked, proc, cleaning, faults, ghosts>>

Step ==
  \/ \E r \in Requests :
       \/ \E linked \in BOOLEAN : Create(r, linked)
       \/ \E res \in ScriptResults : Arm(r, res)
       \/ \E res \in ScriptResults : Schedule(r, res)
       \/ \E delivered, acknowledged \in BOOLEAN :
            TelegramAnswer(r, delivered, acknowledged)
       \/ CancelLoad(r) \/ CancelDelete(r) \/ CancelExpire(r)
  \/ \E p \in Procs :
       \/ Claim(p)
       \/ \E res \in ScriptResults : Mark(p, res)
       \/ \E res \in ScriptResults : Record(p, res)
       \/ \E outcome \in Outcomes, delivered \in BOOLEAN :
            Send(p, outcome, delivered)
       \/ Crash(p)
  \/ \E w \in Workers, r \in Requests : Select(w, r)
  \/ \E s \in Resenders : ResendRead(s) \/ ResendLoad(s)
  \/ Consume \/ Cleanup \/ LockOut \/ Tick

Next == Step /\ UNCHANGED case

Spec == Init /\ [][Next]_vars

---------------------------------------------------------------------------
(* Properties *)

TypeOK ==
  /\ now \in 0..case.ttl /\ faults \in 0..case.faults
  /\ {code, limit, mobile} \subseteq Requests \cup {None}
  /\ born \in [Requests -> 0..case.ttl \cup {None}]
  /\ \A r \in Requests :
       /\ hash[r].status \in {"missing", "pending", "consumed", "expired"}
       /\ hash[r].tg \in {"not_attempted", "pending", "accepted"}
       /\ hash[r].sms \in Outcomes \cup {"not_attempted", "pending", "cancelled"}
       /\ due[r] \in Nat \cup {None}
  /\ \A p \in Procs : proc[p].req \in Requests \cup {None}
  /\ marked \cup lost \cup known \cup promised \subseteq Requests

\* Under the claim protocol the provider is called at most once for a request,
\* whatever handlers, resends and runners of the job race, die or lose their
\* lease in between (claim_sms_delivery, mark_sms_provider_attempt_started).
\* The one call outside the protocol is that of a resend that finds no delivery
\* state (auth.py, "Legacy compatibility"): it can repeat an SMS, but only of a
\* code that was consumed, withdrawn or expired since the resend read it; while
\* a code works, nobody sends it without a claim.
OneSms ==
  \A r \in Requests : calls[r] <= 1 /\ (code = r => unclaimed[r] = 0)

\* For a request whose handler put it into the sorted set (arm_sms_fallback, its
\* own claim) the provider has been called before the code is too old to be
\* sent, although that handler, the job or a script failed on the way; provided
\* handlers and job keep up with the clock, and unless the one caller that had
\* set the mark was not told so or died before its call: the code gives such a
\* request up (execute_claimed_otp_sms_delivery answers provider_attempted =
\* False, and the next claim finds the mark and settles it as ambiguous).
FallbackKept ==
  \A r \in promised :
    (/\ case.timely /\ Quiet /\ code = r /\ hash[r].status = "pending"
     /\ Live(r, now) /\ born[r] + case.ttl - now <= case.minTtl)
      => calls[r] > 0 \/ r \in lost
=============================================================================
