---------------------------- MODULE RuntimeGate ----------------------------
(***************************************************************************)
(* One runtime gate of the Telegram delivery queue (a bot or the gateway): *)
(* closed by a provider answer or by a rate-limited preflight, mirrored    *)
(* into Redis by the workers, reopened by the operator's saga over         *)
(* PostgreSQL, Telegram and Redis, which may crash between its commits.    *)
(* core/services/telegram_delivery_runtime_gate_service.py.                *)
(***************************************************************************)
EXTENDS Naturals, FiniteSets

CONSTANTS
    Jobs,           \* jobs of the bot
    Operators,      \* runs of scripts/telegram_delivery_runtime_resume.py
    RequestIds,     \* request ids
    Overlap,        \* whether two runs of one request id may overlap
    MaxBlocks,      \* bound: hard provider answers
    MaxLimits,      \* bound: rate-limited preflights
    MaxAttempts     \* bound: runs of the saga

NoRequest == "none"

ASSUME GateConstants ==
    /\ NoRequest \notin RequestIds
    /\ Overlap \in BOOLEAN
    /\ MaxBlocks \in Nat /\ MaxLimits \in Nat /\ MaxAttempts \in Nat

VARIABLES
    job,        \* job[j]
    gate,       \* the row of telegram_delivery_runtime_gates
    block,      \* the Redis key bot_block, which has no expiry
    observing,  \* jobs whose slot has still to mirror the block into Redis
    mirror,     \* a rehydration that read a closed gate and has not written yet
    lane,       \* the lane activation loop
    op,         \* op[p]: where run p of the saga is
    blocks, limits, attempts

vars == <<job, gate, block, observing, mirror, lane, op, blocks, limits, attempts>>

HardStates == {"blocked", "resume_requested", "database_applied"}

Idle == [pc |-> "idle", request |-> NoRequest, fresh |-> FALSE]

TypeOK ==
    /\ job \in [Jobs -> {"ready", "admitted", "calling", "blocked", "done"}]
    /\ gate \in [state : HardStates \cup {"active", "cooldown"},
                 request : RequestIds \cup {NoRequest}, cooldown : BOOLEAN]
    /\ gate.state = "blocked" => gate.request = NoRequest
    /\ gate.state \in HardStates \ {"blocked"} => gate.request # NoRequest
    /\ block \in BOOLEAN
    /\ observing \subseteq Jobs
    /\ mirror \in BOOLEAN
    /\ lane \in {"idle", "preflight", "approved"}
    /\ op \in [Operators -> [pc : {"idle", "preflight", "database", "redis", "complete"},
                             request : RequestIds \cup {NoRequest}, fresh : BOOLEAN]]
    /\ blocks \in 0..MaxBlocks /\ limits \in 0..MaxLimits /\ attempts \in 0..MaxAttempts

Init ==
    /\ job = [j \in Jobs |-> "ready"]
    /\ gate = [state |-> "active", request |-> NoRequest, cooldown |-> FALSE]
    /\ block = FALSE
    /\ observing = {}
    /\ mirror = FALSE
    /\ lane = "idle"
    /\ op = [p \in Operators |-> Idle]
    /\ blocks = 0 /\ limits = 0 /\ attempts = 0

Blockers == {j \in Jobs : job[j] = "blocked"}

\* The gate as claim, marker and rehydration read it
Closed == gate.state \in HardStates \/ (gate.state = "cooldown" /\ gate.cooldown)

-----------------------------------------------------------------------------
(* The queue's side.                                                       *)

\* The limiter's script finds no block
Admit(j) ==
    /\ job[j] = "ready"
    /\ ~block
    /\ job' = [job EXCEPT ![j] = "admitted"]
    /\ UNCHANGED <<gate, block, observing, mirror, lane, op, blocks, limits, attempts>>

\* The marker: _assert_durable_dispatch_gate lets the call out or defers the job
Dispatch(j) ==
    /\ job[j] = "admitted"
    /\ job' = [job EXCEPT ![j] = IF Closed \/ Blockers # {} THEN "ready" ELSE "calling"]
    /\ UNCHANGED <<gate, block, observing, mirror, lane, op, blocks, limits, attempts>>

Delivered(j) ==
    /\ job[j] = "calling"
    /\ job' = [job EXCEPT ![j] = "done"]
    /\ UNCHANGED <<gate, block, observing, mirror, lane, op, blocks, limits, attempts>>

\* _persist_durable_runtime_gate_evidence
BlockedGate == [state |-> "blocked", request |-> NoRequest, cooldown |-> FALSE]

\* A 401 or 404: job and gate are blocked in one transaction
Unauthorized(j) ==
    /\ job[j] = "calling"
    /\ blocks < MaxBlocks
    /\ blocks' = blocks + 1
    /\ job' = [job EXCEPT ![j] = "blocked"]
    /\ gate' = BlockedGate
    /\ observing' = observing \cup {j}
    /\ op' = [p \in Operators |-> [op[p] EXCEPT !.fresh = FALSE]]
    /\ UNCHANGED <<block, mirror, lane, limits, attempts>>

\* The slot's observe after its commit, unless the process died before it
Observe(j) ==
    /\ j \in observing
    /\ observing' = observing \ {j}
    /\ block' \in {block, TRUE}
    /\ UNCHANGED <<job, gate, mirror, lane, op, blocks, limits, attempts>>

\* rehydrate_telegram_delivery_limiter_state reads PostgreSQL ...
RehydrateRead ==
    /\ ~mirror
    /\ mirror' = (gate.state \in HardStates \/ Blockers # {})
    /\ UNCHANGED <<job, gate, block, observing, lane, op, blocks, limits, attempts>>

\* ... and writes Redis afterwards
RehydrateWrite ==
    /\ mirror
    /\ mirror' = FALSE
    /\ block' = TRUE
    /\ UNCHANGED <<job, gate, observing, lane, op, blocks, limits, attempts>>

\* Redis loses its keys
RedisLoss ==
    /\ block
    /\ block' = FALSE
    /\ UNCHANGED <<job, gate, observing, mirror, lane, op, blocks, limits, attempts>>

CooldownEnds ==
    /\ gate.cooldown
    /\ gate' = [gate EXCEPT !.cooldown = FALSE]
    /\ UNCHANGED <<job, block, observing, mirror, lane, op, blocks, limits, attempts>>

-----------------------------------------------------------------------------
(* The lane activation loop: preflight, durable gates read again, gate.    *)

MayStart == ~Closed /\ Blockers = {}

LaneBegin ==
    /\ lane = "idle"
    /\ MayStart
    /\ lane' = "preflight"
    /\ UNCHANGED <<job, gate, block, observing, mirror, op, blocks, limits, attempts>>

\* The second rehydration, after the network calls
LaneApproved ==
    /\ lane = "preflight"
    /\ lane' = IF MayStart THEN "approved" ELSE "idle"
    /\ UNCHANGED <<job, gate, block, observing, mirror, op, blocks, limits, attempts>>

\* record_telegram_preflight_rate_limit
LaneLimited ==
    /\ lane = "preflight"
    /\ limits < MaxLimits
    /\ limits' = limits + 1
    /\ lane' = "idle"
    /\ gate' = [gate EXCEPT !.cooldown = TRUE,
                            !.state = IF @ = "active" THEN "cooldown" ELSE @]
    /\ UNCHANGED <<job, block, observing, mirror, op, blocks, attempts>>

\* Mutant: a successful preflight opens the gate whatever closed it
ActiveAnyway(g) == [g EXCEPT !.state = "active", !.cooldown = FALSE]

\* mark_telegram_preflight_gate_active touches a gate in cooldown only
MarkedActive(g) ==
    IF g.state = "cooldown" THEN [g EXCEPT !.state = "active", !.cooldown = FALSE] ELSE g

LaneActive ==
    /\ lane = "approved"
    /\ lane' = "idle"
    /\ gate' = MarkedActive(gate)
    /\ UNCHANGED <<job, block, observing, mirror, op, blocks, limits, attempts>>

-----------------------------------------------------------------------------
(* resume_telegram_runtime_gate: one action per transaction or call.       *)

\* The first transaction goes on only for a gate that is closed (or has blocked
\* jobs), with no other request under way and its own cooldown over
Resumable(r) ==
    /\ gate.state = "active" => gate.request # r /\ Blockers # {}
    /\ gate.state \in {"resume_requested", "database_applied"} => gate.request = r
    /\ gate.request = r => ~gate.cooldown

Prepare(p, r) ==
    /\ op[p].pc = "idle"
    /\ Overlap \/ \A q \in Operators : op[q].request # r
    /\ attempts < MaxAttempts
    /\ attempts' = attempts + 1
    /\ Resumable(r)
    /\ gate' = [gate EXCEPT !.request = r,
                            !.state = IF @ = "database_applied" THEN @ ELSE "resume_requested"]
    /\ op' = [op EXCEPT ![p] = [pc |-> "preflight", request |-> r, fresh |-> FALSE]]
    /\ UNCHANGED <<job, block, observing, mirror, lane, blocks, limits>>

PreflightOk(p) ==
    /\ op[p].pc = "preflight"
    /\ op' = [op EXCEPT ![p].pc = "database", ![p].fresh = TRUE]
    /\ UNCHANGED <<job, gate, block, observing, mirror, lane, blocks, limits, attempts>>

Mine(p) == gate.request = op[p].request

\* A preflight that fails; a 429 leaves a deadline on the gate
PreflightFails(p) ==
    /\ op[p].pc = "preflight"
    /\ op' = [op EXCEPT ![p] = Idle]
    /\ \/ UNCHANGED <<gate, limits>>
       \/ /\ limits < MaxLimits
          /\ limits' = limits + 1
          /\ gate' = [gate EXCEPT !.cooldown = @ \/ Mine(p)]
    /\ UNCHANGED <<job, block, observing, mirror, lane, blocks, attempts>>

\* The database transaction: fence, release of the blocked jobs, database_applied
ApplyDatabase(p) ==
    /\ op[p].pc = "database"
    /\ Mine(p)
    /\ gate' = [gate EXCEPT !.state = "database_applied", !.cooldown = FALSE]
    /\ job' = [j \in Jobs |-> IF job[j] = "blocked" /\ gate.state # "database_applied"
                              THEN "ready" ELSE job[j]]
    /\ op' = [op EXCEPT ![p].pc = "redis"]
    /\ UNCHANGED <<block, observing, mirror, lane, blocks, limits, attempts>>

\* The limiter's resume_bot or resume_gateway
ClearRedis(p) ==
    /\ op[p].pc = "redis"
    /\ block' = FALSE
    /\ op' = [op EXCEPT ![p].pc = "complete"]
    /\ UNCHANGED <<job, gate, observing, mirror, lane, blocks, limits, attempts>>

\* Mutant: the last transaction does not look at the gate again
Confirmed(p) == TRUE

\* The last transaction's recheck
StillMine(p) == Mine(p) /\ Blockers = {}

Complete(p) ==
    /\ op[p].pc = "complete"
    /\ StillMine(p)
    /\ gate' = [gate EXCEPT !.state = "active"]
    /\ op' = [op EXCEPT ![p] = Idle]
    /\ UNCHANGED <<job, block, observing, mirror, lane, blocks, limits, attempts>>

\* The run crashes, Redis fails, or its fence is lost
Abandon(p) ==
    /\ op[p].pc # "idle"
    /\ op' = [op EXCEPT ![p] = Idle]
    /\ UNCHANGED <<job, gate, block, observing, mirror, lane, blocks, limits, attempts>>

-----------------------------------------------------------------------------
Next ==
    \/ \E j \in Jobs : Admit(j) \/ Dispatch(j) \/ Delivered(j) \/ Unauthorized(j) \/ Observe(j)
    \/ RehydrateRead \/ RehydrateWrite \/ RedisLoss \/ CooldownEnds
    \/ LaneBegin \/ LaneApproved \/ LaneLimited \/ LaneActive
    \/ \E p \in Operators :
          \/ \E r \in RequestIds : Prepare(p, r)
          \/ PreflightOk(p) \/ PreflightFails(p) \/ ApplyDatabase(p)
          \/ ClearRedis(p) \/ Complete(p) \/ Abandon(p)

Spec == Init /\ [][Next]_vars

-----------------------------------------------------------------------------
(* Properties.                                                             *)

\* As long as a job is blocked by a provider answer the gate is closed, whatever
\* preflights, resumes and crashes go on (runtime_gate_service.py:657, :292).
BlockedHoldsGate == Blockers # {} => gate.state \in {"blocked", "resume_requested"}

\* A resume opens the gate only if no provider answer closed it again after
\* that resume's preflight (runtime_gate_service.py:575, :657).
OpensAfterPreflight ==
    [][gate.state \in HardStates /\ gate'.state = "active" =>
          \E p \in Operators : op[p].pc = "complete" /\ op[p].fresh]_vars
=============================================================================
