--------------------------- MODULE QueueRunProofs ---------------------------
(***************************************************************************)
(* When the delivery queue may run, and who runs it.  Theorems about       *)
(* RuntimeGate, for any number of jobs, operators, request ids, provider   *)
(* answers and crashes; then about ProcessOwner, for any number of         *)
(* processes, slots and faults.                                            *)
(***************************************************************************)
EXTENDS RuntimeGate, ProcessOwner, FiniteSetTheorems, TLAPS

\* The rows of the gate and the records of a run of the saga
GateRows == [state : HardStates \cup {"active", "cooldown"},
             request : RequestIds \cup {NoRequest}, cooldown : BOOLEAN]

Runs == [pc : {"idle", "preflight", "database", "redis", "complete"},
         request : RequestIds \cup {NoRequest}, fresh : BOOLEAN]

\* A run of the saga that is under way has a request id; between its preflight
\* and its end it holds the gate only if no provider answer came in between.
\* The second half is lost when two runs of one request id overlap.
SagaHasRequest ==
    \A p \in Operators :
        /\ op[p].pc = "idle" => op[p] = Idle
        /\ op[p].pc # "idle" => op[p].request \in RequestIds

SagaIsFresh ==
    \A p \in Operators :
        op[p].pc \in {"database", "redis", "complete"} /\ Mine(p) => op[p].fresh

\* What every step keeps, overlapping runs or not
GateInv == TypeOK /\ SagaHasRequest /\ BlockedHoldsGate

-----------------------------------------------------------------------------
(* The records a run of the saga goes through                              *)

\* A run that moves on is a run.
LEMMA MovedRun ==
    ASSUME NEW f \in [Operators -> Runs], NEW p \in Operators,
           NEW c \in {"database", "redis", "complete"}
    PROVE  /\ [f EXCEPT ![p].pc = c] \in [Operators -> Runs]
           /\ [f EXCEPT ![p].pc = c, ![p].fresh = TRUE] \in [Operators -> Runs]
<1>1. f[p] \in Runs
  OBVIOUS
<1>2. [f[p] EXCEPT !.pc = c] \in Runs /\ [f[p] EXCEPT !.pc = c, !.fresh = TRUE] \in Runs
  BY <1>1 DEF Runs
<1> QED
  BY <1>2

\* A provider answer makes the preflight of a run out of date, nothing else.
LEMMA StaleRun ==
    ASSUME NEW r \in Runs
    PROVE  /\ [r EXCEPT !.fresh = FALSE] \in Runs
           /\ [r EXCEPT !.fresh = FALSE].pc = r.pc
           /\ [r EXCEPT !.fresh = FALSE].request = r.request
           /\ r = Idle => [r EXCEPT !.fresh = FALSE] = Idle
<1> DEFINE e == [r EXCEPT !.fresh = FALSE]
<1>1. e \in Runs /\ e.pc = r.pc /\ e.request = r.request /\ e.fresh = FALSE
  BY DEF Runs
<1>2. \A x, y \in Runs :
        x.pc = y.pc /\ x.request = y.request /\ x.fresh = y.fresh => x = y
  BY DEF Runs
<1>3. Idle \in Runs /\ Idle.pc = "idle" /\ Idle.request = NoRequest /\ Idle.fresh = FALSE
  BY DEF Runs, Idle
<1> HIDE DEF e
<1>4. r = Idle => e = Idle
  BY <1>1, <1>2, <1>3
<1> QED
  BY <1>1, <1>4 DEF e

-----------------------------------------------------------------------------
(* The queue, the mirror into Redis and the lane loop                      *)

\* The slots: admission, marker, answer, provider block and its observation.
LEMMA SlotStep ==
    ASSUME GateInv, NEW j \in Jobs,
           Admit(j) \/ Dispatch(j) \/ Delivered(j) \/ Unauthorized(j) \/ Observe(j)
    PROVE  GateInv'
<1> USE GateConstants DEF GateInv, TypeOK, SagaHasRequest, BlockedHoldsGate, Blockers, HardStates,
    GateRows, Runs
<1>1. CASE Admit(j)
  BY <1>1 DEF Admit
<1>2. CASE Dispatch(j)
  BY <1>2 DEF Dispatch
<1>3. CASE Delivered(j)
  BY <1>3 DEF Delivered
<1>4. CASE Unauthorized(j)
  <2>1. /\ op' = [p \in Operators |-> [op[p] EXCEPT !.fresh = FALSE]]
        /\ op \in [Operators -> Runs]
    BY <1>4 DEF Unauthorized
  <2>2. gate' = [state |-> "blocked", request |-> NoRequest, cooldown |-> FALSE]
    BY <1>4 DEF Unauthorized, BlockedGate
  <2>3. ASSUME NEW p \in Operators
        PROVE  /\ op'[p] \in Runs
               /\ op'[p].pc = op[p].pc /\ op'[p].request = op[p].request
               /\ op[p] = Idle => op'[p] = Idle
    BY <2>1, StaleRun
  <2>4. op' \in [Operators -> Runs]
    BY <2>1, <2>3
  <2>5. TypeOK'
    BY <1>4, <2>2, <2>4 DEF Unauthorized
  <2>6. SagaHasRequest'
    BY <2>3
  <2>7. BlockedHoldsGate'
    BY <2>2
  <2> QED
    BY <2>5, <2>6, <2>7
<1>5. CASE Observe(j)
  BY <1>5 DEF Observe
<1> QED
  BY <1>1, <1>2, <1>3, <1>4, <1>5

\* The rehydration of Redis, its losses, the end of a cooldown.
LEMMA MirrorStep ==
    ASSUME GateInv, RehydrateRead \/ RehydrateWrite \/ RedisLoss \/ CooldownEnds
    PROVE  GateInv'
<1> USE GateConstants DEF GateInv, TypeOK, SagaHasRequest, BlockedHoldsGate, Blockers, HardStates,
    GateRows, Runs
<1>1. CASE RehydrateRead
  BY <1>1 DEF RehydrateRead
<1>2. CASE RehydrateWrite
  BY <1>2 DEF RehydrateWrite
<1>3. CASE RedisLoss
  BY <1>3 DEF RedisLoss
<1>4. CASE CooldownEnds
  BY <1>4 DEF CooldownEnds
<1> QED
  BY <1>1, <1>2, <1>3, <1>4

\* The lane activation loop.
LEMMA LaneStep ==
    ASSUME GateInv, LaneBegin \/ LaneApproved \/ LaneLimited \/ LaneActive
    PROVE  GateInv'
<1> USE GateConstants DEF GateInv, TypeOK, SagaHasRequest, BlockedHoldsGate, Blockers, HardStates,
    GateRows, Runs
<1>1. CASE LaneBegin
  BY <1>1 DEF LaneBegin
<1>2. CASE LaneApproved
  BY <1>2 DEF LaneApproved
<1>3. CASE LaneLimited
  <2>1. /\ gate' \in GateRows
        /\ gate'.request = gate.request
        /\ gate'.state = IF gate.state = "active" THEN "cooldown" ELSE gate.state
    BY <1>3 DEF LaneLimited
  <2>2. UNCHANGED <<job, block, observing, mirror, op, blocks, attempts>>
        /\ lane' = "idle" /\ limits' \in 0..MaxLimits
    BY <1>3 DEF LaneLimited
  <2>3. TypeOK'
    BY <2>1, <2>2
  <2> QED
    BY <2>1, <2>2, <2>3
<1>4. CASE LaneActive
  <2>1. /\ gate' \in GateRows
        /\ gate'.request = gate.request
        /\ gate'.state = IF gate.state = "cooldown" THEN "active" ELSE gate.state
    BY <1>4 DEF LaneActive, MarkedActive
  <2>2. UNCHANGED <<job, block, observing, mirror, op, blocks, limits, attempts>>
        /\ lane' = "idle"
    BY <1>4 DEF LaneActive
  <2>3. TypeOK'
    BY <2>1, <2>2
  <2> QED
    BY <2>1, <2>2, <2>3
<1> QED
  BY <1>1, <1>2, <1>3, <1>4

-----------------------------------------------------------------------------
(* The saga                                                                *)

\* The first transaction.
LEMMA PrepareStep ==
    ASSUME GateInv, NEW p \in Operators, NEW r \in RequestIds, Prepare(p, r)
    PROVE  GateInv'
<1> USE GateConstants DEF GateInv, TypeOK, SagaHasRequest, BlockedHoldsGate, Blockers, HardStates,
    GateRows, Runs
<1>1. /\ gate' \in GateRows
      /\ gate'.request = r
      /\ gate'.state = IF gate.state = "database_applied"
                       THEN gate.state ELSE "resume_requested"
  BY DEF Prepare
<1>2. op' \in [Operators -> Runs]
  BY DEF Prepare
<1>3. TypeOK'
  BY <1>1, <1>2 DEF Prepare
<1>4. SagaHasRequest'
  BY DEF Prepare
<1>5. BlockedHoldsGate'
  BY <1>1 DEF Prepare
<1> QED
  BY <1>3, <1>4, <1>5

\* The steps after it: preflight, database, Redis, completion, crash.
LEMMA SagaStep ==
    ASSUME GateInv, NEW p \in Operators,
           \/ PreflightOk(p) \/ PreflightFails(p) \/ ApplyDatabase(p)
           \/ ClearRedis(p) \/ Complete(p) \/ Abandon(p)
    PROVE  GateInv'
<1> USE GateConstants DEF GateInv, TypeOK, SagaHasRequest, BlockedHoldsGate, Blockers, HardStates,
    GateRows, Runs, Idle
<1>1. CASE PreflightOk(p)
  <2>1. op' \in [Operators -> Runs]
    BY <1>1, MovedRun DEF PreflightOk
  <2>2. TypeOK' /\ BlockedHoldsGate'
    BY <1>1, <2>1 DEF PreflightOk
  <2>3. SagaHasRequest'
    BY <1>1 DEF PreflightOk
  <2> QED
    BY <2>2, <2>3
<1>2. CASE PreflightFails(p)
  <2>1. TypeOK'
    <3>1. Mine(p) \in BOOLEAN
      BY DEF Mine
    <3>2. /\ gate' \in GateRows
          /\ gate'.request = gate.request /\ gate'.state = gate.state
      BY <1>2, <3>1 DEF PreflightFails
    <3>3. limits' \in 0..MaxLimits
      BY <1>2 DEF PreflightFails
    <3>4. op' \in [Operators -> Runs]
      BY <1>2 DEF PreflightFails
    <3> QED
      BY <1>2, <3>2, <3>3, <3>4 DEF PreflightFails
  <2>2. SagaHasRequest'
    BY <1>2 DEF PreflightFails
  <2>3. BlockedHoldsGate'
    BY <1>2 DEF PreflightFails
  <2> QED
    BY <2>1, <2>2, <2>3
<1>3. CASE ApplyDatabase(p)
  <2>1. gate.request \in RequestIds /\ gate.request # NoRequest
    BY <1>3 DEF ApplyDatabase, Mine
  <2>2. TypeOK'
    BY <1>3, <2>1 DEF ApplyDatabase
  <2>3. SagaHasRequest'
    BY <1>3 DEF ApplyDatabase
  <2>4. BlockedHoldsGate'
    BY <1>3 DEF ApplyDatabase
  <2> QED
    BY <2>2, <2>3, <2>4
<1>4. CASE ClearRedis(p)
  <2>1. op' \in [Operators -> Runs]
    BY <1>4, MovedRun DEF ClearRedis
  <2>2. TypeOK' /\ BlockedHoldsGate'
    BY <1>4, <2>1 DEF ClearRedis
  <2>3. SagaHasRequest'
    BY <1>4 DEF ClearRedis
  <2> QED
    BY <2>2, <2>3
<1>5. CASE Complete(p)
  <2>1. /\ gate' \in GateRows
        /\ gate'.state = "active"
    BY <1>5 DEF Complete
  <2>2. op' \in [Operators -> Runs]
    BY <1>5 DEF Complete
  <2>3. TypeOK'
    BY <1>5, <2>1, <2>2 DEF Complete
  <2>4. SagaHasRequest'
    BY <1>5 DEF Complete
  <2>5. BlockedHoldsGate'
    BY <1>5 DEF Complete, StillMine
  <2> QED
    BY <2>3, <2>4, <2>5
<1>6. CASE Abandon(p)
  BY <1>6 DEF Abandon
<1> QED
  BY <1>1, <1>2, <1>3, <1>4, <1>5, <1>6

\* Every step keeps the invariant.
LEMMA GateStep == GateInv /\ [Next]_vars => GateInv'
<1> SUFFICES ASSUME GateInv, [Next]_vars PROVE GateInv'
  OBVIOUS
<1>1. CASE UNCHANGED vars
  BY <1>1 DEF vars, GateInv, TypeOK, SagaHasRequest, BlockedHoldsGate, Blockers
<1>2. CASE Next
  BY <1>2, SlotStep, MirrorStep, LaneStep, PrepareStep, SagaStep DEF Next
<1> QED
  BY <1>1, <1>2

\* The gate starts open, nothing blocked, no saga under way.
LEMMA GateStart == Init => GateInv
<1> SUFFICES ASSUME Init PROVE GateInv
  OBVIOUS
<1>1. TypeOK
  <2>1. Idle \in Runs
    BY DEF Idle, Runs
  <2>2. op \in [Operators -> Runs]
    BY <2>1 DEF Init
  <2>3. /\ job \in [Jobs -> {"ready", "admitted", "calling", "blocked", "done"}]
        /\ gate \in GateRows
        /\ blocks \in 0..MaxBlocks /\ limits \in 0..MaxLimits /\ attempts \in 0..MaxAttempts
    BY GateConstants DEF Init, GateRows
  <2> QED
    BY <2>2, <2>3 DEF Init, TypeOK, HardStates, Runs, GateRows
<1>2. SagaHasRequest
  BY DEF Init, SagaHasRequest, Idle
<1>3. BlockedHoldsGate
  BY DEF Init, BlockedHoldsGate, Blockers
<1> QED
  BY <1>1, <1>2, <1>3 DEF GateInv

\* The invariant holds in every state of every behaviour.
LEMMA GateInvariant == Spec => []GateInv
BY GateStart, GateStep, PTL DEF Spec

\* The state of the gate, of Redis and of the saga is well formed: a gate with a
\* resume under way names its request, a blocked gate names none.
THEOREM GateTypeCorrect == Spec => []TypeOK
<1>1. GateInv => TypeOK
  BY DEF GateInv
<1> QED
  BY <1>1, GateInvariant, PTL

\* As long as a provider answer blocks a job of the bot its gate is closed to
\* dispatch: no preflight, no resume and no crash between the commits of a
\* resume opens it over a blocked job.
THEOREM BlockedGateStaysClosed == Spec => []BlockedHoldsGate
<1>1. GateInv => BlockedHoldsGate
  BY DEF GateInv
<1> QED
  BY <1>1, GateInvariant, PTL

-----------------------------------------------------------------------------
(* Resumes of different requests                                           *)

\* A provider answer takes the gate from every resume, a new resume takes it
\* from those of other requests; the same request id is not run twice at once.
LEMMA FreshStep ==
    ASSUME ~Overlap, GateInv, SagaIsFresh, [Next]_vars
    PROVE  SagaIsFresh'
<1> USE DEF SagaIsFresh, Mine
<1>1. CASE UNCHANGED vars
  BY <1>1 DEF vars
<1>2. ASSUME NEW j \in Jobs,
             Admit(j) \/ Dispatch(j) \/ Delivered(j) \/ Observe(j)
      PROVE  SagaIsFresh'
  BY <1>2 DEF Admit, Dispatch, Delivered, Observe
<1>3. ASSUME NEW j \in Jobs, Unauthorized(j) PROVE SagaIsFresh'
  <2>1. gate'.request = NoRequest
    BY <1>3 DEF Unauthorized, BlockedGate
  <2>2. ASSUME NEW p \in Operators
        PROVE  op'[p].pc = op[p].pc /\ op'[p].request = op[p].request
    BY <1>3 DEF Unauthorized, GateInv, TypeOK
  <2> QED
    BY <2>1, <2>2, GateConstants DEF GateInv, SagaHasRequest
<1>4. CASE RehydrateRead \/ RehydrateWrite \/ RedisLoss \/ CooldownEnds
  BY <1>4 DEF RehydrateRead, RehydrateWrite, RedisLoss, CooldownEnds, GateInv, TypeOK
<1>5. CASE LaneBegin \/ LaneApproved \/ LaneLimited \/ LaneActive
  BY <1>5
  DEF LaneBegin, LaneApproved, LaneLimited, LaneActive, MarkedActive, GateInv, TypeOK
<1>6. ASSUME NEW p \in Operators, NEW r \in RequestIds, Prepare(p, r)
      PROVE  SagaIsFresh'
  <2>1. gate'.request = r
    BY <1>6 DEF Prepare, GateInv, TypeOK
  <2>2. op'[p].pc = "preflight"
    BY <1>6 DEF Prepare, GateInv, TypeOK
  <2>3. ASSUME NEW q \in Operators, q # p
        PROVE  op'[q] = op[q] /\ op[q].request # r
    BY <1>6, <2>3 DEF Prepare, GateInv, TypeOK
  <2> QED
    BY <2>1, <2>2, <2>3
<1>7. ASSUME NEW p \in Operators,
             \/ PreflightOk(p) \/ PreflightFails(p) \/ ApplyDatabase(p)
             \/ ClearRedis(p) \/ Complete(p) \/ Abandon(p)
      PROVE  SagaIsFresh'
  <2>1. gate'.request = gate.request
    BY <1>7 DEF PreflightOk, PreflightFails, ApplyDatabase, ClearRedis, Complete,
                Abandon, GateInv, TypeOK
  <2>2. ASSUME NEW q \in Operators, q # p PROVE op'[q] = op[q]
    BY <1>7, <2>2 DEF PreflightOk, PreflightFails, ApplyDatabase, ClearRedis, Complete,
                Abandon, GateInv, TypeOK
  <2>3. \/ op'[p].fresh
        \/ op'[p].pc = "idle"
        \/ /\ op'[p].request = op[p].request
           /\ op'[p].fresh = op[p].fresh
           /\ op[p].pc \in {"database", "redis"}
    BY <1>7 DEF PreflightOk, PreflightFails, ApplyDatabase, ClearRedis, Complete,
                Abandon, GateInv, TypeOK, Idle
  <2> QED
    BY <2>1, <2>2, <2>3
<1> QED
  BY <1>1, <1>2, <1>3, <1>4, <1>5, <1>6, <1>7 DEF Next

\* Only the completion of a resume opens a closed gate.
LEMMA OpeningStep ==
    ASSUME GateInv, SagaIsFresh, [Next]_vars,
           gate.state \in HardStates, gate'.state = "active"
    PROVE  \E p \in Operators : op[p].pc = "complete" /\ op[p].fresh
<1> USE DEF GateInv, TypeOK, HardStates
<1>1. CASE UNCHANGED vars
  BY <1>1 DEF vars
<1>2. ASSUME NEW j \in Jobs,
             Admit(j) \/ Dispatch(j) \/ Delivered(j) \/ Unauthorized(j) \/ Observe(j)
      PROVE  FALSE
  <2>1. CASE Unauthorized(j)
    <3>1. gate'.state = "blocked"
      BY <2>1 DEF Unauthorized, BlockedGate
    <3> QED
      BY <3>1
  <2>2. CASE Admit(j) \/ Dispatch(j) \/ Delivered(j) \/ Observe(j)
    BY <2>2 DEF Admit, Dispatch, Delivered, Observe
  <2> QED
    BY <1>2, <2>1, <2>2
<1>3. CASE RehydrateRead \/ RehydrateWrite \/ RedisLoss \/ CooldownEnds
  BY <1>3 DEF RehydrateRead, RehydrateWrite, RedisLoss, CooldownEnds
<1>4. CASE LaneBegin \/ LaneApproved \/ LaneLimited \/ LaneActive
  BY <1>4 DEF LaneBegin, LaneApproved, LaneLimited, LaneActive, MarkedActive
<1>5. ASSUME NEW p \in Operators, NEW r \in RequestIds, Prepare(p, r) PROVE FALSE
  BY <1>5 DEF Prepare
<1>6. ASSUME NEW p \in Operators,
             PreflightOk(p) \/ PreflightFails(p) \/ ApplyDatabase(p) \/ ClearRedis(p) \/ Abandon(p)
      PROVE  FALSE
  BY <1>6 DEF PreflightOk, PreflightFails, ApplyDatabase, ClearRedis, Abandon
<1>7. ASSUME NEW p \in Operators, Complete(p)
      PROVE  op[p].pc = "complete" /\ op[p].fresh
  BY <1>7 DEF Complete, StillMine, SagaIsFresh
<1> QED
  BY <1>1, <1>2, <1>3, <1>4, <1>5, <1>6, <1>7 DEF Next

\* When no request id is run twice at once, a resume opens the gate only after a
\* preflight that no later provider answer has contradicted.
THEOREM ResumeOpensAfterPreflight ==
    ASSUME ~Overlap
    PROVE  Spec => OpensAfterPreflight
<1>1. Init => SagaIsFresh
  BY DEF Init, SagaIsFresh, Idle
<1>2. GateInv /\ SagaIsFresh /\ [Next]_vars => SagaIsFresh'
  BY FreshStep
<1>3. GateInv /\ SagaIsFresh /\ [Next]_vars =>
        [gate.state \in HardStates /\ gate'.state = "active" =>
           \E p \in Operators : op[p].pc = "complete" /\ op[p].fresh]_vars
  BY OpeningStep
<1> QED
  BY <1>1, <1>2, <1>3, GateInvariant, PTL DEF Spec, OpensAfterPreflight

-----------------------------------------------------------------------------
(* Which process runs the queue                                            *)

\* The slots of p between their owner check and their provider call
Checked(p) == {s \in Slots : slot[p][s] = "checked"}

\* A process that is not up has no slot at work
SlotsNeedProcess ==
    \A p \in Processes : phase[p] \in {"down", "starting"} =>
        \A s \in Slots : slot[p][s] = "idle"

\* While the session has the lock no call is late
NoneLateWhileHeld == \A p \in Processes : session[p] = "open" => late[p] = 0

\* The slots that can still begin a late call make room for it: a slot passes a
\* new check only under the lock
OverrunRoom ==
    \A p \in Processes : late[p] + Cardinality(Checked(p)) <= Cardinality(Slots)

OwnerInv == OwnerTypeOK /\ SlotsNeedProcess /\ NoneLateWhileHeld /\ OverrunRoom

-----------------------------------------------------------------------------
(* Counting slots                                                          *)

\* A set of slots is finite and not larger than Slots.
LEMMA SlotCount ==
    ASSUME NEW S \in SUBSET Slots
    PROVE  /\ IsFiniteSet(S)
           /\ Cardinality(S) \in Nat /\ Cardinality(Slots) \in Nat
           /\ Cardinality(S) <= Cardinality(Slots)
<1>1. IsFiniteSet(Slots)
  BY OwnerConstants
<1>2. IsFiniteSet(S) /\ Cardinality(S) <= Cardinality(Slots)
  BY <1>1, FS_Subset
<1> QED
  BY <1>1, <1>2, FS_CardinalityType

\* A slot that leaves makes the count smaller by one.
LEMMA SlotLeaves ==
    ASSUME NEW S \in SUBSET Slots, NEW s \in S
    PROVE  Cardinality(S \ {s}) = Cardinality(S) - 1
<1>1. IsFiniteSet(S)
  BY SlotCount
<1> QED
  BY <1>1, FS_RemoveElement

-----------------------------------------------------------------------------
(* Steps                                                                   *)

\* Steps that leave the slots and the count of late calls alone keep the room.
LEMMA RoomUntouched ==
    ASSUME OverrunRoom, UNCHANGED <<slot, late>>
    PROVE  OverrunRoom'
BY DEF OverrunRoom, Checked

\* Start of the process, the lock and the supervisor's monitor.
LEMMA LifecycleStep ==
    ASSUME OwnerInv, NEW p \in Processes,
           Boot(p) \/ Acquire(p) \/ Monitor(p)
    PROVE  OwnerInv'
<1> USE OwnerConstants DEF OwnerInv
<1>1. CASE Boot(p)
  <2>1. OwnerTypeOK' /\ SlotsNeedProcess' /\ NoneLateWhileHeld'
    BY <1>1 DEF Boot, OwnerTypeOK, SlotsNeedProcess, NoneLateWhileHeld
  <2> QED
    BY <1>1, <2>1, RoomUntouched DEF Boot
<1>2. CASE Acquire(p)
  <2>1. OwnerTypeOK'
    <3>1. CASE holder = NoOne
      <4>1. /\ holder' = p /\ session' = [session EXCEPT ![p] = "open"]
            /\ phase' = [phase EXCEPT ![p] = "running"]
            /\ late' = [late EXCEPT ![p] = 0]
            /\ slot' = slot /\ faults' = faults
        BY <1>2, <3>1 DEF Acquire
      <4>2. \A q \in Processes : session[q] \notin {"open", "orphaned"}
        BY <3>1 DEF OwnerTypeOK
      <4>3. \A q \in Processes : (holder' = q) = (session'[q] \in {"open", "orphaned"})
        BY <4>1, <4>2 DEF OwnerTypeOK
      <4> QED
        BY <4>1, <4>3 DEF OwnerTypeOK
    <3>2. CASE holder # NoOne
      BY <1>2, <3>2 DEF Acquire, OwnerTypeOK
    <3> QED
      BY <3>1, <3>2
  <2>2. SlotsNeedProcess'
    BY <1>2 DEF Acquire, OwnerTypeOK, SlotsNeedProcess
  <2>3. NoneLateWhileHeld'
    BY <1>2 DEF Acquire, OwnerTypeOK, NoneLateWhileHeld
  <2>4. OverrunRoom'
    <3>1. ASSUME NEW q \in Processes, q # p \/ late' = late
          PROVE  late'[q] = late[q] /\ Checked(q)' = Checked(q)
      BY <1>2, <3>1 DEF Acquire, OwnerTypeOK, Checked
    <3>2. ASSUME late' = [late EXCEPT ![p] = 0]
          PROVE  late'[p] + Cardinality(Checked(p))' <= Cardinality(Slots)
      <4>1. late'[p] = 0
        BY <3>2 DEF OwnerTypeOK
      <4>2. Checked(p)' \in SUBSET Slots
        BY DEF Checked
      <4> QED
        BY <4>1, <4>2, SlotCount
    <3> QED
      BY <1>2, <3>1, <3>2 DEF Acquire, OverrunRoom
  <2> QED
    BY <2>1, <2>2, <2>3, <2>4
<1>3. CASE Monitor(p)
  <2>1. OwnerTypeOK' /\ SlotsNeedProcess' /\ NoneLateWhileHeld'
    BY <1>3 DEF Monitor, OwnerTypeOK, SlotsNeedProcess, NoneLateWhileHeld
  <2> QED
    BY <1>3, <2>1, RoomUntouched DEF Monitor
<1> QED
  BY <1>1, <1>2, <1>3

\* The end of the process, by its supervisor or by a crash.
LEMMA EndStep ==
    ASSUME OwnerInv, NEW p \in Processes, Stop(p) \/ Crash(p)
    PROVE  OwnerInv'
<1> USE OwnerConstants DEF OwnerInv
<1>1. /\ phase' = [phase EXCEPT ![p] = "down"]
      /\ slot' = [slot EXCEPT ![p] = [s \in Slots |-> "idle"]]
      /\ late' = late
  BY DEF Stop, Crash
<1>2. OwnerTypeOK'
  <2>1. phase' \in [Processes -> {"down", "starting", "running", "stopping"}]
        /\ slot' \in [Processes -> [Slots -> {"idle", "checked", "calling"}]]
        /\ late' \in [Processes -> Nat]
    BY <1>1 DEF OwnerTypeOK
  <2>2. CASE Stop(p)
    BY <2>1, <2>2 DEF Stop, Free, OwnerTypeOK
  <2>3. CASE Crash(p)
    BY <2>1, <2>3 DEF Crash, Fault, OwnerTypeOK
  <2> QED
    BY <2>2, <2>3
<1>3. SlotsNeedProcess'
  BY <1>1 DEF OwnerTypeOK, SlotsNeedProcess
<1>4. NoneLateWhileHeld'
  BY <1>1 DEF Stop, Crash, OwnerTypeOK, NoneLateWhileHeld
<1>5. OverrunRoom'
  <2>1. ASSUME NEW q \in Processes PROVE Checked(q)' \subseteq Checked(q)
    BY <1>1 DEF OwnerTypeOK, Checked
  <2>2. ASSUME NEW q \in Processes
        PROVE  Cardinality(Checked(q))' <= Cardinality(Checked(q))
               /\ Cardinality(Checked(q))' \in Nat /\ Cardinality(Checked(q)) \in Nat
    <3>1. IsFiniteSet(Checked(q)) /\ IsFiniteSet(Checked(q)')
          /\ Cardinality(Checked(q)) \in Nat /\ Cardinality(Checked(q)') \in Nat
      BY SlotCount DEF Checked
    <3> QED
      BY <2>1, <3>1, FS_Subset
  <2> QED
    BY <1>1, <2>2, SlotCount DEF OverrunRoom, OwnerTypeOK
<1> QED
  BY <1>2, <1>3, <1>4, <1>5

\* The session's end, a failed task, the end of an orphaned session.
LEMMA SessionStep ==
    ASSUME OwnerInv, NEW p \in Processes,
           SessionEnds(p) \/ TaskFails(p) \/ Reap(p)
    PROVE  OwnerInv'
<1> USE OwnerConstants DEF OwnerInv
<1>1. UNCHANGED <<slot, late>>
  BY DEF SessionEnds, TaskFails, Reap
<1>2. CASE SessionEnds(p)
  BY <1>1, <1>2, RoomUntouched
  DEF SessionEnds, Fault, Free, OwnerTypeOK, SlotsNeedProcess, NoneLateWhileHeld
<1>3. CASE TaskFails(p)
  BY <1>1, <1>3, RoomUntouched
  DEF TaskFails, Fault, OwnerTypeOK, SlotsNeedProcess, NoneLateWhileHeld
<1>4. CASE Reap(p)
  BY <1>1, <1>4, RoomUntouched
  DEF Reap, Free, OwnerTypeOK, SlotsNeedProcess, NoneLateWhileHeld
<1> QED
  BY <1>2, <1>3, <1>4

\* A slot's owner check: under the lock, so no call of the process is late.
LEMMA CheckStep ==
    ASSUME OwnerInv, NEW p \in Processes, NEW s \in Slots, Check(p, s)
    PROVE  OwnerInv'
<1> USE OwnerConstants DEF OwnerInv
<1>1. OwnerTypeOK' /\ SlotsNeedProcess' /\ NoneLateWhileHeld'
  BY DEF Check, Held, OwnerTypeOK, SlotsNeedProcess, NoneLateWhileHeld
<1>2. late'[p] = 0
  BY DEF Check, Held, NoneLateWhileHeld
<1>3. ASSUME NEW q \in Processes, q # p
      PROVE  late'[q] = late[q] /\ Checked(q)' = Checked(q)
  BY <1>3 DEF Check, OwnerTypeOK, Checked
<1>4. Checked(p)' \in SUBSET Slots
  BY DEF Checked
<1>5. OverrunRoom'
  BY <1>2, <1>3, <1>4, SlotCount DEF OverrunRoom
<1> QED
  BY <1>1, <1>5

\* A slot goes from its check to its call, late or not: one slot less can.
LEMMA CallStep ==
    ASSUME OwnerInv, NEW p \in Processes, NEW s \in Slots, BeginCall(p, s)
    PROVE  OwnerInv'
<1> USE OwnerConstants DEF OwnerInv
<1>1. OwnerTypeOK'
  <2>1. late' \in [Processes -> Nat]
    BY DEF BeginCall, OwnerTypeOK
  <2>2. slot' \in [Processes -> [Slots -> {"idle", "checked", "calling"}]]
    BY DEF BeginCall, OwnerTypeOK
  <2> QED
    BY <2>1, <2>2 DEF BeginCall, OwnerTypeOK
<1>2. SlotsNeedProcess'
  BY DEF BeginCall, OwnerTypeOK, SlotsNeedProcess
<1>3. NoneLateWhileHeld'
  BY DEF BeginCall, OwnerTypeOK, NoneLateWhileHeld
<1>4. ASSUME NEW q \in Processes, q # p
      PROVE  late'[q] = late[q] /\ Checked(q)' = Checked(q)
  BY <1>4 DEF BeginCall, OwnerTypeOK, Checked
<1>5. s \in Checked(p) /\ Checked(p)' = Checked(p) \ {s}
  BY DEF BeginCall, OwnerTypeOK, Checked
<1>6. late[p] \in Nat /\ late'[p] \in Nat /\ late'[p] <= late[p] + 1
  BY DEF BeginCall, OwnerTypeOK
<1>7. Checked(p) \in SUBSET Slots
  BY DEF Checked
<1>8. Cardinality(Checked(p))' = Cardinality(Checked(p)) - 1
  BY <1>5, <1>7, SlotLeaves
<1>9. Cardinality(Checked(p)) \in Nat /\ Cardinality(Slots) \in Nat
  BY <1>7, SlotCount
<1>10. OverrunRoom'
  BY <1>4, <1>6, <1>8, <1>9 DEF OverrunRoom
<1> QED
  BY <1>1, <1>2, <1>3, <1>10

\* The answer of a call.
LEMMA AnswerStep ==
    ASSUME OwnerInv, NEW p \in Processes, NEW s \in Slots, Answer(p, s)
    PROVE  OwnerInv'
<1> USE OwnerConstants DEF OwnerInv
<1>1. OwnerTypeOK' /\ SlotsNeedProcess' /\ NoneLateWhileHeld'
  BY DEF Answer, OwnerTypeOK, SlotsNeedProcess, NoneLateWhileHeld
<1>2. ASSUME NEW q \in Processes
      PROVE  late'[q] = late[q] /\ Checked(q)' = Checked(q)
  BY DEF Answer, OwnerTypeOK, Checked
<1>3. OverrunRoom'
  BY <1>2 DEF OverrunRoom
<1> QED
  BY <1>1, <1>3

\* Every step keeps the invariant.
LEMMA OwnerStep == OwnerInv /\ [OwnerNext]_ownerVars => OwnerInv'
<1> SUFFICES ASSUME OwnerInv, [OwnerNext]_ownerVars PROVE OwnerInv'
  OBVIOUS
<1>1. CASE UNCHANGED ownerVars
  BY <1>1
  DEF ownerVars, OwnerInv, OwnerTypeOK, SlotsNeedProcess, NoneLateWhileHeld, OverrunRoom, Checked
<1>2. CASE OwnerNext
  BY <1>2, LifecycleStep, EndStep, SessionStep, CheckStep, CallStep, AnswerStep DEF OwnerNext
<1> QED
  BY <1>1, <1>2

\* No process is up at the start.
LEMMA OwnerStart == OwnerInit => OwnerInv
<1> SUFFICES ASSUME OwnerInit PROVE OwnerInv
  OBVIOUS
<1>1. OwnerTypeOK /\ SlotsNeedProcess /\ NoneLateWhileHeld
  BY OwnerConstants DEF OwnerInit, OwnerTypeOK, SlotsNeedProcess, NoneLateWhileHeld
<1>2. ASSUME NEW p \in Processes
      PROVE  late[p] = 0 /\ Checked(p) \in SUBSET Slots
  BY DEF OwnerInit, Checked
<1>3. OverrunRoom
  BY <1>2, SlotCount DEF OverrunRoom
<1> QED
  BY <1>1, <1>3 DEF OwnerInv

\* The invariant holds in every state of every behaviour.
LEMMA OwnerInvariant == OwnerSpec => []OwnerInv
BY OwnerStart, OwnerStep, PTL DEF OwnerSpec

\* The lock has one holder, the process whose session PostgreSQL still keeps:
\* no two processes are owners at once, crashed and restarted ones included.
THEOREM OneOwner == OwnerSpec => []OwnerTypeOK
<1>1. OwnerInv => OwnerTypeOK
  BY DEF OwnerInv
<1> QED
  BY <1>1, OwnerInvariant, PTL

\* A process that lost the lock begins at most one more provider call per slot,
\* however many slots it has and however late its monitor notices.
THEOREM OverrunIsBounded == OwnerSpec => []OverrunBounded
<1>1. OwnerInv => OverrunBounded
  <2> SUFFICES ASSUME OwnerInv, NEW p \in Processes
               PROVE  late[p] <= Cardinality(Slots)
    BY DEF OverrunBounded
  <2>1. late[p] \in Nat /\ late[p] + Cardinality(Checked(p)) <= Cardinality(Slots)
    BY DEF OwnerInv, OwnerTypeOK, OverrunRoom
  <2>2. Cardinality(Checked(p)) \in Nat /\ Cardinality(Slots) \in Nat
    BY SlotCount DEF Checked
  <2> QED
    BY <2>1, <2>2
<1> QED
  BY <1>1, OwnerInvariant, PTL
=============================================================================
