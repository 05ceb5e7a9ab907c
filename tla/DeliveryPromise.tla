--------------------------- MODULE DeliveryPromise ---------------------------
(***************************************************************************)
(* What the delivery queue promises its feeders, with the machinery left   *)
(* out.  A job waits; takes its destination's turn, one job at a time;     *)
(* Telegram may carry it out during its turn; the turn ends with the job   *)
(* delivered, dropped, parked for an operator or waiting again.  A send is *)
(* carried out at most once, only in its turn, and its turn ends as        *)
(* "delivered" exactly when it was.                                        *)
(***************************************************************************)
CONSTANTS Jobs, SendJobs, DestOf

VARIABLES phase,    \* where each job is
          landed    \* the sends Telegram has carried out

Phases == {"waiting", "turn", "parked", "delivered", "dropped"}

Init == phase = [j \in Jobs |-> "waiting"] /\ landed = {}

TakeTurn(j) ==
    /\ phase[j] = "waiting"
    /\ \A k \in Jobs \ {j} : DestOf[k] = DestOf[j] => phase[k] # "turn"
    /\ phase' = [phase EXCEPT ![j] = "turn"]
    /\ UNCHANGED landed

Land(j) ==
    /\ phase[j] = "turn" /\ j \in SendJobs \ landed
    /\ landed' = landed \cup {j}
    /\ UNCHANGED phase

EndTurn(j) ==
    /\ phase[j] = "turn"
    /\ \E p \in Phases \ {"turn"} :
          /\ j \in SendJobs => (p = "delivered" <=> j \in landed)
          /\ phase' = [phase EXCEPT ![j] = p]
    /\ UNCHANGED landed

\* The domain no longer wants a job that waits, or finds it has no effect.
Drop(j) ==
    /\ phase[j] = "waiting"
    /\ phase' = [phase EXCEPT ![j] = "dropped"]
    /\ UNCHANGED landed

Next == \E j \in Jobs : TakeTurn(j) \/ Land(j) \/ EndTurn(j) \/ Drop(j)

Spec == Init /\ [][Next]_<<phase, landed>>

=============================================================================
