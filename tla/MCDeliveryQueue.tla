-------------------------- MODULE MCDeliveryQueue --------------------------
(* Instances of DeliveryQueue for TLC. *)
EXTENDS DeliveryQueue, TLC

CONSTANTS send, edit, far, s1, s2, b1, d1, d2

OneBot == [j \in Jobs |-> b1]
OneLane == [s \in Slots |-> b1]

\* A send and an edit to one destination, a send to another.
Destinations == [j \in Jobs |-> IF j = far THEN d2 ELSE d1]

\* Slots of one lane are interchangeable.
SlotSymmetry == Permutations(Slots)

-----------------------------------------------------------------------------
(* The scenarios of one run: which jobs are fed, which answers Telegram     *)
(* gives them, how often they are claimed and the process is restarted.     *)

Fed == {j \in Jobs : job[j].state # "absent"}
Answers == {slot[s].fact : s \in Slots}
ClaimedOnce == \A j \in Jobs : job[j].token <= 1
Wanted == \A j \in Jobs : job[j].state \notin
              {"superseded", "expired_interaction", "sent_noop", "quarantined"}

\* One edit through two claims, or through one with every answer and verdict.
OneEdit == /\ Fed \subseteq {edit}
           /\ \/ ClaimedOnce
              \/ Wanted /\ Answers \subseteq {"none", "ok", "write_unknown"}

\* A send and an edit that compete for one destination, with a restart or with
\* rate limits.
OneDestination == /\ Fed \subseteq {send, edit}
                  /\ ClaimedOnce /\ Wanted
                  /\ Answers \subseteq {"none", "rate_limited"}
                  /\ restarts = 0 \/ \A j \in Jobs : ~job[j].recent

\* Two sends of one bot to two destinations, after a rate limit.
TwoDestinations == /\ Fed \subseteq {send, far}
                   /\ restarts = 0
                   /\ ClaimedOnce /\ Wanted
                   /\ Answers \subseteq {"none", "rate_limited"}

Scenario == OneEdit \/ OneDestination \/ TwoDestinations
============================================================================
