--------------------------- MODULE MCOtpDelivery ---------------------------
(* A small instance of OtpDelivery for TLC: one mobile number.             *)
EXTENDS OtpDelivery, TLC

CONSTANTS r1, r2, w1, w2

\* Two runners of the job and a resend race with the handler; every step may
\* outlive a lease.
Races(r) == [ttl |-> 3, fallback |-> 1, slack |-> 1, lease |-> 1, minTtl |-> 1,
             requests |-> {r}, workers |-> {w1, w2}, timely |-> FALSE, faults |-> 1]

\* A unit of time is 15 seconds: the code lives 8 units, the fallback is due
\* after 3, a claim is leased for 2, a code with less than 1 left is not sent.
Seconds(r, w) == [ttl |-> 8, fallback |-> 3, slack |-> 0, lease |-> 2, minTtl |-> 1,
                  requests |-> {r}, workers |-> {w}, timely |-> TRUE, faults |-> 2]

\* A second code is requested while steps about the first are still to come.
Second(w) == [ttl |-> 3, fallback |-> 1, slack |-> 1, lease |-> 1, minTtl |-> 1,
              requests |-> {r1, r2}, workers |-> {w}, timely |-> TRUE, faults |-> 0]

\* Every choice of the request and the runner, so that the cases are symmetric
MCCases == {Races(r) : r \in Requests} \cup {Second(w) : w \in Workers}
           \cup {Seconds(r, w) : r \in Requests, w \in Workers}

Symmetry == Permutations(Requests) \cup Permutations(Workers)
=============================================================================
