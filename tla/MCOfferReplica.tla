-------------------------- MODULE MCOfferReplica ---------------------------
(* Small instances of OfferReplica for TLC.                                *)
EXTENDS OfferReplica

CONSTANTS o1, o2

\* Two offers, one of which may be quarantined
Apart == [offers |-> {o1, o2}, posted |-> {}, rows |-> 2, failures |-> 0, refusals |-> 1]

\* A post, a change and a close of one offer, with the lanes racing
Crossing == [offers |-> {o1}, posted |-> {o1}, rows |-> 3, failures |-> 0, refusals |-> 0]

\* A post with requests that are late or lost
Late == [offers |-> {o1}, posted |-> {o1}, rows |-> 2, failures |-> 1, refusals |-> 0]

ReplicaCases == {Apart, Crossing, Late}
=============================================================================
