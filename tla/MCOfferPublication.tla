------------------------ MODULE MCOfferPublication -------------------------
(* A small instance of OfferPublication for TLC: one offer.                *)
EXTENDS OfferPublication

\* The offer changes at any time, passes its phases, calls fail or are refused
Phases == [overtime |-> TRUE, racing |-> TRUE, revisions |-> 1,
           faults |-> 1, refusals |-> 1]

\* The offer is traded and closed at any time
Trades == [overtime |-> FALSE, racing |-> TRUE, revisions |-> 2,
           faults |-> 1, refusals |-> 0]

\* The offer does not change during a call
Serial == [overtime |-> FALSE, racing |-> FALSE, revisions |-> 1,
           faults |-> 1, refusals |-> 0]

MCCases == {Phases, Trades, Serial}
=============================================================================
