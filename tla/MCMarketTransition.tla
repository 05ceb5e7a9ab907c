------------------------- MODULE MCMarketTransition -------------------------
(* A small instance of MarketTransition for TLC: one offer on each server. *)
(* A tick is one interval of the schedule loop, 15 seconds, so the grace   *)
(* is two ticks; the staleness limit of eight ticks is shortened where the *)
(* clock does not get that far.                                            *)
EXTENDS MarketTransition

CONSTANTS i1, f1

\* Open, closed and open again; open until midnight.  The weekly
\* hours agree with them before midnight, or leave out what an override opened.
Days == {{0, 1, 6, 7}, 0..2}
Short == {{0, 2, 3}, {2, 3}}

\* Admissions, both loops, the receiver and rolled-back closes race.
Races == [offers |-> {i1, f1}, timetables |-> {{0, 2, 3}},
          weeklies |-> {{0, 2, 3}}, midnights |-> {}, grace |-> 0, stale |-> 1,
          end |-> 2, edits |-> 0, firstRun |-> FALSE, timely |-> FALSE,
          conflicts |-> TRUE, refusals |-> FALSE]

\* The notices of several transitions, and an edit of the schedule.
Notices == [offers |-> {}, timetables |-> Short,
            weeklies |-> {{0, 3}}, midnights |-> {2}, grace |-> 1, stale |-> 3,
            end |-> 3, edits |-> 1, firstRun |-> FALSE, timely |-> FALSE,
            conflicts |-> FALSE, refusals |-> TRUE]

\* A day at the pace of the loops.
Day == [offers |-> {i1, f1}, timetables |-> Days,
        weeklies |-> {{}, {0, 1}}, midnights |-> {3}, grace |-> 2, stale |-> 8,
        end |-> 7, edits |-> 0, firstRun |-> TRUE, timely |-> TRUE,
        conflicts |-> FALSE, refusals |-> FALSE]

MCCases == {Races, Notices, Day}
=============================================================================
