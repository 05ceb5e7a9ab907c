-------------------------- MODULE MCMarketSchedule --------------------------
(* A small calendar: four instants a day, a two-day week, a search of one *)
(* day each way and two days on which the question is asked.               *)
EXTENDS MarketSchedule
=============================================================================
