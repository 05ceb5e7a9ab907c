--------------------------- MODULE MarketSchedule ---------------------------
(***************************************************************************)
(* core/services/market_schedule_service: is the market open, since when,  *)
(* and until when; and the edits of the settings and of the day overrides  *)
(* between which it is asked.                                              *)
(*                                                                         *)
(* A date is a number and a time of day one of DayLength ticks, so an      *)
(* instant is a number too and the instant just before it is one less.     *)
(* The local day has no gaps: Asia/Tehran keeps one offset all year.       *)
(***************************************************************************)
EXTENDS Integers, FiniteSets

CONSTANTS
  DayLength,     \* instants in a day
  SearchDays,    \* NEXT_TRANSITION_SEARCH_DAYS
  WeekLength,    \* days in a week
  LastDay,       \* bound: the clock stops at the end of this day
  MaxOverrides,  \* bound on the overrides kept at a time
  Unset

ASSUME ScheduleAssumption ==
  /\ DayLength \in Nat /\ DayLength >= 2
  /\ SearchDays \in Nat \ {0} /\ WeekLength \in Nat \ {0}
  /\ LastDay \in Nat /\ LastDay > SearchDays
  /\ MaxOverrides \in Nat /\ Unset \notin Int

FirstDay == SearchDays + 1          \* so that the search never leaves Days
Days == 0..(LastDay + SearchDays)
Hours == 0..(DayLength - 1)

VARIABLES
  enabled,    \* market_schedule_enabled
  hours,      \* market_open_time_local and market_close_time_local
  holidays,   \* market_closed_weekdays
  override,   \* market_schedule_overrides by date
  clock

scheduleVars == <<enabled, hours, holidays, override, clock>>

(* A day's rule.  The router refuses hours in the wrong order, so the rule *)
(* for such a day (closed) is never asked for.                             *)
Closed == [kind |-> "closed"]
AllDay == [kind |-> "open"]
Windows ==
  {w \in [kind : {"hours"}, open : Hours, close : Hours] : w.open < w.close}
Rules == Windows \cup {Closed, AllDay}

ScheduleInit ==
  /\ enabled = TRUE /\ holidays = {}
  /\ hours \in Windows
  /\ override = [d \in Days |-> Unset]
  /\ clock = FirstDay * DayLength

Today(t) == t \div DayLength

(* load_market_schedule_overrides_window: from today on.                   *)
Loaded(t) ==
  [d \in Days |-> IF d \in Today(t)..(Today(t) + SearchDays)
                  THEN override[d] ELSE Unset]

DayRule(d, overrides) ==
  IF overrides[d] # Unset THEN overrides[d]
  ELSE IF d % WeekLength \in holidays THEN Closed
  ELSE hours

IsOpenForRule(t, rule) ==
  \/ rule.kind = "open"
  \/ /\ rule.kind = "hours"
     /\ t % DayLength >= rule.open /\ t % DayLength < rule.close

IsMarketOpenAt(t, overrides) ==
  ~enabled \/ IsOpenForRule(t, DayRule(Today(t), overrides))

\* Mutant: a day without hours of its own is no candidate.
DayCandidatesNoMidnight(d, overrides) ==
  LET rule == DayRule(d, overrides)
  IN IF rule.kind = "hours"
     THEN {d * DayLength + rule.open, d * DayLength + rule.close} ELSE {}

DayCandidates(d, overrides) ==
  LET rule == DayRule(d, overrides)
  IN {d * DayLength}
     \cup IF rule.kind = "hours"
          THEN {d * DayLength + rule.open, d * DayLength + rule.close} ELSE {}

Changes(t, overrides) ==
  IsMarketOpenAt(t - 1, overrides) # IsMarketOpenAt(t, overrides)

Least(S) == IF S = {} THEN Unset ELSE CHOOSE t \in S : \A u \in S : t <= u
Greatest(S) == IF S = {} THEN Unset ELSE CHOOSE t \in S : \A u \in S : u <= t

NextTransitionAt(t, overrides) ==
  IF ~enabled THEN Unset
  ELSE Least({c \in UNION {DayCandidates(d, overrides) :
                            d \in Today(t)..(Today(t) + SearchDays)} :
                c > t /\ Changes(c, overrides)})

\* Mutant: the instant at which the market changes is not yet its transition.
CurrentTransitionLate(t, overrides) ==
  IF ~enabled THEN Unset
  ELSE Greatest({c \in UNION {DayCandidates(d, overrides) :
                               d \in (Today(t) - SearchDays)..Today(t)} :
                   /\ c < t /\ Changes(c, overrides)
                   /\ IsMarketOpenAt(c, overrides) = IsMarketOpenAt(t, overrides)})

CurrentTransitionAt(t, overrides) ==
  IF ~enabled THEN Unset
  ELSE Greatest({c \in UNION {DayCandidates(d, overrides) :
                               d \in (Today(t) - SearchDays)..Today(t)} :
                   /\ c <= t /\ Changes(c, overrides)
                   /\ IsMarketOpenAt(c, overrides) = IsMarketOpenAt(t, overrides)})

---------------------------------------------------------------------------
ClockTick ==
  /\ clock < (LastDay + 1) * DayLength - 1
  /\ clock' = clock + 1
  /\ UNCHANGED <<enabled, hours, holidays, override>>

UpdateSettings(e, w, h) ==
  /\ enabled' = e /\ hours' = w /\ holidays' = h
  /\ UNCHANGED <<override, clock>>

\* One override a date.  Dates in the past are accepted too.
CreateOverride(d, rule) ==
  /\ override[d] = Unset
  /\ Cardinality({x \in Days : override[x] # Unset}) < MaxOverrides
  /\ override' = [override EXCEPT ![d] = rule]
  /\ UNCHANGED <<enabled, hours, holidays, clock>>

UpdateOverride(d, date, rule) ==
  /\ override[d] # Unset /\ (date = d \/ override[date] = Unset)
  /\ override' = [override EXCEPT ![d] = Unset, ![date] = rule]
  /\ UNCHANGED <<enabled, hours, holidays, clock>>

DeleteOverride(d) ==
  /\ override[d] # Unset
  /\ override' = [override EXCEPT ![d] = Unset]
  /\ UNCHANGED <<enabled, hours, holidays, clock>>

Edit ==
  \/ \E e \in BOOLEAN, w \in Windows, h \in SUBSET (0..(WeekLength - 1)) :
       UpdateSettings(e, w, h)
  \/ \E d \in Days, rule \in Rules :
       \/ CreateOverride(d, rule)
       \/ \E date \in Days : UpdateOverride(d, date, rule)
  \/ \E d \in Days : DeleteOverride(d)

ScheduleNext == ClockTick \/ Edit

ScheduleSpec == ScheduleInit /\ [][ScheduleNext]_scheduleVars

---------------------------------------------------------------------------
(* Stored hours open before they close (_validate_market_hours and         *)
(* _prepare_override_payload), so no stored rule is the invalid one that   *)
(* evaluate_market_schedule closes the market for.                         *)
ScheduleTypeOK ==
  /\ enabled \in BOOLEAN /\ hours \in Windows
  /\ holidays \subseteq 0..(WeekLength - 1)
  /\ override \in [Days -> Rules \cup {Unset}]
  /\ clock \in (FirstDay * DayLength)..((LastDay + 1) * DayLength - 1)

(* Reference: the timetable as a set of open instants, day by day, and the *)
(* instants at which it changes.                                           *)
Timetable(overrides) ==
  {t \in 0..((LastDay + SearchDays + 1) * DayLength - 1) :
     \/ ~enabled
     \/ LET d == t \div DayLength
            h == t - d * DayLength
            r == IF overrides[d] # Unset THEN overrides[d]
                 ELSE IF d % WeekLength \in holidays THEN Closed ELSE hours
        IN CASE r.kind = "open" -> TRUE
             [] r.kind = "closed" -> FALSE
             [] OTHER -> r.open <= h /\ h < r.close}

ChangeIn(lo, hi, table) ==
  {t \in lo..hi : (t \in table) # ((t - 1) \in table)}

(* next_transition_at is the first instant at which the real timetable     *)
(* changes, in the searched days: the market stays as it is until then.    *)
(* Its candidates (midnights, opening and closing hours) miss no change,   *)
(* and the overrides it loads are all it needs.                            *)
NextIsFirst ==
  LET end == (Today(clock) + SearchDays + 1) * DayLength - 1
      changes == ChangeIn(clock + 1, end, Timetable(override))
  IN NextTransitionAt(clock, Loaded(clock)) =
       IF changes = {} THEN Unset
       ELSE CHOOSE t \in changes : \A u \in changes : t <= u

(* current_transition_at is the last change of the timetable as the        *)
(* overrides given to the evaluation describe it: whether the market is    *)
(* open has not changed since then.                                        *)
CurrentIsLastSeen ==
  LET changes == ChangeIn((Today(clock) - SearchDays) * DayLength, clock,
                          Timetable(Loaded(clock)))
  IN CurrentTransitionAt(clock, Loaded(clock)) =
       IF changes = {} THEN Unset
       ELSE CHOOSE t \in changes : \A u \in changes : u <= t
=============================================================================
