------------------------------- MODULE Calendar -------------------------------
(* The NYSE calendar of ingestion/market_calendar.py, as far as the        *)
(* modules ask it: calendar days by number and the sessions among them.    *)
EXTENDS Naturals

CONSTANTS MaxDay,    \* bound: calendar days, numbered 1 .. MaxDay
          Trading    \* the NYSE sessions among them

Days == 1 .. MaxDay

ASSUME CalendarAssumption == MaxDay \in Nat /\ Trading \subseteq Days /\ 1 \in Trading
=============================================================================
