------------------------------- MODULE Period -------------------------------
(***************************************************************************)
(* Dates and periods (packages/domain/src/period.ts). A date is a number   *)
(* of days and a period a number of months, both from 1; every period has  *)
(* the same number of days.                                                *)
(***************************************************************************)
EXTENDS Integers

CONSTANT Days   \* days of a period

ASSUME DaysAssumption == Days \in Nat \ {0}

periodKeyOf(date) == (date - 1) \div Days + 1
periodStart(period) == (period - 1) * Days + 1
periodEnd(period) == period * Days

\* The count periods before this one; there is none before the first.
previousPeriods(period, count) == {p \in (period - count)..(period - 1) : p > 0}
=============================================================================
