----------------------------- MODULE LeaveDates -----------------------------
(***************************************************************************)
(* src/common/utils/date.utils.js on day numbers: what the dates of a      *)
(* leave request are worth and which ranges are accepted.                  *)
(*                                                                         *)
(* Day 0 is a Sunday.  A date "YYYY-MM-DD" names a day; new Date() parses  *)
(* it as midnight UTC, and setHours, getDay and setDate then work on the   *)
(* day of the host's zone that this instant falls on.                      *)
(***************************************************************************)
EXTENDS Integers

CONSTANTS
    HostWest,       \* is the host's zone west of Greenwich
    Today,          \* the day it is in the host's zone
    MaxDays         \* maxDays of validateDateRange

ASSUME HostWestAssumption == HostWest \in BOOLEAN
ASSUME TodayAssumption == Today \in Int
ASSUME MaxDaysAssumption == MaxDays \in Nat

\* The day of the host's zone on which day n begins in UTC.
LocalDay(n) == IF HostWest THEN n - 1 ELSE n

\* getDay() is 0 or 6.
Weekend(day) == day % 7 \in {0, 6}

\* The count after n rounds of the loop that begins on a day.
CountFrom(day) ==
    LET count[n \in Nat] ==
            IF n = 0 THEN 0
            ELSE count[n - 1] + (IF Weekend(day + n - 1) THEN 0 ELSE 1)
    IN  count

\* Mutant of calculateBusinessDays: the loop stops before the last day.
calculateBusinessDaysExclusive(first, last) ==
    IF first > last THEN 0 ELSE CountFrom(LocalDay(first))[last - first]

\* while (current <= end)
calculateBusinessDays(first, last) ==
    IF first > last THEN 0 ELSE CountFrom(LocalDay(first))[last - first + 1]

\* validateDateRange
ValidDateRange(first, last) ==
    /\ LocalDay(first) >= Today
    /\ first <= last
    /\ calculateBusinessDays(first, last) \in 1..MaxDays
=============================================================================
