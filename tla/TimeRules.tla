----------------------------- MODULE TimeRules -----------------------------
(***************************************************************************)
(* The time rules of a booking: app/timeutils.py and validate_times of     *)
(* app/services/bookings.py.                                               *)
(*                                                                         *)
(* An instant is an integer number of minutes (UTC).  Whole minutes lose   *)
(* nothing: a start or an end with seconds is refused outright, the slot   *)
(* floor of the current time drops its seconds, and an integer compares    *)
(* with a fractional "now" as it does with the whole minute below it.      *)
(* The office zone is a fixed offset, as Asia/Almaty is.                   *)
(***************************************************************************)
EXTENDS Integers

CONSTANTS
  Hour,       \* minutes in an hour: slots are counted from the full hour
  Day,        \* minutes in a day
  Slot,       \* settings.slot_minutes
  WorkStart,  \* settings.work_day_start, minutes from local midnight
  WorkEnd,    \* settings.work_day_end
  MinLength,  \* settings.min_booking_minutes
  MaxLength,  \* settings.max_booking_minutes
  Horizon,    \* settings.booking_horizon_days, in minutes
  TzOffset    \* settings.office_tz: local time minus UTC

ASSUME CalendarAssumption ==
  /\ Hour \in Nat \ {0}
  /\ Day \in Nat \ {0}
  /\ Day % Hour = 0
  /\ TzOffset \in Int

ASSUME SettingsAssumption ==
  /\ Slot \in Nat \ {0}
  /\ WorkStart \in 0 .. Day - 1  \* both are times of a day
  /\ WorkEnd \in 0 .. Day - 1
  /\ MinLength \in Nat
  /\ MaxLength \in Nat
  /\ Horizon \in Nat
-----------------------------------------------------------------------------
\* to_local: the wall clock of the office
Local(t) == t + TzOffset

\* local.minute % step: minutes since the last slot boundary of this hour
PastSlot(t) == (Local(t) % Hour) % Slot

Aligned(t) == PastSlot(t) = 0

FloorToSlot(t) == t - PastSlot(t)

\* work_bounds of the local day an instant falls on, as instants
DayOf(t) == Local(t) \div Day
Opens(t) == DayOf(t) * Day + WorkStart - TzOffset
Closes(t) == DayOf(t) * Day + WorkEnd - TzOffset

WithinHours(start, end) == Opens(start) <= start /\ end <= Closes(start)

WithinLength(start, end) == MinLength <= end - start /\ end - start <= MaxLength

\* mutant of NotPast: one slot back from now, not from the slot that is running
NotPastLoose(start, now) == now - Slot <= start

\* a slot that has begun but is not over may still be booked
NotPast(start, now) == FloorToSlot(now) <= start

WithinHorizon(start, now) == start <= now + Horizon

\* validate_times: every rule it enforces (each failure answers 422)
ValidTimes(start, end, now) ==
  /\ start < end
  /\ Aligned(start) /\ Aligned(end)
  /\ WithinLength(start, end)
  /\ WithinHours(start, end)
  /\ NotPast(start, now)
  /\ WithinHorizon(start, now)
=============================================================================
