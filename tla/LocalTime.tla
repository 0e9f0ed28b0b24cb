----------------------------- MODULE LocalTime -----------------------------
(***************************************************************************)
(* Local time as mp_time.c uses it: epochs, and a local clock that is set  *)
(* by ShiftBy at the epoch ShiftAt, as daylight saving does.  localtime_r  *)
(* and mktime are external: of a local time that comes twice or never,     *)
(* newlib's mktime takes it for standard time.                             *)
(***************************************************************************)
EXTENDS Integers

CONSTANTS
  Day,      \* 86400 seconds
  ShiftAt,  \* the epoch at which the local clock is set
  ShiftBy   \* by how much: forward if positive

ASSUME LocalTimeAssumption ==
  /\ Day \in Nat \ {0} /\ ShiftAt \in Nat
  /\ ShiftBy \in Int /\ -Day < ShiftBy /\ ShiftBy < Day

\* localtime_r and mktime with tm_isdst = -1.
Local(t)  == IF t < ShiftAt THEN t ELSE t + ShiftBy
MkTime(l) == IF l < ShiftAt + ShiftBy THEN l ELSE l - ShiftBy

OnCalendar(repeat) == repeat % Day = 0

\* mp_time_repeat_next: whole days are added to the local date, any other
\* period to the epoch.
RepeatNext(t, repeat) ==
  IF OnCalendar(repeat) THEN MkTime(Local(t) + repeat) ELSE t + repeat

ClockSetBetween(t, u) == t < ShiftAt /\ ShiftAt <= u

\* One of the k repeats takes the time over the change of the clock and the
\* hour it leaves out.
TakenAcross(t, repeat, k) ==
  \E j \in 1..k : /\ t + (j - 1) * repeat < ShiftAt
                  /\ t + j * repeat >= ShiftAt + ShiftBy

\* RepeatNext, k times over.
Repeated(t, repeat, k) ==
  t + k * repeat - IF OnCalendar(repeat) /\ TakenAcross(t, repeat, k) THEN ShiftBy ELSE 0
=============================================================================
