--------------------------- MODULE ZonedProcessing ---------------------------
(***************************************************************************)
(* ScopeProcessing counts periods; the code computes their bounds on the   *)
(* local times of the host.  This module puts a zone under the clock of    *)
(* ScopeProcessing: an instant of the model lasts several hours.           *)
(***************************************************************************)
EXTENDS ScopeProcessing, LocalTime

CONSTANT HoursPerTick

ASSUME ZonedProcessingAssumption ==
  /\ HoursPerTick \in Nat \ {0}
  /\ 0 .. (MaxTime + 1) * HoursPerTick - 1 \subseteq Hours

Hour(instant) == instant * HoursPerTick

(* What check_time_state answers, at an hour in a zone, for a scope whose  *)
(* last period is known.                                                   *)
ZonedTimeState(z, last, hour, wait) ==
  LocalNext(z, UtcToLocal(z, Hour(last * TicksPerPeriod)), hour,
            Hour(TicksPerPeriod), wait)

(* The hour until which the period after the last one has to wait.         *)
WaitedUntil(last, wait) == Hour((last + 1 + wait) * TicksPerPeriod)

(* In every zone, and across the changes of its offset, the period a scope *)
(* is given at an instant begins where the last one ended.  It is given as *)
(* soon as it has waited long enough, as in the model, if the offset is    *)
(* then what it will be, or was, at the end of the wait; around the end of *)
(* summer time it may be given too early or too late, by no more than      *)
(* summer time saves (check_time_state, _check_state).                     *)
GivenInTime(last, instant) ==
  \A z \in Zones, wait \in 0 .. 2,
     hour \in Hour(instant) .. Hour(instant) + HoursPerTick - 1 :
    LET given  == ZonedTimeState(z, last, hour, wait)
        waited == WaitedUntil(last, wait)
    IN  /\ \A dt \in given :
             LocalToUtc(z, dt) = Hour((last + 1) * TicksPerPeriod)
        /\ given # {} => waited < hour + z.saved
        /\ given = {} => hour <= waited + z.saved
        /\ Offset(z, waited) = Offset(z, hour) =>
             /\ given # {} <=> waited < hour
             /\ hour = Hour(instant) =>
                  (given # {} <=> (last + 1 + wait) * TicksPerPeriod < instant)

(* The same as a table, which TLC makes once.                              *)
InTime ==
  [last \in Periods |-> [instant \in Times |-> GivenInTime(last, instant)]]

(* Of every scope, whatever was rated, reset or refused before.            *)
DueOnTheLocalClock ==
  \A s \in Scopes : Known(s) => InTime[lastProcessed[s]][now]

(* Nor does it matter at which hour periods begin: they tile the time, and *)
(* the default range of the API is the month, but for the change of the    *)
(* offset in it (utils.tz, check_time_state).                              *)
PeriodsTile == ClockSound /\ DueOnTheLocalClock
=============================================================================
