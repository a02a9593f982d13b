------------------------------ MODULE LocalTime ------------------------------
(***************************************************************************)
(* cloudkitty.utils.tz: the database and the storage hold UTC, while the   *)
(* processor, the reprocessors and the API compute the bounds of periods   *)
(* and months on local times, in a zone that has summer time.              *)
(*                                                                         *)
(* Time is counted in hours (or any smaller unit); a local time is what    *)
(* the wall clock shows and, as the clock shows an hour twice when summer  *)
(* ends, which of the two is meant (datetime's fold).                      *)
(***************************************************************************)
EXTENDS Integers, Sequences

CONSTANTS
  Zones,    (* [standard, saved, summer]: the offset, what summer time adds *)
            (* to it, and the hours, in UTC, that have it                  *)
  Hours,    (* the hours looked at                                         *)
  Day,      (* hours of a day                                              *)
  Months,   (* the days of each month; the second one begins at hour 0     *)
  MaxDelta  (* the longest period                                          *)

ASSUME LocalTimeAssumption ==
  /\ \A z \in Zones : z.standard \in Int /\ z.saved \in Nat
  /\ Hours \subseteq Int /\ MaxDelta \in Nat
  /\ Day \in Nat \ {0} /\ Months \in Seq(Nat \ {0})

-----------------------------------------------------------------------------
(***************************************************************************)
(* The zone: dateutil's tzlocal.                                           *)
(***************************************************************************)
Offset(z, u) == z.standard + (IF u \in z.summer THEN z.saved ELSE 0)

(* The wall clock shows this hour in summer time and again in standard     *)
(* time.                                                                   *)
Ambiguous(z, wall) ==
  /\ wall - z.standard \notin z.summer
  /\ wall - z.standard - z.saved \in z.summer

(* An hour that the clock skips counts as summer time.                     *)
IsDst(z, dt) ==
  IF Ambiguous(z, dt.wall) THEN dt.fold = 0 ELSE dt.wall - z.standard \in z.summer

UtcToLocal(z, u) ==
  LET wall == u + Offset(z, u)
  IN  [wall |-> wall,
       fold |-> IF Ambiguous(z, wall) /\ u \notin z.summer THEN 1 ELSE 0]

LocalToUtc(z, dt) ==
  dt.wall - z.standard - (IF IsDst(z, dt) THEN z.saved ELSE 0)

-----------------------------------------------------------------------------
(***************************************************************************)
(* Periods.                                                                *)
(***************************************************************************)
(* Faulty variant: datetime's own sum moves the hands of the wall clock.   *)
AddToWall(z, dt, delta) == [wall |-> dt.wall + delta, fold |-> 0]

AddDelta(z, dt, delta) == UtcToLocal(z, LocalToUtc(z, dt) + delta)
SubstractDelta(z, dt, delta) == UtcToLocal(z, LocalToUtc(z, dt) - delta)

DiffSeconds(z, one, two) ==
  LET diff == LocalToUtc(z, one) - LocalToUtc(z, two)
  IN  IF diff < 0 THEN -diff ELSE diff

(* check_time_state, for a scope whose last period began at dt: the begin  *)
(* of the next one, or nothing.  Two local times of one zone are compared  *)
(* by what the wall clock shows.                                           *)
LocalNext(z, dt, hour, period, waitPeriods) ==
  LET next == AddDelta(z, dt, period)
      waited == AddDelta(z, next, waitPeriods * period)
  IN  IF waited.wall < UtcToLocal(z, hour).wall THEN {next} ELSE {}

-----------------------------------------------------------------------------
(***************************************************************************)
(* Months.                                                                 *)
(***************************************************************************)
Begin[m \in 1 .. Len(Months) + 1] ==
  IF m = 1 THEN -(Months[1] * Day) ELSE Begin[m - 1] + Months[m - 1] * Day

MonthOf(hour) ==
  CHOOSE m \in DOMAIN Months : Begin[m] <= hour /\ hour < Begin[m + 1]

GetMonthStart(dt) == [wall |-> Begin[MonthOf(dt.wall)], fold |-> 0]

(* As many days of Day hours later.                                        *)
GetNextMonth(z, dt) ==
  AddDelta(z, GetMonthStart(dt), Months[MonthOf(dt.wall)] * Day)

(* _check_begin_end: the range, in UTC, of a listing or a total that names *)
(* none, asked for at an hour.                                            *)
DefaultRange(z, hour) ==
  LET dt == UtcToLocal(z, hour)
  IN  [begin |-> LocalToUtc(z, GetMonthStart(dt)),
       end   |-> LocalToUtc(z, GetNextMonth(z, dt))]

(* get_month_start and get_next_month of cloudkitty.utils, which the API   *)
(* v1 takes instead, have the calendar of UTC.                             *)
NaiveMonthEnd(hour) == Begin[MonthOf(hour)] + (Months[MonthOf(hour)] - 1) * Day
NaiveRange(hour) ==
  [begin |-> Begin[MonthOf(hour)], end |-> NaiveMonthEnd(hour) + Day]

-----------------------------------------------------------------------------
InRange(u, range) == range.begin <= u /\ u < range.end

(* The hours of which the wall clock shows one month.                      *)
SameMonth(z, hour) ==
  {u \in Hours : MonthOf(u + Offset(z, u)) = MonthOf(hour + Offset(z, hour))}

(* The hours at which the wall clock may show b have one offset: summer    *)
(* time neither begins nor ends there.                                     *)
Settled(z, b) ==
  LET hours == b - z.standard - z.saved .. b - z.standard
  IN  hours \subseteq z.summer \/ hours \cap z.summer = {}

(* What ranges of months take for granted: no zone changes its offset with *)
(* a month, and the calendar has the hours looked at.                      *)
CalendarFits ==
  /\ Months # <<>>
  /\ \A z \in Zones :
       /\ \A m \in DOMAIN Begin : Settled(z, Begin[m])
       /\ \A u \in Hours : \A hour \in {u, u + Offset(z, u)} :
            Begin[1] <= hour /\ hour < Begin[Len(Months) + 1]

(* A period begins where the one before it ended, whatever the wall clock  *)
(* showed; what is written is read back.                                   *)
Tiles(z, u) ==
  LET dt == UtcToLocal(z, u)
  IN  /\ LocalToUtc(z, dt) = u
      /\ \A period \in 1 .. MaxDelta :
           LET next == AddDelta(z, dt, period)
           IN  /\ LocalToUtc(z, next) = u + period
               /\ DiffSeconds(z, dt, next) = period
               /\ SubstractDelta(z, next, period) = dt

(* The default range is the month, unless the offset changes in it: then   *)
(* it ends as much too late or too early as the offset changes.            *)
Covers(z, hour) ==
  LET range == DefaultRange(z, hour)
      shift == Offset(z, range.end) - Offset(z, range.begin)
  IN  /\ InRange(hour, NaiveRange(hour))
      /\ \A u \in Hours :
           u \in SameMonth(z, hour)
             <=> InRange(u, [range EXCEPT !.end = @ - shift])

ClockSound == \A z \in Zones : \A u \in Hours : Tiles(z, u) /\ Covers(z, u)
=============================================================================
