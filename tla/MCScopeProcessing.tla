-------------------------- MODULE MCScopeProcessing --------------------------
(***************************************************************************)
(* Small instances of ScopeProcessing.                                     *)
(***************************************************************************)
EXTENDS ZonedProcessing, TLC

CONSTANTS s1, s2

(* Summer time begins or ends in a month, or in two, or never: not with a  *)
(* month.  It may end when a period begins, and may save two hours.        *)
MCZones ==
  {[standard |-> hours, saved |-> saved, summer |-> summer] :
     hours \in {-1, 1}, saved \in {1, 2},
     summer \in {{}, 8 .. 22, 9 .. 15, 3 .. 40, 2 .. 5}}
MCHours == 0 .. 23
MCMonths == <<1, 3, 2, 3>>

ASSUME MCCalendar == CalendarFits

(* The model fits in one month, or has months of two periods.              *)
OneMonth == [n \in Times |-> 0]
TwoPeriodMonths ==
  LET utc == [standard |-> 0, saved |-> 0, summer |-> {}]
  IN  [n \in Times |-> LocalToUtc(utc, GetMonthStart(UtcToLocal(utc, Hour(n))))
                         \div Hour(TicksPerPeriod)]

(* s1 has no usage in period 1.                                            *)
IdleOnce == {<<s1, 1>>}

OneReset == [[e \in Events |-> 0] EXCEPT !["reset"] = 1]
Operated ==
  [OneReset EXCEPT !["toggle"] = 1, !["crash"] = 1, !["error"] = 1]
Faulty ==
  [OneReset EXCEPT !["resetFault"] = 1, !["crash"] = 1, !["pushError"] = 1]

ProcessorSymmetry == Permutations(Processors)
=============================================================================
