----------------------------- MODULE RatingStore -----------------------------
(***************************************************************************)
(* What every part of cloudkitty's rating pipeline shares: the division of *)
(* time into rating periods, the choice of the next period to rate, and    *)
(* what the v2 storage backends do with a push and with a deletion.        *)
(*                                                                         *)
(* A period is named by its index, the timestamps of the code being the    *)
(* starts of periods.  The data points of one scope in one period are      *)
(* written, overwritten and deleted together: the content of a backend is  *)
(* the number of copies it holds of each such "frame".                     *)
(***************************************************************************)
EXTENDS Integers

CONSTANTS
  Scopes,         (* identifiers returned by the fetcher                   *)
  MaxPeriod,      (* bound: the last period of the model                   *)
  MaxTime,        (* bound: the last instant of the model                  *)
  TicksPerPeriod, (* instants in a period, [collect] period                *)
  WaitPeriods,    (* [collect] wait_periods                                *)
  MonthStart,     (* the first period of the month an instant belongs to   *)
  Idle,           (* the frames for which the collector finds no data      *)
  Backend         (* [storage] backend                                     *)

Periods == 0..MaxPeriod
Times   == 0..MaxTime
Frames  == Scopes \X Periods

(* opensearch behaves as elasticsearch does.                               *)
Backends == {"influxdb", "elasticsearch", "loki"}

(* Python's None: no row in the state table, no timestamp to process.      *)
Never       == -1
NoTimestamp == -1

ASSUME RatingStoreAssumption ==
  /\ MaxPeriod \in Nat /\ MaxTime \in Nat
  /\ TicksPerPeriod \in Nat \ {0} /\ WaitPeriods \in Nat
  /\ MonthStart \in [Times -> Periods]
  /\ Idle \subseteq Frames
  /\ Backend \in Backends

(***************************************************************************)
(* Time.                                                                   *)
(***************************************************************************)
(* Period t may be collected: the waiting periods counted from its start   *)
(* are strictly past.  (The model has no period after MaxPeriod.)          *)
Due(t, instant) ==
  t \in Periods /\ (t + WaitPeriods) * TicksPerPeriod < instant

CheckTimeState(last, instant) ==
  IF last = Never           THEN MonthStart[instant]
  ELSE IF Due(last + 1, instant) THEN last + 1
  ELSE NoTimestamp

(***************************************************************************)
(* Storage.  docs counts the copies of each frame a client sends.          *)
(***************************************************************************)
NoDocs == [f \in Frames |-> 0]

AddDoc(docs, s, t) == [docs EXCEPT ![<<s, t>>] = @ + 1]

(* A point of InfluxDB replaces the one with its time and tags, documents  *)
(* and log lines pile up.                                                  *)
Commit(stored, docs) ==
  [f \in Frames |->
     IF Backend # "influxdb" THEN stored[f] + docs[f]
     ELSE IF docs[f] > 0 THEN 1 ELSE stored[f]]

(* Faulty variant: every backend ignores the filters.                      *)
SelectsAnything(s, f) == TRUE

(* The query of Elasticsearch is built from the dates alone.               *)
Selects(s, f) == Backend = "elasticsearch" \/ f[1] = s

(* delete(begin, None, {scope_key: s}).  The log line of a frame bears the *)
(* time of its end, and Loki takes None for the current instant.           *)
InOpenRange(begin, instant, t) ==
  IF Backend = "loki"
  THEN begin <= t + 1 /\ (t + 1) * TicksPerPeriod <= instant
  ELSE begin <= t

DeleteFrom(stored, s, begin, instant) ==
  [f \in Frames |->
     IF Selects(s, f) /\ InOpenRange(begin, instant, f[2])
     THEN 0 ELSE stored[f]]

(* delete(begin, end, {scope_key: s}): Elasticsearch compares end with the *)
(* end of a document, InfluxDB with its start.                             *)
InClosedRange(begin, end, t) ==
  IF Backend = "loki"
  THEN begin <= t + 1 /\ t + 1 <= end
  ELSE begin <= t /\ t < end

DeleteBetween(stored, s, begin, end) ==
  [f \in Frames |->
     IF Selects(s, f) /\ InClosedRange(begin, end, f[2])
     THEN 0 ELSE stored[f]]
=============================================================================
