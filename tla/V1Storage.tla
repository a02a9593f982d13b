------------------------------- MODULE V1Storage -------------------------------
(***************************************************************************)
(* The storage of version 1 behind its adapter: rated points are appended  *)
(* to a period that the driver keeps in memory for each scope, and the     *)
(* period is committed.  The SQLAlchemy driver writes a row for each       *)
(* point, in a transaction of its own; the hybrid driver keeps the points  *)
(* in memory, sends them to Gnocchi as measures of resources that it finds *)
(* or makes there, and has a table with the state of each scope.  Nothing  *)
(* is deleted, but Gnocchi keeps one measure of a resource for each time.  *)
(* Reports and lists read what is stored.                                  *)
(***************************************************************************)
EXTENDS Integers, FiniteSets, Sequences, Bags, FiniteSetsExt

CONSTANTS
  Scopes, Processors, Free,
  Services, All,      (* All: no filter                                    *)
  Usage,              (* of a scope and period: None, or the rated points  *)
                      (* with their services, prices, groupby and metadata *)
  None,
  Metrics,            (* metrics.yml: of each service, its groupby and     *)
                      (* metadata                                          *)
  ScopeKey, Undef,    (* [collect] scope_key, and __UNDEF__                *)
  Failure,            (* the answer when an exception is raised            *)
  TypesBefore,        (* sets of services: for which Gnocchi may have had  *)
                      (* resource types from the beginning                 *)
  MaxPeriod,          (* bound                                             *)
  Budget              (* bound: failures, crashes, resets, initialisations *)

Drivers == {"sqlalchemy", "hybrid"}
Periods == 0..MaxPeriod
Unset == -1
NoData == 0           (* the row _NO_DATA_; the points count from 1        *)

ASSUME V1Assumption ==
  /\ MaxPeriod \in Nat
  /\ Free \notin Processors /\ All \notin Scopes \cup Services
  /\ DOMAIN Metrics = Services
  /\ \A s \in Scopes, t \in Periods :
       Usage[<<s, t>>] = None \/
       /\ Usage[<<s, t>>] \in Seq(Range(Usage[<<s, t>>]))
       /\ \A i \in DOMAIN Usage[<<s, t>>] :
            LET point == Usage[<<s, t>>][i]
            IN  /\ point.service \in Services /\ point.price \in Int
                /\ \A part \in {point.groupby, point.metadata} :
                     ScopeKey \in DOMAIN part => part[ScopeKey] = s

VARIABLES
  driver,
  mark,        (* of each scope: up to where it counts as rated            *)
  lock,        (* of each scope: Free or a processor                       *)
  job,         (* of each processor                                        *)
  start,       (* usage_start_dt of each processor; the end is a period on *)
  hasData,     (* _has_data of each processor: scopes                      *)
  held,        (* hybrid: _measurements of each processor, a bag           *)
  table,       (* what is stored, a bag                                    *)
  state,       (* hybrid: tenant_states                                    *)
  types,       (* hybrid: the resource types in Gnocchi                    *)
  resources,   (* hybrid: the resources there                              *)
  again,       (* history: periods of which a push has failed or that were *)
               (* reset                                                    *)
  spent

memory == <<start, hasData, held>>
gnocchi == <<types, resources>>
vars == <<driver, mark, lock, job, memory, table, state, gnocchi, again, spent>>

Idle == [pc |-> "idle", scope |-> Free, time |-> Unset, next |-> 0]

Init ==
  /\ driver \in Drivers
  /\ mark = [s \in Scopes |-> Unset]
  /\ lock = [s \in Scopes |-> Free]
  /\ job = [p \in Processors |-> Idle]
  /\ start = [p \in Processors |-> [s \in Scopes |-> Unset]]
  /\ hasData = [p \in Processors |-> {}]
  /\ held = [p \in Processors |-> [s \in Scopes |-> EmptyBag]]
  /\ table = EmptyBag
  /\ state = [s \in Scopes |-> Unset]
  /\ types \in IF driver = "hybrid" THEN TypesBefore ELSE {{}}
  /\ resources = {}
  /\ again = {}
  /\ spent = 0

At(p, pc) == job[p].pc = pc
Goto(p, pc) == job' = [job EXCEPT ![p].pc = pc]
Scope(p) == job[p].scope
Points(p) == Usage[<<Scope(p), job[p].time>>]

Point(p) == Points(p)[job[p].next]

Joined(first, second) ==
  [a \in DOMAIN first \cup DOMAIN second |->
     IF a \in DOMAIN first THEN first[a] ELSE second[a]]

(* as_dict(legacy=True): of an attribute in both, the groupby's value.     *)
Desc(point) == Joined(point.groupby, point.metadata)

(* A row, or a measure: begin is the time it is stored under, of the       *)
(* period it was rated for; a measure belongs to a resource.               *)
Row(s, begin, of, i) ==
  [scope |-> s, begin |-> begin, of |-> of, point |-> i, resource |-> None]
Measure(s, of, i, resource) ==
  [Row(s, Unset, of, i) EXCEPT !.resource = resource]
Insert(bag, row) == bag (+) SetToBag({row})

Begin(p, t) ==
  [job[p] EXCEPT !.time = t, !.next = 1,
                 !.pc = IF Usage[<<Scope(p), t>>] = None THEN "save" ELSE "append"]

(* A worker takes a scope under its lock.                                  *)
TakeScope(p, s) ==
  /\ At(p, "idle") /\ lock[s] = Free /\ mark[s] < MaxPeriod
  /\ lock' = [lock EXCEPT ![s] = p]
  /\ job' = [job EXCEPT ![p] = [Idle EXCEPT !.pc = "next", !.scope = s]]
  /\ UNCHANGED <<driver, mark, memory, table, state, gnocchi, again, spent>>

(* The next period is rated, if it is due.                                 *)
NextPeriod(p) ==
  /\ At(p, "next")
  /\ \/ /\ mark[Scope(p)] < MaxPeriod
        /\ job' = [job EXCEPT ![p] = Begin(p, mark[Scope(p)] + 1)]
        /\ UNCHANGED lock
     \/ /\ job' = [job EXCEPT ![p] = Idle]
        /\ lock' = [lock EXCEPT ![Scope(p)] = Free]
  /\ UNCHANGED <<driver, mark, memory, table, state, gnocchi, again, spent>>

-----------------------------------------------------------------------------
(***************************************************************************)
(* V1StorageAdapter.push: append, then commit.                             *)
(***************************************************************************)
UsageEnd(p) == start[p][Scope(p)] + 1

Stale(p) == start[p][Scope(p)] # Unset /\ job[p].time >= UsageEnd(p)

UpdateStart(p, begin) == start' = [start EXCEPT ![p][Scope(p)] = begin]

(* Faulty variant: a period in memory is continued, be it over or not.     *)
CheckCommitNever(p) ==
  LET s == Scope(p)
      begin == IF start[p][s] = Unset THEN job[p].time ELSE start[p][s]
  IN  /\ At(p, "append")
      /\ Goto(p, "dispatch")
      /\ start' = [start EXCEPT ![p][s] = begin]
      /\ UNCHANGED <<driver, mark, lock, hasData, held, table, state, gnocchi, again, spent>>

(* _check_commit: a period in memory that is over is committed first.      *)
CheckCommit(p) ==
  LET s == Scope(p)
      begin == IF start[p][s] = Unset THEN job[p].time ELSE start[p][s]
  IN  /\ At(p, "append")
      /\ IF Stale(p)
         THEN Goto(p, "flush") /\ UNCHANGED <<start, state>>
         ELSE /\ Goto(p, "dispatch") /\ UpdateStart(p, begin)
              /\ state' = IF driver = "hybrid" /\ state[s] = Unset
                          THEN [state EXCEPT ![s] = begin] ELSE state
      /\ UNCHANGED <<driver, mark, lock, hasData, held, table, gnocchi, again, spent>>

(* _dispatch, a point at a time: SQLAlchemy writes it under the period in  *)
(* memory,                                                                 *)
AppendRow(p) ==
  LET s == Scope(p)
      i == job[p].next
  IN  /\ driver = "sqlalchemy"
      /\ At(p, "dispatch") /\ i <= Len(Points(p))
      /\ table' = Insert(table, Row(s, start[p][s], job[p].time, i))
      /\ hasData' = [hasData EXCEPT ![p] = @ \cup {s}]
      /\ job' = [job EXCEPT ![p].next = @ + 1]
      /\ UNCHANGED <<driver, mark, lock, start, held, state, gnocchi, again, spent>>

(* and the hybrid driver keeps it in memory, without a time, for the       *)
(* resource with its id, whichever project that belongs to.                *)
FindResource(point) ==
  {r \in resources : r.service = point.service /\ r.id = Desc(point)["id"]}

(* _init_resource_types: a resource has an attribute for each name in the  *)
(* groupby and the metadata of its metric,                                 *)
Attributes(service) == Metrics[service].groupby \cup Metrics[service].metadata

(* with the value that the point has it made for: '' if it has none.       *)
Described(point) ==
  [a \in Attributes(point.service) |->
     IF a \in DOMAIN Desc(point) THEN Desc(point)[a] ELSE ""]

Keep(p, resource) ==
  LET s == Scope(p)
  IN  /\ held' = [held EXCEPT ![p][s] =
                    Insert(@, Measure(s, job[p].time, job[p].next, resource))]
      /\ hasData' = [hasData EXCEPT ![p] = @ \cup {s}]
      /\ job' = [job EXCEPT ![p].next = @ + 1, ![p].pc = "dispatch"]

Identified(p) ==
  /\ driver = "hybrid"
  /\ At(p, "dispatch") /\ job[p].next <= Len(Points(p))
  /\ "id" \in DOMAIN Desc(Point(p)) /\ Point(p).service \in types

AppendMeasurements(p) ==
  /\ Identified(p)
  /\ IF FindResource(Point(p)) = {}
     THEN Goto(p, "create") /\ UNCHANGED <<hasData, held>>
     ELSE \E r \in FindResource(Point(p)) : Keep(p, r)
  /\ UNCHANGED <<driver, mark, lock, start, table, state, gnocchi, again, spent>>

(* The resource is made for the project of the point; if there is one with *)
(* its id by now, it is another with the same resource_id.                 *)
CreateResource(p) ==
  LET new == [service |-> Point(p).service, id |-> Desc(Point(p))["id"],
              project |-> Scope(p), attributes |-> Described(Point(p))]
  IN  /\ At(p, "create")
      /\ resources' = resources \cup {new}
      /\ Keep(p, new)
      /\ UNCHANGED <<driver, mark, lock, start, table, state, types, again, spent>>

EndDispatch(p) ==
  /\ At(p, "dispatch") /\ job[p].next > Len(Points(p))
  /\ Goto(p, "commit")
  /\ UNCHANGED <<driver, mark, lock, memory, table, state, gnocchi, again, spent>>

(* _pre_commit of SQLAlchemy: a row that says that there are no data.      *)
NoDataRow(p) ==
  IF Scope(p) \in hasData[p] THEN EmptyBag
  ELSE LET begin == start[p][Scope(p)]
       IN  SetToBag({Row(Scope(p), begin, begin, NoData)})

(* The commit to Gnocchi: what is in memory, all under the state of the    *)
(* scope.                                                                  *)
Under(r, begin) == [r EXCEPT !.begin = begin]

Measures(p) ==
  LET s == Scope(p) IN {Under(x, state[s]) : x \in DOMAIN held[p][s]}

(* A metric of a resource has one value for each time.  Which of several   *)
(* that is, is up to Gnocchi, that is, any.                                *)
Slot(r) == <<r.resource, r.begin>>

Contended(rows) == {r \in rows : \E q \in rows \ {r} : Slot(q) = Slot(r)}

KeptOf(rows) ==
  {kept \in {rows \ lost : lost \in SUBSET Contended(rows)} :
     \A r \in rows : \E k \in kept :
       Slot(k) = Slot(r) /\ \A l \in kept : Slot(l) = Slot(r) => l = k}

Written(p) ==
  IF driver = "hybrid"
  THEN {SetToBag(kept) : kept \in KeptOf(DOMAIN table \cup Measures(p))}
  ELSE {table (+) NoDataRow(p)}

(* Faulty variant: the measures stay in memory after they are sent.        *)
CommitKeeping(p) ==
  /\ At(p, "commit") \/ At(p, "flush")
  /\ table' \in Written(p)
  /\ Goto(p, IF At(p, "commit") THEN "committed" ELSE "flushed")
  /\ UNCHANGED <<driver, mark, lock, memory, state, gnocchi, again, spent>>

(* The commit of the period, or of one that was left in memory.            *)
Commit(p) ==
  /\ At(p, "commit") \/ At(p, "flush")
  /\ table' \in Written(p)
  /\ held' = [held EXCEPT ![p][Scope(p)] = EmptyBag]
  /\ Goto(p, IF At(p, "commit") THEN "committed" ELSE "flushed")
  /\ UNCHANGED <<driver, mark, lock, start, hasData, state, gnocchi, again, spent>>

ClearUsageInfo(p) == start' = [start EXCEPT ![p][Scope(p)] = Unset]

(* _post_commit: the state of the hybrid driver only moves forward.        *)
PostCommit(p) ==
  LET s == Scope(p)
  IN  /\ At(p, "committed") \/ At(p, "flushed")
      /\ state' = IF driver = "hybrid" /\ start[p][s] > state[s]
                  THEN [state EXCEPT ![s] = start[p][s]] ELSE state
      /\ hasData' = [hasData EXCEPT ![p] = @ \ {s}]
      /\ ClearUsageInfo(p)
      /\ Goto(p, IF At(p, "committed") THEN "save" ELSE "append")
      /\ UNCHANGED <<driver, mark, lock, held, table, gnocchi, again, spent>>

(* The state of the scope in the table of the orchestrator.                *)
SaveState(p) ==
  /\ At(p, "save")
  /\ mark' = [mark EXCEPT ![Scope(p)] = job[p].time]
  /\ Goto(p, "next")
  /\ UNCHANGED <<driver, lock, memory, table, state, gnocchi, again, spent>>

-----------------------------------------------------------------------------
Spend == spent < Budget /\ spent' = spent + 1

Ends(p) ==
  /\ job[p].time # Unset
  /\ job' = [job EXCEPT ![p] = Idle]
  /\ lock' = [lock EXCEPT ![Scope(p)] = Free]
  /\ again' = again \cup {<<Scope(p), job[p].time>>}

(* The hybrid driver looks for the id in vain, or for a resource of a type *)
(* that Gnocchi does not know.                                             *)
CannotKeep(p) ==
  /\ driver = "hybrid"
  /\ At(p, "dispatch") /\ job[p].next <= Len(Points(p))
  /\ "id" \notin DOMAIN Desc(Point(p)) \/ Point(p).service \notin types
  /\ Ends(p)
  /\ UNCHANGED <<driver, mark, memory, table, state, gnocchi, spent>>

(* A write fails, or its answer is lost; what is in memory stays there.    *)
PushFails(p) ==
  /\ Spend /\ Ends(p)
  /\ \/ /\ At(p, "dispatch") /\ job[p].next <= Len(Points(p))
        /\ table' \in
             {table} \cup
             IF driver = "hybrid" THEN {}
             ELSE {Insert(table, Row(Scope(p), start[p][Scope(p)],
                                     job[p].time, job[p].next))}
     \/ (At(p, "commit") \/ At(p, "flush")) /\ table' \in {table} \cup Written(p)
     \/ /\ At(p, "committed") \/ At(p, "flushed")
        /\ driver = "hybrid"
        /\ UNCHANGED table
     \/ (At(p, "create") \/ At(p, "save")) /\ UNCHANGED table
  /\ UNCHANGED <<driver, mark, memory, state, gnocchi>>

Crash(p) ==
  /\ Spend /\ Ends(p)
  /\ start' = [start EXCEPT ![p] = [s \in Scopes |-> Unset]]
  /\ hasData' = [hasData EXCEPT ![p] = {}]
  /\ held' = [held EXCEPT ![p] = [s \in Scopes |-> EmptyBag]]
  /\ UNCHANGED <<driver, mark, table, state, gnocchi>>

(* cloudkitty-storage-init makes the types that are missing, of services   *)
(* that have come into metrics.yml since it was last run.                  *)
InitStorage ==
  /\ Spend
  /\ driver = "hybrid" /\ types # Services
  /\ types' = Services
  /\ UNCHANGED <<driver, mark, lock, job, memory, table, state, resources, again>>

(* A reset of a scope: its data should be deleted and are not.             *)
Reset(s, t) ==
  /\ Spend
  /\ lock[s] = Free /\ t < mark[s]
  /\ mark' = [mark EXCEPT ![s] = t]
  /\ again' = again \cup {<<s, u>> : u \in (t + 1)..mark[s]}
  /\ UNCHANGED <<driver, lock, job, memory, table, state, gnocchi>>

-----------------------------------------------------------------------------
(***************************************************************************)
(* Reports.                                                                *)
(***************************************************************************)
Service(r) == Usage[<<r.scope, r.of>>][r.point].service
Price(r) == Usage[<<r.scope, r.of>>][r.point].price

(* Faulty variant: only the begin of a row is looked at.                   *)
BeginsWithin(r, begin, end) == begin <= r.begin /\ r.begin <= end

(* Rows begin and end within the limits; measures bear the time of their   *)
(* begin and come before the end.                                          *)
Within(r, begin, end) ==
  IF driver = "sqlalchemy" THEN begin <= r.begin /\ r.begin + 1 <= end
                           ELSE begin <= r.begin /\ r.begin < end

(* A measure is read under the project of its resource.                    *)
Owner(r) == IF driver = "hybrid" THEN r.resource.project ELSE r.scope

(* get_time_frame: the rows that a filter selects.                         *)
TimeFrame(begin, end, scope, service) ==
  {r \in DOMAIN table :
     /\ Within(r, begin, end)
     /\ scope \in {All, Owner(r)}
     /\ r.point # NoData
     /\ service \in {All, Service(r)}}

Sum(rows) == SumFunction([r \in rows |-> Price(r) * table[r]])

(* A row of a total for each group of rows.                                *)
Totals(rows, scope, groupby) ==
  LET group(r) == [scope |-> IF "tenant_id" \in groupby THEN Owner(r) ELSE scope,
                   service |-> IF "res_type" \in groupby THEN Service(r) ELSE All]
  IN  {[scope |-> g.scope, service |-> g.service,
        rate |-> Sum({r \in rows : group(r) = g})] : g \in {group(r) : r \in rows}}

(* get_total of SQLAlchemy: without groups one row, be there data or not.  *)
SqlTotal(begin, end, scope, service, groupby) ==
  LET rows == TimeFrame(begin, end, scope, service)
  IN  IF groupby = {} THEN {[scope |-> scope, service |-> All, rate |-> Sum(rows)]}
      ELSE Totals(rows, scope, groupby)

(* get_total of Gnocchi: the service is not looked at.                     *)
GnocchiTotal(begin, end, scope, groupby) ==
  Totals(TimeFrame(begin, end, scope, All), scope, groupby)

(* The adapter knows a scope as 'project_id' alone: under another          *)
(* scope_key there is no filter, and no group.                             *)
Project(scope) == IF ScopeKey = "project_id" THEN scope ELSE All

StorageGroupby(groupby) ==
  {IF elem = "type" THEN "res_type" ELSE "tenant_id" :
     elem \in groupby \cap {"type", "project_id"}}

GetTotal(begin, end, scope, service, groupby) ==
  IF driver = "hybrid"
  THEN GnocchiTotal(begin, end, Project(scope), StorageGroupby(groupby))
  ELSE SqlTotal(begin, end, Project(scope), service, StorageGroupby(groupby))

Rates(rows) == SumFunction([x \in rows |-> x.rate])

(* /v1/report/total, summary and tenants                                   *)
Total(begin, end, scope, service) ==
  Rates(GetTotal(begin, end, scope, service, {ScopeKey}))

Summary(begin, end, scope, service, groupby) ==
  GetTotal(begin, end, scope, service,
           {IF elem = "tenant_id" THEN ScopeKey ELSE "type" : elem \in groupby})

Tenants(begin, end) ==
  {Owner(r) : r \in {x \in DOMAIN table : Within(x, begin, end)}}

(* A row as a dictionary: the tenant is added to the description.          *)
ToCloudkitty(r) ==
  [begin |-> r.begin, service |-> Service(r), price |-> Price(r),
   desc |-> Joined([tenant_id |-> r.scope],
                   Desc(Usage[<<r.scope, r.of>>][r.point]))]

(* A measure as a dictionary: what its resource was made with, and the     *)
(* tenant that was asked for beside the description.                       *)
FormatFrame(r, scope) ==
  [begin |-> r.begin, service |-> Service(r), price |-> Price(r),
   desc |-> r.resource.attributes, tenant_id |-> scope]

(* resource_info: of the measures found.  (Those of resources which began  *)
(* before the time asked for are not, and of quantities nothing is stored: *)
(* both are left out.)                                                     *)
ResourceInfo(rows, scope) == [r \in rows |-> FormatFrame(r, scope)]

(* DATAPOINT_SCHEMA                                                        *)
Valid(frame) == DOMAIN frame = {"begin", "service", "price", "desc"}

(* Read back, all of the description is groupby.                           *)
FromDict(frame) ==
  [begin |-> frame.begin, service |-> frame.service, price |-> frame.price,
   groupby |-> frame.desc, metadata |-> <<>>]

DataFrames(frames) ==
  IF \A r \in DOMAIN frames : Valid(frames[r])
  THEN [r \in DOMAIN frames |-> FromDict(frames[r])] ELSE Failure

(* A frame for each row, or none at all.                                   *)
Retrieve(begin, end, scope, service) ==
  LET rows == TimeFrame(begin, end, Project(scope), service)
      frames == IF driver = "hybrid" THEN ResourceInfo(rows, Project(scope))
                ELSE [r \in rows |-> ToCloudkitty(r)]
  IN  DataFrames(frames)

(* /v1/storage/dataframes                                                  *)
GetAll(begin, end, scope, service) ==
  LET frames == Retrieve(begin, end, scope, service)
  IN  IF frames = Failure THEN Failure ELSE
      [r \in DOMAIN frames |->
         LET desc == Desc(frames[r])
         IN  [rating |-> frames[r].price,
              tenant |-> IF ScopeKey \in DOMAIN desc THEN desc[ScopeKey]
                         ELSE Undef]]

-----------------------------------------------------------------------------
Worker(p) ==
  \/ NextPeriod(p) \/ CheckCommit(p) \/ AppendRow(p) \/ AppendMeasurements(p)
  \/ CreateResource(p) \/ CannotKeep(p)
  \/ EndDispatch(p) \/ Commit(p) \/ PostCommit(p) \/ SaveState(p)

Next ==
  \/ \E p \in Processors : Worker(p) \/ PushFails(p) \/ Crash(p)
  \/ \E p \in Processors, s \in Scopes : TakeScope(p, s)
  \/ \E s \in Scopes, t \in Periods : Reset(s, t)
  \/ InitStorage

Spec == Init /\ [][Next]_vars

-----------------------------------------------------------------------------
(* The rows of a point of a period that have one of these begins.          *)
Stored(s, t, i, begins) ==
  {r \in DOMAIN table :
     r.scope = s /\ r.of = t /\ r.point = i /\ r.begin \in begins}

AtMostOne(rows) == \A r \in rows : table[r] = 1 /\ rows = {r}

(* Where the points of a period belong.  The hybrid driver commits them    *)
(* under the state of the period before, which it replaces afterwards.     *)
Begins(s, t) ==
  IF driver = "sqlalchemy" THEN {t}
  ELSE LET before == {u \in Periods : u < t /\ Usage[<<s, u>>] # None}
       IN  IF before = {} THEN {t} ELSE {Max(before)}

(* Rows of points that are of the resource of a point.                     *)
SameResource(point, other) ==
  point.service = other.service /\ Desc(point)["id"] = Desc(other)["id"]

OfResource(point) ==
  {r \in DOMAIN table : SameResource(Usage[<<r.scope, r.of>>][r.point], point)}

(* The scopes with points of the resource of a row.                        *)
UsersOf(r) ==
  {s \in Scopes : \E t \in {u \in Periods : Usage[<<s, u>>] # None} :
     \E i \in DOMAIN Usage[<<s, t>>] :
       SameResource(Usage[<<s, t>>][i], Usage[<<r.scope, r.of>>][r.point])}

(* Whatever fails between appending and committing, what counts as rated   *)
(* is stored by SQLAlchemy, in its own period and for its scope.  By the   *)
(* hybrid driver its resource has a value under a time that the period may *)
(* have (if the period was not pushed again): that of the point, or of     *)
(* another that was sent under the same time, as those of the first two    *)
(* periods of a scope are; and the resource is of a scope that has used    *)
(* it.                                                                     *)
NothingLost ==
  /\ \A s \in Scopes, t \in Periods :
       t <= mark[s] /\ Usage[<<s, t>>] # None =>
         \A i \in DOMAIN Usage[<<s, t>>] :
           IF driver = "sqlalchemy" THEN Stored(s, t, i, {t}) # {}
           ELSE \E r \in OfResource(Usage[<<s, t>>][i]) :
                  <<s, t>> \in again \/ r.begin \in Begins(s, t)
  /\ driver = "hybrid" => \A r \in DOMAIN table : Owner(r) \in UsersOf(r)

(* No point is stored twice or in another period than it belongs to, and   *)
(* a period without points is marked as such once, but for periods that    *)
(* were pushed again after a failure or a reset.                           *)
StoredOnce ==
  \A s \in Scopes, t \in Periods :
    <<s, t>> \notin again =>
      LET points == IF Usage[<<s, t>>] = None THEN {} ELSE DOMAIN Usage[<<s, t>>]
      IN  /\ \A i \in points \cup {NoData} :
               /\ Stored(s, t, i, Periods \ Begins(s, t)) = {}
               /\ AtMostOne(Stored(s, t, i, Begins(s, t)))
          /\ points # {} => Stored(s, t, NoData, Periods) = {}

(* Totals agree whichever way they are asked for: over two ranges that     *)
(* meet, over the groups, and over the points listed (if they are: the     *)
(* hybrid driver has no list but an empty one), none of which bears the    *)
(* name of another; and who has a total is listed among the tenants.       *)
TotalsAgree ==
  \A scope \in Scopes \cup {All}, service \in Services \cup {All} :
    LET end == MaxPeriod + 1
        total == Total(0, end, scope, service)
    IN  /\ \A middle \in 1..MaxPeriod :
             total = Total(0, middle, scope, service)
                     + Total(middle, end, scope, service)
        /\ \A groupby \in {{}, {"res_type"}, {"tenant_id", "res_type"}} :
             total = Rates(Summary(0, end, scope, service, groupby))
        /\ LET frames == GetAll(0, end, scope, service)
           IN  frames # Failure /\ (driver = "hybrid" => service = All) =>
                 /\ total = SumFunction([r \in DOMAIN frames |->
                                          frames[r].rating * table[r]])
                 /\ \A r \in DOMAIN frames :
                      frames[r].tenant \in {r.scope, Undef}
        /\ total > 0 /\ scope # All => scope \in Tenants(0, end)
=============================================================================
