------------------------------ MODULE Collection ------------------------------
(***************************************************************************)
(* Where usage comes from: a fetcher finds the scopes, and for each of     *)
(* them a worker has the metrics of a period collected by a pool of        *)
(* threads, from Gnocchi or Prometheus, while resources come and go there  *)
(* and projects change in Keystone.  Most answers take several queries.    *)
(* Locks, rating and storage are left to ScopeProcessing: a collected      *)
(* period is stored in one step.                                           *)
(***************************************************************************)
EXTENDS Integers, FiniteSets, Sequences, FiniteSetsExt, SequencesExt

CONSTANTS
  Scopes, NoScope,
  Resources,       (* [id, type, scope]; the scope may be NoScope          *)
  Types,           (* [fetcher_gnocchi] resource_types, a sequence         *)
  ScopeKey,        (* [collect] scope_key                                  *)
  Metrics,         (* metrics.yml, in the order of the keys                *)
  None,            (* what a metric of the file does not have              *)
  Measures,        (* for a metric and an id: the quantity of each         *)
                   (* revision of the resource, in halves, or Empty        *)
  Empty,
  PageLen,         (* resources of an answer of Gnocchi                    *)
  MaxThreads,      (* [orchestrator] max_threads                           *)
  IgnoreRole, IgnoreDisabled,    (* [fetcher_keystone]                     *)
  Budget           (* bound: how often the world changes or a query fails  *)

Fetchers == {"gnocchi", "keystone", "prometheus", "source"}
Collectors == {"gnocchi", "prometheus"}

Indices == DOMAIN Metrics

(* A metric may be listed several times, under other names.                *)
Key(m) == <<m.metric>> \o (IF m.alt = None THEN <<>> ELSE <<m.alt>>)

(* check_configuration: the scope is always grouped by, and for Gnocchi    *)
(* the key of the resources.                                               *)
GroupBy(m) == m.groupby \cup {ScopeKey, m.key}

Mutators == {"NONE", "NUMBOOL", "NOTNUMBOOL", "FLOOR", "CEIL", "MAP"}

(* METRIC_BASE_SCHEMA                                                      *)
Schema(m) ==
  /\ m.factor \in Int /\ m.offset \in Int
  /\ IsFiniteSet(m.groupby) /\ IsFiniteSet(m.metadata)
  /\ m.mutate \in Mutators
  /\ m.skip \in BOOLEAN       (* is there a skip_datapoints_expression?     *)

(* Gnocchi's extra arguments: a metric names the type of its resources and *)
(* says whether each of their revisions counts.                            *)
ExtraSchema(m) == m.type # None /\ m.all \in BOOLEAN

(* MetricDict                                                              *)
NotEmpty == Metrics # <<>>

CheckDuplicates(m) == GroupBy(m) \cap m.metadata = {}
ValidateMapMutator(m) == m.mutate = "MAP" <=> m.map # None

(* validate_conf: the processor does not start with another file.          *)
ValidConf ==
  NotEmpty /\ \A i \in Indices :
    /\ Schema(Metrics[i]) /\ ExtraSchema(Metrics[i])
    /\ \A j \in Indices : Key(Metrics[i]) = Key(Metrics[j]) => i = j
    /\ CheckDuplicates(Metrics[i]) /\ ValidateMapMutator(Metrics[i])

(* The points of a metric go by its alt_name.                              *)
Name(m) == Last(Key(m))

ASSUME CollectionAssumption ==
  /\ ValidConf
  /\ PageLen \in Nat \ {0} /\ MaxThreads \in Nat \ {0}
  /\ \A r \in Resources : r.id \in Nat /\ r.scope \in Scopes \cup {NoScope}
  /\ NoScope \notin Scopes

VARIABLES
  fetcher, collector,  (* the drivers in use: they never change            *)
  resources,           (* what Gnocchi, or Prometheus, knows               *)
  projects,            (* of each scope: enabled, and has the rating role  *)
  pc,                  (* of the processor                                 *)
  found,               (* the scopes found                                 *)
  types,               (* the resource types still to search               *)
  tenants,             (* the projects still to look at                    *)
  scope,               (* the scope in work                                *)
  thread,              (* of each metric                                   *)
  stored,              (* of each scope: its period, once it is stored     *)
  always, ever,        (* history: what met the search all the time, or    *)
                       (* some time, since it began                        *)
  spent

world == <<resources, projects>>
search == <<found, types, tenants>>
history == <<always, ever>>
vars == <<fetcher, collector, world, pc, search, scope, thread, stored, history,
          spent>>

Queued == [pc |-> "queued", points |-> {}, marker |-> 0, ids |-> {}]

Init ==
  /\ fetcher \in Fetchers /\ collector \in Collectors
  /\ resources \in SUBSET Resources
  /\ \E granted \in SUBSET Scopes :
       /\ fetcher # "keystone" => granted = Scopes
       /\ projects = [s \in Scopes |-> [enabled |-> TRUE, rating |-> s \in granted]]
  /\ pc = "idle"
  /\ found = {} /\ types = <<>> /\ tenants = {}
  /\ scope = NoScope
  /\ thread = [i \in Indices |-> Queued]
  /\ stored = [s \in Scopes |-> {}]
  /\ always = {} /\ ever = {}
  /\ spent = 0

Spend == spent < Budget /\ spent' = spent + 1

-----------------------------------------------------------------------------
(***************************************************************************)
(* The world.                                                              *)
(***************************************************************************)
HasResource(s) == \E r \in resources : r.scope = s

(* What a fetcher is to find: projects, or the resources that show their   *)
(* scope.                                                                  *)
ByResource == fetcher \in {"gnocchi", "prometheus"}

Sought ==
  CASE fetcher = "keystone" ->
         {s \in Scopes : /\ IgnoreDisabled => projects[s].enabled
                         /\ IgnoreRole \/ projects[s].rating}
    [] fetcher = "source" -> Scopes
    [] OTHER -> {r \in resources :
                   /\ r.scope # NoScope
                   /\ fetcher = "gnocchi" => r.type \in ToSet(Types)}

ScopesAmong(S) == IF ByResource THEN {r.scope : r \in S} ELSE S

Ratable(s) == s \in ScopesAmong(Sought)

(* What is to be found by the search, or collected.                        *)
Present ==
  IF pc = "collect" THEN {r \in resources : r.scope = scope} ELSE Sought

Witness == always' = always \cap Present' /\ ever' = ever \cup Present'

Create(r) ==
  /\ r \notin resources
  /\ Spend
  /\ resources' = resources \cup {r}
  /\ UNCHANGED <<fetcher, collector, projects, pc, search, scope, thread, stored>>
  /\ Witness

Delete(r) ==
  /\ r \in resources
  /\ Spend
  /\ resources' = resources \ {r}
  /\ UNCHANGED <<fetcher, collector, projects, pc, search, scope, thread, stored>>
  /\ Witness

ChangeProject(s) ==
  /\ fetcher = "keystone"
  /\ Spend
  /\ \/ projects' = [projects EXCEPT ![s].enabled = ~@]
     \/ projects' = [projects EXCEPT ![s].rating = ~@]
  /\ UNCHANGED <<fetcher, collector, resources, pc, search, scope, thread, stored>>
  /\ Witness

-----------------------------------------------------------------------------
(***************************************************************************)
(* The scopes: get_tenants.                                                *)
(***************************************************************************)
Searching(name) == pc = "search" /\ fetcher = name
Others == <<fetcher, collector, world, scope, thread, stored, history, spent>>

(* load_scopes_to_process, at the beginning of a cycle                     *)
BeginCycle ==
  /\ pc = "idle"
  /\ pc' = "search"
  /\ found' = {}
  /\ types' = Types
  /\ tenants' = {s \in Scopes : IgnoreDisabled => projects[s].enabled}
  /\ always' = Sought /\ ever' = Sought
  /\ UNCHANGED <<fetcher, collector, world, scope, thread, stored, spent>>

ById(rs) == SetToSortSeq(rs, LAMBDA q, r : q.id < r.id)

Few(rs) == IF Cardinality(rs) < PageLen THEN Cardinality(rs) ELSE PageLen

(* An answer of Gnocchi holds so many resources and no more: the first     *)
(* ones if it was asked to sort them, or any.                              *)
Page(rs) == SubSeq(ById(rs), 1, Few(rs))
Chunks(rs) == kSubset(Few(rs), rs)

(* "not in": a resource without a scope meets only the query without it.   *)
Unfound(type) ==
  {r \in resources : /\ r.type = type
                     /\ found = {} \/ r.scope \notin found \cup {NoScope}}

ScopesOf(rs) == {r.scope : r \in rs} \ {NoScope}

(* Faulty variant: a type is searched once.                                *)
SearchTypeOnce ==
  /\ Searching("gnocchi") /\ types # <<>>
  /\ \E chunk \in Chunks(Unfound(Head(types))) :
       found' = found \cup ScopesOf(chunk)
  /\ types' = Tail(types)
  /\ UNCHANGED <<pc, tenants>> /\ UNCHANGED Others

(* A type is searched for further scopes until there is no answer.         *)
SearchType ==
  /\ Searching("gnocchi") /\ types # <<>>
  /\ \E chunk \in Chunks(Unfound(Head(types))) :
       /\ found' = found \cup ScopesOf(chunk)
       /\ types' = IF chunk = {} THEN Tail(types) ELSE types
  /\ UNCHANGED <<pc, tenants>> /\ UNCHANGED Others

(* The projects were listed at once; their roles are asked for one by one. *)
CheckRole(s) ==
  /\ Searching("keystone") /\ s \in tenants
  /\ tenants' = tenants \ {s}
  /\ found' = IF IgnoreRole \/ projects[s].rating THEN found \cup {s} ELSE found
  /\ UNCHANGED <<pc, types>> /\ UNCHANGED Others

EndSearch ==
  /\ \/ Searching("gnocchi") /\ types = <<>> /\ found' = found
     \/ Searching("keystone") /\ tenants = {} /\ found' = found
     \/ Searching("prometheus") /\ found' = {s \in Scopes : HasResource(s)}
     \/ Searching("source") /\ found' = Scopes
  /\ pc' = "found"
  /\ UNCHANGED <<types, tenants>> /\ UNCHANGED Others

-----------------------------------------------------------------------------
(***************************************************************************)
(* The metrics of a period.                                                *)
(***************************************************************************)
(* A found scope whose period is not stored is taken, or the cycle ends.   *)
BeginScope(s) ==
  /\ pc = "found" /\ s \in found
  /\ found' = found \ {s}
  /\ IF stored[s] = {}
     THEN /\ pc' = "collect" /\ scope' = s
          /\ thread' = [i \in Indices |-> Queued]
          /\ always' = {r \in resources : r.scope = s}
          /\ ever' = always'
     ELSE UNCHANGED <<pc, scope, thread, history>>
  /\ UNCHANGED <<fetcher, collector, world, types, tenants, stored, spent>>

EndCycle ==
  /\ pc = "found" /\ found = {}
  /\ pc' = "idle"
  /\ UNCHANGED <<search, Others>>

Quiet == UNCHANGED <<fetcher, collector, world, pc, search, scope, stored, history>>

Running == {i \in Indices : thread[i].pc \in {"measure", "resources"}}

(* The pool takes the metrics in their order.                              *)
StartThread(i) ==
  /\ pc = "collect" /\ thread[i].pc = "queued"
  /\ Cardinality(Running) < MaxThreads
  /\ \A j \in Indices : j < i => thread[j].pc # "queued"
  /\ thread' = [thread EXCEPT ![i].pc = "measure"]
  /\ Quiet /\ UNCHANGED spent

One == 2    (* quantities are counted in halves                            *)

ConvertUnit(q, m) == q * m.factor + m.offset

Mutate(q, m) ==
  CASE m.mutate = "NUMBOOL" -> IF q # 0 THEN One ELSE 0
    [] m.mutate = "NOTNUMBOOL" -> IF q = 0 THEN One ELSE 0
    [] m.mutate = "FLOOR" -> (q \div One) * One
    [] m.mutate = "CEIL" -> ((q + One - 1) \div One) * One
    [] m.mutate = "MAP" -> IF q \in DOMAIN m.map THEN m.map[q] ELSE 0
    [] OTHER -> q

Point(m, id, revision, q) ==
  [metric |-> Key(m), id |-> id, revision |-> revision,
   qty |-> Mutate(ConvertUnit(q, m), m)]

(* generate_aggregation_operation: under all its names a metric has its    *)
(* own measures.                                                           *)
Operation(m) == Measures[m.metric]

Measured(m, id) ==
  LET quantities == Operation(m)[id]
  IN  {k \in DOMAIN quantities : quantities[k] # Empty}

Total(m, id, revisions) ==
  FoldSet(LAMBDA k, sum : sum + Operation(m)[id][k], 0, revisions)

(* Faulty variant: the last revision keeps its quantity and gets the sum   *)
(* of all beside it.                                                       *)
SumOntoLast(m, id) ==
  LET last == Len(Operation(m)[id])
  IN  Total(m, id, Measured(m, id))
      + (IF last \in Measured(m, id) THEN Operation(m)[id][last] ELSE 0)

(* filter_unecessary_measurements: the last revision is set to zero and    *)
(* every revision added to it.                                             *)
SumOfRevisions(m, id) == Total(m, id, Measured(m, id))

(* There is no quantity to add to if the last revision has no aggregate.   *)
Breaks(m, id) ==
  /\ ~m.all
  /\ Measured(m, id) # {} /\ Len(Operation(m)[id]) \notin Measured(m, id)

(* Gnocchi's points of a resource: one for each revision, or one for all.  *)
(* (Without an id to group by, every revision counts.)                     *)
PointsOf(m, id) ==
  CASE Measured(m, id) = {} -> {}
    [] m.all -> {Point(m, id, k, Operation(m)[id][k]) : k \in Measured(m, id)}
    [] OTHER -> {Point(m, id, Len(Operation(m)[id]), SumOfRevisions(m, id))}

(* Prometheus aggregates over the period and has no revisions.             *)
SeriesOf(m, id) ==
  IF Measured(m, id) = {} THEN {}
  ELSE {Point(m, id, 0, Total(m, id, Measured(m, id)))}

Selected(m) == {r \in resources : r.type = m.type /\ r.scope = scope}

(* The aggregates of Gnocchi.                                              *)
FetchMetric(i) ==
  LET m == Metrics[i]
      ids == {r.id : r \in Selected(m)}
      broken == \E id \in ids : Breaks(m, id)
  IN  /\ collector = "gnocchi"
      /\ pc = "collect" /\ thread[i].pc = "measure"
      /\ thread' = [thread EXCEPT
                      ![i].points = IF broken THEN {}
                                    ELSE UNION {PointsOf(m, id) : id \in ids},
                      ![i].pc = IF broken THEN "failed"
                                ELSE IF m.metadata # {} THEN "resources" ELSE "done"]
      /\ Quiet /\ UNCHANGED spent

(* The one query of Prometheus, or Aetos.                                  *)
GetInstant(i) ==
  LET m == Metrics[i]
  IN  /\ collector = "prometheus"
      /\ pc = "collect" /\ thread[i].pc = "measure"
      /\ thread' = [thread EXCEPT
                      ![i].points = UNION {SeriesOf(m, r.id) : r \in Selected(m)},
                      ![i].pc = "done"]
      /\ Quiet /\ UNCHANGED spent

(* Faulty variant: every page is asked for from the beginning.             *)
FetchResourcesAgain(i) ==
  LET page == Page(Selected(Metrics[i]))
  IN  /\ pc = "collect" /\ thread[i].pc = "resources"
      /\ thread' = [thread EXCEPT
                      ![i].ids = @ \cup {r.id : r \in ToSet(page)},
                      ![i].pc = IF page = <<>> THEN "done" ELSE @]
      /\ Quiet /\ UNCHANGED spent

(* fetch_all: a point whose resource was not found is left out.            *)
Associated(t) == {p \in t.points : p.id \in t.ids}

(* The resources, a page after the last one's key, until there is none.    *)
FetchResources(i) ==
  LET t == thread[i]
      page == Page({r \in Selected(Metrics[i]) : r.id > t.marker})
  IN  /\ pc = "collect" /\ t.pc = "resources"
      /\ thread' = [thread EXCEPT
           ![i] = IF page = <<>>
                  THEN [t EXCEPT !.pc = "done",
                                 !.points = Associated(t)]
                  ELSE [t EXCEPT !.ids = @ \cup {r.id : r \in ToSet(page)},
                                 !.marker = page[Len(page)].id]]
      /\ Quiet /\ UNCHANGED spent

(* A query fails.                                                          *)
ThreadFails(i) ==
  /\ pc = "collect" /\ i \in Running
  /\ Spend
  /\ thread' = [thread EXCEPT ![i].pc = "failed"]
  /\ Quiet

(* The results are read in order: the first failure, or the timeout, ends  *)
(* the worker, and the rest of the pool works for nothing.                 *)
CollectionFails ==
  /\ pc = "collect"
  /\ \E i \in Indices :
       /\ \A j \in Indices : j < i => thread[j].pc = "done"
       /\ \/ thread[i].pc = "failed" /\ UNCHANGED spent
          \/ thread[i].pc # "done" /\ Spend
  /\ pc' = "found"
  /\ thread' = [i \in Indices |-> Queued]
  /\ scope' = NoScope
  /\ always' = {} /\ ever' = {}
  /\ UNCHANGED <<fetcher, collector, world, search, stored>>

Named(name) == {i \in Indices : Name(Metrics[i]) = name}
Names == {Name(Metrics[i]) : i \in Indices}

(* The results become a dictionary: of the metrics of a name the last one  *)
(* that has points stays.                                                  *)
Usage(name) ==
  LET having == {i \in Named(name) : thread[i].points # {}}
  IN  IF having = {} THEN {} ELSE thread[Max(having)].points

(* create_alt_name_map: the last of the file.                              *)
DefinitionOf(name) ==
  Metrics[CHOOSE i \in Named(name) :
            \A j \in Named(name) : Metrics[j].place <= Metrics[i].place]

(* execute_datapoints_filtering, with the expression qty == 0              *)
Kept(name) == {p \in Usage(name) : DefinitionOf(name).skip => p.qty # 0}

Store ==
  /\ pc = "collect" /\ \A i \in Indices : thread[i].pc = "done"
  /\ stored' = [stored EXCEPT ![scope] =
                  {[usage |-> [n \in Names |-> Kept(n)],
                    always |-> always, ever |-> ever]}]
  /\ pc' = "found"
  /\ thread' = [i \in Indices |-> Queued]
  /\ scope' = NoScope
  /\ always' = {} /\ ever' = {}
  /\ UNCHANGED <<fetcher, collector, world, search, spent>>

-----------------------------------------------------------------------------
Search ==
  \/ BeginCycle \/ SearchType \/ EndSearch \/ EndCycle
  \/ \E s \in Scopes : CheckRole(s) \/ BeginScope(s)

Collect ==
  \/ \E i \in Indices : 
       \/ StartThread(i) \/ FetchMetric(i) \/ GetInstant(i)
       \/ FetchResources(i)
  \/ CollectionFails \/ Store

World ==
  \/ \E r \in Resources : Create(r) \/ Delete(r)
  \/ \E s \in Scopes : ChangeProject(s)
  \/ \E i \in Indices : ThreadFails(i)

Next == Search \/ Collect \/ World

Spec == Init /\ [][Next]_vars

(* The processor, its threads and the services it asks go on.              *)
FairSpec == Spec /\ WF_vars(Search \/ Collect)

-----------------------------------------------------------------------------
(* The fetchers find every project that was ratable all along, and every   *)
(* scope with a resource that was there all along, and none that was not   *)
(* ratable at some time of the search, whatever changes between their      *)
(* queries.  (Keystone's reads a project's state and its role at two       *)
(* times: each of them was right at its own.  Gnocchi's, which searches    *)
(* type by type, may miss a scope that loses a resource of one type after  *)
(* it got one of another.)                                                 *)
ScopesFound ==
  [][EndSearch => /\ ScopesAmong(always) \subseteq found'
                  /\ fetcher # "keystone" => found' \subseteq ScopesAmong(ever)]_vars

Rated(m, id) ==
  LET quantity(q) == Mutate(ConvertUnit(q, m), m)
  IN  IF Measured(m, id) = {} THEN 0
      ELSE IF m.all /\ collector = "gnocchi"
      THEN FoldSet(LAMBDA k, sum : sum + quantity(Operation(m)[id][k]), 0,
                   Measured(m, id))
      ELSE quantity(Total(m, id, Measured(m, id)))

(* A stored period has, for each metric and resource that was there while  *)
(* it was collected, what was measured over all of its revisions, once,    *)
(* and nothing of resources that were not there or of other scopes: unless *)
(* a later metric bears the same name and has usage.                       *)
UsageCounted ==
  \A period \in UNION Range(stored) :
    LET points(m) == {p \in period.usage[Name(m)] : p.metric = Key(m)}
        hidden(i) == \E p \in period.usage[Name(Metrics[i])] :
                       \E j \in Named(Name(Metrics[i])) :
                         j > i /\ p.metric = Key(Metrics[j])
    IN  \A i \in Indices :
          LET m == Metrics[i]
          IN  /\ \A p \in points(m) :
                   \E r \in period.ever : r.id = p.id /\ r.type = m.type
              /\ hidden(i) \/ \A r \in period.always : r.type = m.type =>
                   Rated(m, r.id) =
                     FoldSet(LAMBDA p, sum : sum + p.qty, 0,
                             {p \in points(m) : p.id = r.id})

(* Gnocchi's fetcher asks for ever while it knows no scope and is answered *)
(* with resources that have none.                                          *)
Endless ==
  /\ fetcher = "gnocchi"
  /\ \E r \in resources : r.type \in ToSet(Types) /\ r.scope = NoScope

(* A resource of s whose last revision has no aggregate.                   *)
Stuck(s) ==
  \E i \in Indices, r \in resources :
    /\ collector = "gnocchi"
    /\ r.scope = s /\ r.type = Metrics[i].type /\ Breaks(Metrics[i], r.id)

(* The period of a scope that stays ratable gets stored, whatever fails a  *)
(* few times: unless the search never ends or a measure cannot be read.    *)
EventuallyRated ==
  \A s \in Scopes :
    <>(stored[s] # {}) \/ []<>(~Ratable(s) \/ Endless \/ Stuck(s))
=============================================================================
