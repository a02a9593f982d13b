---------------------------- MODULE HashMapRating ----------------------------
(***************************************************************************)
(* The HashMap rating module in the workers of one scope: when a worker is *)
(* made, and before it rates a period, HashMap loads its rules with one    *)
(* database session per list and per row, while the API goes on creating,  *)
(* editing and deleting them; then it prices the data points of the period *)
(* from what it has loaded.                                                *)
(*                                                                         *)
(* Costs, levels and quantities are integers: rounding is not modelled.    *)
(***************************************************************************)
EXTENDS Integers, Sequences, SequencesExt, FiniteSets, FiniteSetsExt

CONSTANTS
  Services,  (* names of services, as the metrics are named                *)
  Fields,    (* names of fields                                            *)
  Tenant,    (* the scope that the worker rates                            *)
  Global,    (* None as the tenant of a row: it is for every scope         *)
  NoGroup,   (* '_DEFAULT_'                                                *)
  Groups,
  NoValue,   (* the key of a service mapping                               *)
  Word,      (* a value of a field that is not a number                    *)
  Usage,     (* the data points of a period, a sequence                    *)
  Catalogue, (* the mappings and thresholds that the API may write         *)
  MaxDate,   (* bound: the last period to rate                             *)
  Budget     (* bound: how many writes there are, initial rows included    *)

(* A parent is a service, <<s>>, or a field, <<s, f>>.                     *)
Parents == {<<s>> : s \in Services} \cup (Services \X Fields)
IsField(p) == Len(p) = 2
Kinds == {"mappings", "thresholds"}
Forever == MaxDate + 1
Absent == 0

ASSUME HashMapRatingAssumption ==
  /\ \A i \in DOMAIN Usage : /\ Usage[i].service \in Services
                             /\ Usage[i].qty \in Nat
                             /\ DOMAIN Usage[i].desc \subseteq Fields
  /\ \A r \in Catalogue :
       /\ r.kind \in Kinds /\ r.parent \in Parents
       /\ r.group \in Groups \cup {NoGroup} /\ r.tenant \in {Tenant, Global}
       /\ r.type \in {"flat", "rate"} /\ r.cost \in Int
       /\ r.kind = "thresholds" => r.key \in Nat /\ r.start = 0
       /\ r.kind = "mappings" => (IsField(r.parent) <=> r.key # NoValue)
  /\ NoGroup \notin Groups /\ Tenant # Global /\ MaxDate \in Nat
  /\ IsFiniteSet(Services) /\ IsFiniteSet(Fields) /\ Parents \cap Groups = {}
  /\ Budget \in Nat

VARIABLES
  live,    (* of each service, field and group: its id, or Absent          *)
  rows,    (* both tables: records with an id and a deleted flag           *)
  lastId,
  pc,      (* the worker: "idle", "load" or "rate"                         *)
  module,  (* HashMap in the worker: "none" (there is no worker), "making",*)
           (* "made" or "without" (the worker was made without it)         *)
  date,    (* the period to rate                                           *)
  when,    (* the time that the rules are loaded for                       *)
  todo,    (* the queries left to make, a sequence                         *)
  fields,  (* the fields found, in the order of their list                 *)
  entries, (* HashMap._entries: the rules of each kind under each parent   *)
  rated,   (* the prices of the points of each rated period                *)
  seen,    (* history: the rows there were at some time since the load     *)
           (* began                                                        *)
  steady,  (* history: the rows that were there at all times since         *)
  spent

dbVars == <<live, rows, lastId>>
turn == <<module, date, when>>
workerVars == <<pc, turn, todo, fields, entries, rated>>
vars == <<dbVars, workerVars, seen, steady, spent>>

Row(id, r) ==
  [id |-> id, deleted |-> FALSE, kind |-> r.kind, parent |-> r.parent,
   group |-> r.group, tenant |-> r.tenant, key |-> r.key, type |-> r.type,
   cost |-> r.cost, start |-> r.start, end |-> r.end]
RowOf(id) == CHOOSE r \in rows : r.id = id

(* get_filters(is_active=t).  list_thresholds does not use it: a threshold *)
(* is a row that starts at 0 and never ends.                               *)
Applies(r, t) == r.start <= t /\ t < r.end /\ ~r.deleted

Exists(x) == live[x] # Absent
Existing == {p \in Parents : Exists(p)}

NothingLoaded == [x \in Parents \X Kinds |-> {}]

-----------------------------------------------------------------------------
(***************************************************************************)
(* HashMap._load_rates, which the constructor calls for the rules that are *)
(* active by then, and reload_config for those of the next period.  (A     *)
(* quote is priced by what the constructor loaded.)                        *)
(***************************************************************************)
(* A query about a service or a field names it by its id, and finds        *)
(* nothing when that one is gone, though it may have been created anew.    *)
Query(op, p) == [op |-> op, parent |-> p, id |-> live[p]]
Found(t) == live[t.parent] = t.id

Lists(t) ==
  LET list(kind, tenant) == [op |-> "rows", parent |-> t.parent, id |-> t.id,
                             kind |-> kind, tenant |-> tenant]
  IN  <<list("mappings", Global), list("mappings", Tenant),
        list("thresholds", Global), list("thresholds", Tenant)>>

(* One task for each member of S, in an order that SQL does not define.    *)
InAnyOrder(S, MakeTask(_)) ==
  {[i \in DOMAIN order |-> MakeTask(order[i])] : order \in SetToSeqs(S)}

Proceed(tasks) ==
  /\ todo' = tasks
  /\ pc' = IF tasks = <<>> THEN "rate" ELSE "load"

Task(op) == pc = "load" /\ Head(todo).op = op

(* The constructor does not know the period; its time is that of the       *)
(* wall clock.                                                             *)
StartLoad ==
  /\ pc = "idle" /\ date <= MaxDate
  /\ \/ module = "none" /\ module' = "making" /\ when' \in date..MaxDate
     \/ module = "made" /\ when' = date /\ UNCHANGED module

(* Faulty variant: the rules of the last period stay.                    *)
ListServicesOntoOld ==
  /\ StartLoad
  /\ \E order \in InAnyOrder({p \in Existing : ~IsField(p)},
                             LAMBDA p : Query("service", p)) :
       Proceed(order)
  /\ fields' = <<>>
  /\ seen' = rows /\ steady' = rows
  /\ UNCHANGED <<dbVars, date, entries, rated, spent>>

ListServices ==
  /\ StartLoad
  /\ \E order \in InAnyOrder({p \in Existing : ~IsField(p)},
                             LAMBDA p : Query("service", p)) :
       Proceed(order)
  /\ entries' = NothingLoaded /\ fields' = <<>>
  /\ seen' = rows /\ steady' = rows
  /\ UNCHANGED <<dbVars, date, rated, spent>>

GetService ==
  LET t == Head(todo)
  IN  /\ Task("service") /\ Found(t)
      /\ Proceed(Lists(t) \o <<[t EXCEPT !.op = "fields"]>> \o Tail(todo))
  /\ UNCHANGED <<dbVars, turn, fields, entries, rated, seen, steady, spent>>

ListFields ==
  LET t == Head(todo)
  IN  /\ Task("fields")
      /\ \E order \in InAnyOrder({p \in Existing : IsField(p) /\ Found(t) /\
                                                p[1] = t.parent[1]},
                                 LAMBDA p : Query("field", p)) :
           Proceed(order \o Tail(todo))
  /\ UNCHANGED <<dbVars, turn, fields, entries, rated, seen, steady, spent>>

GetField ==
  LET t == Head(todo)
  IN  /\ Task("field") /\ Found(t)
      /\ fields' = Append(fields, t.parent)
      /\ Proceed(Lists(t) \o Tail(todo))
  /\ UNCHANGED <<dbVars, turn, entries, rated, seen, steady, spent>>

(* list_mappings and list_thresholds.                                      *)
ListRows ==
  LET t == Head(todo)
      found == {r \in rows : /\ Found(t)
                             /\ r.parent = t.parent /\ r.kind = t.kind
                             /\ r.tenant = t.tenant /\ Applies(r, when)}
  IN  /\ Task("rows")
      /\ \E order \in InAnyOrder({r.id : r \in found},
                                 LAMBDA i : [op |-> "row", id |-> i,
                                             parent |-> t.parent,
                                             kind |-> t.kind]) :
           Proceed(order \o Tail(todo))
  /\ UNCHANGED <<dbVars, turn, fields, entries, rated, seen, steady, spent>>

Rule(r) == [group |-> r.group, key |-> r.key, type |-> r.type, cost |-> r.cost]

(* Faulty variant: a rule that is there already stays.                   *)
KeepFirst(rules, n) ==
  IF \E r \in rules : r.group = n.group /\ r.key = n.key
  THEN rules ELSE rules \cup {n}

(* A later row takes the place of the one with its group and key: the rows *)
(* of the tenant, listed last, take the place of those without a tenant.   *)
PutRule(rules, n) ==
  {r \in rules : r.group # n.group \/ r.key # n.key} \cup {n}

(* The row is read as it is by now, whatever the list saw.                 *)
GetRow ==
  LET t == Head(todo)
  IN  /\ Task("row")
      /\ t.id \in {r.id : r \in rows}
      /\ entries' = [entries EXCEPT
                       ![<<t.parent, t.kind>>] = PutRule(@, Rule(RowOf(t.id)))]
      /\ Proceed(Tail(todo))
  /\ UNCHANGED <<dbVars, turn, fields, rated, seen, steady, spent>>

(* Faulty variant: the query that failed is repeated.                      *)
LoadRetries ==
  LET t == Head(todo)
  IN  /\ pc = "load"
      /\ \/ t.op \in {"service", "field"} /\ ~Found(t)
         \/ t.op = "row" /\ t.id \notin {r.id : r \in rows}
  /\ UNCHANGED vars

(* NoSuchService, NoSuchField, NoSuchMapping or NoSuchThreshold: stevedore *)
(* leaves out a module that cannot be made, and the worker goes on without *)
(* it; before a period it is the end of the worker, and the period is for  *)
(* one that a later cycle makes.                                           *)
LoadFails ==
  LET t == Head(todo)
  IN  /\ pc = "load"
      /\ \/ t.op \in {"service", "field"} /\ ~Found(t)
         \/ t.op = "row" /\ t.id \notin {r.id : r \in rows}
      /\ pc' = "idle" /\ todo' = <<>>
      /\ module' = IF module = "making" THEN "without" ELSE "none"
  /\ UNCHANGED <<dbVars, date, when, fields, entries, rated, seen, steady, spent>>

LoadStep == \/ ListServices \/ GetService \/ ListFields
            \/ GetField \/ ListRows \/ GetRow \/ LoadFails

-----------------------------------------------------------------------------
(***************************************************************************)
(* HashMap.process.                                                        *)
(***************************************************************************)
(* The entry of a group in HashMap._res, when it is first met.             *)
NewEntry == [flat |-> 0, rate |-> 1, level |-> -1, cost |-> 0,
             type |-> "flat", scope |-> "field"]
EntryOf(res, g) == IF g \in DOMAIN res THEN res[g] ELSE NewEntry

(* Faulty variant: of two thresholds of one level the later one counts.  *)
UpdateEntryAtLevel(e, m) ==
  IF m.kind = "thresholds"
  THEN IF m.rule.key >= e.level
       THEN [e EXCEPT !.level = m.rule.key, !.cost = m.rule.cost,
                      !.type = m.rule.type, !.scope = m.scope]
       ELSE e
  ELSE IF m.rule.type = "rate"
  THEN [e EXCEPT !.rate = @ * m.rule.cost]
  ELSE [e EXCEPT !.flat = Max({@, m.rule.cost})]

(* A match is a rule that applies to the point, with its kind and scope.   *)
UpdateEntry(e, m) ==
  IF m.kind = "thresholds"
  THEN IF m.rule.key > e.level
       THEN [e EXCEPT !.level = m.rule.key, !.cost = m.rule.cost,
                      !.type = m.rule.type, !.scope = m.scope]
       ELSE e
  ELSE IF m.rule.type = "rate"
  THEN [e EXCEPT !.rate = @ * m.rule.cost]
  ELSE [e EXCEPT !.flat = Max({@, m.rule.cost})]

UpdateResult(res, m) ==
  [h \in DOMAIN res \cup {m.rule.group} |->
     IF h = m.rule.group THEN UpdateEntry(EntryOf(res, h), m) ELSE res[h]]

(* The rules that match, in any order.                                     *)
Matches(rules, kind, scope) ==
  SetToSeq({[rule |-> r, kind |-> kind, scope |-> scope] : r \in rules})

ProcessServices(point) ==
  LET p == <<point.service>>
  IN  Matches(entries[<<p, "mappings">>], "mappings", "service")
      \o Matches({r \in entries[<<p, "thresholds">>] : point.qty >= r.key},
                 "thresholds", "service")

ProcessField(point, p) ==
  IF p[1] # point.service \/ p[2] \notin DOMAIN point.desc THEN <<>>
  ELSE LET value == point.desc[p[2]]
       IN  Matches({r \in entries[<<p, "mappings">>] : value = r.key},
                   "mappings", "field")
           \o Matches({r \in entries[<<p, "thresholds">>] : value >= r.key},
                      "thresholds", "field")

ProcessFields(point) ==
  FoldLeft(LAMBDA found, p : found \o ProcessField(point, p), <<>>, fields)

(* The value compared with the thresholds of a field must be a number.     *)
Unusable(point) ==
  \E f \in DOMAIN point.desc :
    /\ point.desc[f] = Word
    /\ entries[<<<<point.service, f>>, "thresholds">>] # {}

GroupPrice(e, qty) ==
  LET onField == e.scope = "field"
      flat == IF onField /\ e.type = "flat" THEN e.flat + e.cost ELSE e.flat
      rate == IF onField /\ e.type = "rate" THEN e.rate * e.cost ELSE e.rate
      price == rate * flat * qty
  IN  IF onField THEN price
      ELSE IF e.type = "flat" THEN price + e.cost ELSE price * e.cost

(* add_rating_informations, on top of what an earlier module has priced.   *)
Price(point) ==
  LET res == FoldLeft(UpdateResult, <<>>,
                      ProcessServices(point) \o ProcessFields(point))
  IN  point.price + MapThenSumSet(LAMBDA g : GroupPrice(res[g], point.qty),
                                  DOMAIN res)

(* The constructor has loaded its rules.                                   *)
Made ==
  /\ pc = "rate" /\ module = "making"
  /\ pc' = "idle" /\ module' = "made"
  /\ UNCHANGED <<dbVars, date, when, todo, fields, entries, rated, seen, steady,
                 spent>>

(* A worker rates its whole backlog, unless something else ends it.        *)
Rated(prices) ==
  /\ rated' = Append(rated, prices)
  /\ date' = date + 1
  /\ module' \in {module, "none"}

Process ==
  /\ pc = "rate" /\ module = "made"
  /\ pc' = "idle"
  /\ \A i \in DOMAIN Usage : ~Unusable(Usage[i])
  /\ Rated([i \in DOMAIN Usage |-> Price(Usage[i])])
  /\ UNCHANGED <<dbVars, when, todo, fields, entries, seen, steady, spent>>

(* The points keep the prices of the other modules.                        *)
RateWithout ==
  /\ pc = "idle" /\ module = "without" /\ date <= MaxDate
  /\ Rated([i \in DOMAIN Usage |-> Usage[i].price])
  /\ UNCHANGED <<dbVars, pc, when, todo, fields, entries, seen, steady, spent>>

(* decimal.InvalidOperation.                                               *)
ProcessFails ==
  /\ pc = "rate" /\ module = "made"
  /\ pc' = "idle" /\ module' = "none"
  /\ \E i \in DOMAIN Usage : Unusable(Usage[i])
  /\ UNCHANGED <<dbVars, date, when, todo, fields, entries, rated, seen, steady,
                 spent>>

-----------------------------------------------------------------------------
(***************************************************************************)
(* What the API does to the tables: each one transaction.  (The checks of  *)
(* the controllers are in module RatingRules.)                             *)
(***************************************************************************)
(* The unique constraints on a level; NULL, no tenant, is never equal.     *)
SameLevel(r, q) == /\ r.kind = "thresholds" /\ q.kind = "thresholds"
                   /\ r.parent = q.parent /\ r.key = q.key
                   /\ r.tenant = q.tenant /\ r.tenant # Global

SameTarget(r, q) == /\ r.kind = q.kind /\ r.parent = q.parent
                    /\ r.key = q.key /\ r.tenant = q.tenant
                    /\ r.group = q.group

(* create_mapping refuses a rule that meets another of the same target.    *)
Meets(r, q) == IF q.end = Forever THEN r.start > q.start \/ r.end = Forever
                                  ELSE r.start < q.end /\ r.end >= q.start

Named(g) == g \in {NoGroup} \cup {x \in Groups : Exists(x)}

Refused(q) ==
  \/ ~Exists(q.parent) \/ ~Named(q.group)
  \/ \E r \in rows : \/ SameLevel(r, q)
                     \/ /\ q.kind = "mappings" /\ ~r.deleted
                        /\ SameTarget(r, q) /\ Meets(r, q)

Write ==
  /\ spent < Budget /\ spent' = spent + 1
  /\ seen' = IF pc = "idle" THEN seen ELSE seen \cup rows'
  /\ steady' = IF pc = "idle" THEN steady ELSE steady \cap rows'
  /\ UNCHANGED workerVars

(* A name is taken once among the services, the fields of a service and    *)
(* the groups; a field needs its service.                                  *)
New(x) ==
  /\ ~Exists(x)
  /\ lastId' = lastId + 1
  /\ live' = [live EXCEPT ![x] = lastId']
  /\ UNCHANGED rows
  /\ Write

CreateService(s) == New(<<s>>)
CreateField(s, f) == Exists(<<s>>) /\ New(<<s, f>>)
CreateGroup(g) == New(g)

Create(q) ==
  /\ ~Refused(q)
  /\ lastId' = lastId + 1
  /\ rows' = rows \cup {Row(lastId', q)}
  /\ Write
  /\ UNCHANGED live

(* The parent of a row cannot be updated, nor its group be removed.        *)
Update(r, q) ==
  /\ q.kind = r.kind /\ q.parent = r.parent /\ ~r.deleted
  /\ Named(q.group)
  /\ \A x \in rows \ {r} : ~SameLevel(x, q)
  /\ rows' = (rows \ {r}) \cup
             {[Row(r.id, q) EXCEPT !.group = IF @ = NoGroup THEN r.group
                                                            ELSE @]}
  /\ Write
  /\ UNCHANGED <<live, lastId>>

(* The row of a mapping stays, that of a threshold does not.               *)
Delete(r) ==
  /\ ~r.deleted
  /\ rows' = (rows \ {r}) \cup
             {x \in {[r EXCEPT !.deleted = TRUE]} : x.kind = "mappings"}
  /\ Write
  /\ UNCHANGED <<live, lastId>>

(* A service or a field, with all that belongs to it.                      *)
DeleteParent(p) ==
  /\ Exists(p)
  /\ LET gone == IF IsField(p) THEN {p} ELSE {x \in Parents : x[1] = p[1]}
     IN  /\ live' = [x \in DOMAIN live |-> IF x \in gone THEN Absent ELSE live[x]]
         /\ rows' = {r \in rows : r.parent \notin gone}
  /\ Write
  /\ UNCHANGED lastId

(* With recurse the rows of the group go, else they lose their group.      *)
DeleteGroup(g, recurse) ==
  /\ Exists(g)
  /\ live' = [live EXCEPT ![g] = Absent]
  /\ rows' = IF recurse THEN {r \in rows : r.group # g}
             ELSE {[r EXCEPT !.group = IF @ = g THEN NoGroup ELSE @] :
                     r \in rows}
  /\ Write
  /\ UNCHANGED lastId

ServicesController == \E s \in Services : CreateService(s) \/ DeleteParent(<<s>>)

FieldsController ==
  \E s \in Services, f \in Fields : CreateField(s, f) \/ DeleteParent(<<s, f>>)

GroupsController ==
  \E g \in Groups : CreateGroup(g) \/ \E recurse \in BOOLEAN : DeleteGroup(g, recurse)

RowsController(kind) ==
  \/ \E q \in {c \in Catalogue : c.kind = kind} :
       Create(q) \/ \E r \in rows : Update(r, q)
  \/ \E r \in rows : r.kind = kind /\ Delete(r)

MappingsController == RowsController("mappings")
ThresholdsController == RowsController("thresholds")

ApiStep == \/ ServicesController \/ FieldsController \/ GroupsController
           \/ MappingsController \/ ThresholdsController

WorkerStep == LoadStep \/ Made \/ Process \/ ProcessFails \/ RateWithout

(* n rows of the catalogue; in which order does not matter.                *)
Sorted(n) ==
  LET list == FoldSet(LAMBDA r, l : Append(l, r), <<>>, Catalogue)
  IN  {t \in [1..n -> Catalogue] :
         \E place \in [1..n -> DOMAIN list] :
           /\ \A i \in 1..n : t[i] = list[place[i]]
           /\ \A i, j \in 1..n : i < j => place[i] <= place[j]}

(* The tables may have rows before the worker starts, or nothing at all.   *)
Init ==
  /\ \E n \in 0..Budget : \E t \in Sorted(n) :
       /\ \A i, j \in 1..n : i < j => ~SameLevel(t[i], t[j])
       /\ rows = {Row(i, t[i]) : i \in 1..n}
       /\ lastId = n + 1 /\ spent = n
       /\ live \in {[x \in Parents \cup Groups |-> id] :
                    id \in {n + 1} \cup IF n = 0 THEN {Absent} ELSE {}}
  /\ pc = "idle" /\ module = "none" /\ date = 0 /\ when = 0 /\ todo = <<>> /\ fields = <<>>
  /\ entries = NothingLoaded /\ rated = <<>>
  /\ seen = {} /\ steady = {}

Next == WorkerStep \/ ApiStep

(* A processor runs cycles for ever.                                       *)
Spec == Init /\ [][Next]_vars /\ WF_vars(WorkerStep)

-----------------------------------------------------------------------------
(***************************************************************************)
(* Properties.                                                             *)
(***************************************************************************)
Loading == pc \in {"load", "rate"}

(* A rule is used only if, at some time since its loading began, its row   *)
(* was active for the period (or the time) it is loaded for, and as the    *)
(* row was at some such time: never one of an earlier period or an earlier *)
(* load.                                                                   *)
NothingStale ==
  Loading => \A x \in Parents \X Kinds : \A rule \in entries[x] :
               \E r \in seen : /\ <<r.parent, r.kind>> = x
                               /\ Rule(r) = rule
                               /\ \E q \in seen : q.id = r.id /\ Applies(q, when)

(* A rule that was active at all times since the loading began is used,    *)
(* or another one of its group and key is; and when it is a rule of the    *)
(* tenant, a rule of the tenant is.                                        *)
NothingMissed ==
  pc = "rate" =>
    \A r \in steady : Applies(r, when) =>
      \E rule \in entries[<<r.parent, r.kind>>], q \in seen :
        /\ rule.group = r.group /\ rule.key = r.key /\ rule = Rule(q)
        /\ r.tenant = Tenant =>
             \E x \in seen : x.id = q.id /\ x.tenant = Tenant

(* The rules that count for the tenant: of two with the same target the    *)
(* one of the tenant.                                                      *)
Effective ==
  {r \in rows : /\ Applies(r, when)
                /\ \A q \in rows :
                     Applies(q, when) /\ q.kind = r.kind /\ q.key = r.key
                     /\ q.parent = r.parent /\ q.group = r.group
                     /\ q.tenant = Tenant => r.tenant = Tenant}

(* No two of them have one target, and no two fields the same level.       *)
Unambiguous ==
  /\ \A r, q \in Effective : SameTarget(r, q) => r = q
  /\ \A r, q \in Effective :
       /\ r.kind = "thresholds" /\ q.kind = "thresholds"
       /\ r.group = q.group /\ r.key = q.key
       /\ IsField(r.parent) /\ IsField(q.parent)
       => r = q

Concerns(r, point) ==
  /\ r.parent[1] = point.service
  /\ IF IsField(r.parent)
     THEN /\ r.parent[2] \in DOMAIN point.desc
          /\ IF r.kind = "mappings" THEN r.key = point.desc[r.parent[2]]
                                    ELSE r.key <= point.desc[r.parent[2]]
     ELSE r.kind = "mappings" \/ r.key <= point.qty

Costs(S) == SumFunction([r \in S |-> r.cost])
Product(S) == FoldFunction(LAMBDA x, y : x * y, 1, [r \in S |-> r.cost])
Dearest(S) == Max({0} \cup {r.cost : r \in S})

RulesOf(S, kind, type) == {r \in S : r.kind = kind /\ r.type = type}

(* The highest threshold, that of the service if two are equal.            *)
Highest(S) ==
  {r \in S : /\ r.kind = "thresholds"
             /\ \A q \in S : q.kind = "thresholds" =>
                  \/ q.key < r.key
                  \/ q.key = r.key /\ (IsField(q.parent) \/ q = r)}

(* What a group adds to the price: its dearest flat mapping times all its  *)
(* rates times the quantity.  The highest of the thresholds reached adds   *)
(* to the flat or multiplies the rate when it is of a field, adds to the   *)
(* product or multiplies it when it is of the service.                     *)
BookPriceOfGroup(S, point) ==
  LET top == Highest(S)
      onField(type) == {r \in top : r.type = type /\ IsField(r.parent)}
      onService(type) == {r \in top : r.type = type /\ ~IsField(r.parent)}
      base == (Dearest(RulesOf(S, "mappings", "flat")) + Costs(onField("flat")))
              * Product(RulesOf(S, "mappings", "rate") \cup onField("rate"))
              * point.qty
  IN  base * Product(onService("rate")) + Costs(onService("flat"))

BookPrice(point) ==
  LET S == {r \in Effective : Concerns(r, point)}
  IN  point.price +
      SumFunction([g \in {r.group : r \in S} |->
                     BookPriceOfGroup({r \in S : r.group = g}, point)])

(* With no write since the loading began, the prices are those that the    *)
(* rows of the tables give, in whatever order the lists were answered and  *)
(* the rules were combined.                                                *)
PricedByTheBook ==
  pc = "rate" /\ seen = rows /\ steady = rows /\ Unambiguous =>
    \A i \in DOMAIN Usage :
      ~Unusable(Usage[i]) => Price(Usage[i]) = BookPrice(Usage[i])

(* A field with a threshold and a data point whose value is no number.     *)
Poisoned ==
  \E i \in DOMAIN Usage : \E f \in DOMAIN Usage[i].desc :
    /\ Usage[i].desc[f] = Word
    /\ \E r \in rows : /\ r.kind = "thresholds"
                       /\ r.parent = <<Usage[i].service, f>>

(* Rows that disappear while they are loaded delay a period, or make the   *)
(* worker rate its backlog without HashMap, but never stop the scope:      *)
(* unless a threshold stays on a field whose values are not numbers, every *)
(* period is rated.                                                        *)
EventuallyRated == <>[]~Poisoned => <>(date > MaxDate)
=============================================================================
