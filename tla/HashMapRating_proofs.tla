------------------------- MODULE HashMapRating_proofs -------------------------
(***************************************************************************)
(* What holds of HashMapRating for any services, fields, groups, usage and *)
(* catalogue of rows, and any number of requests and periods.              *)
(***************************************************************************)
EXTENDS HashMapRating, FiniteSetTheorems, WellFoundedInduction, TLAPS

RowFields == {"id", "deleted", "kind", "parent", "group", "tenant", "key",
              "type", "cost", "start", "end"}

(* What the price is computed from.                                        *)
Valued(r) ==
  /\ r.tenant \in {Tenant, Global} /\ r.type \in {"flat", "rate"} /\ r.cost \in Int
  /\ r.kind = "thresholds" => r.key \in Nat

(* A row of either table, with an id given so far.                         *)
IsRow(r) ==
  /\ DOMAIN r = RowFields
  /\ r.id \in 1..lastId /\ r.kind \in Kinds /\ r.parent \in Parents
  /\ Valued(r)

ServiceOf(p) == <<p[1]>>

ServiceParents == {<<s>> : s \in Services}
FieldParents == Services \X Fields

(* The tables.                                                             *)
TablesOK ==
  /\ lastId \in Nat
  /\ live \in [Parents \cup Groups -> Nat]
  /\ \A r \in rows : IsRow(r)
  /\ \A r, q \in rows : r.id = q.id => r = q
  /\ \A p \in FieldParents : Exists(p) => Exists(ServiceOf(p))
  /\ \A r \in rows : Exists(r.parent) /\ Exists(ServiceOf(r.parent))

Tasks ==
  [op : {"service", "fields"}, parent : ServiceParents, id : Nat]
    \cup [op : {"field"}, parent : FieldParents, id : Nat]
    \cup [op : {"rows"}, parent : Parents, id : Nat, kind : Kinds,
          tenant : {Tenant, Global}]
    \cup [op : {"row"}, parent : Parents, id : Nat, kind : Kinds]

(* The worker's variables.                                                 *)
WorkerOK ==
  /\ pc \in {"idle", "load", "rate"}
  /\ todo \in Seq(Tasks)
  /\ pc = "load" <=> todo # <<>>
  /\ DOMAIN entries = Parents \X Kinds
  /\ entries = [x \in Parents \X Kinds |-> entries[x]]

(* The rows remembered are rows of some time; a row keeps its parent.      *)
HistoryOK ==
  /\ \A r \in seen : IsRow(r)
  /\ \A r, q \in seen : r.id = q.id => r.parent = q.parent /\ r.kind = q.kind
  /\ Loading => rows \subseteq seen /\ steady \subseteq rows

LoadInv == TablesOK /\ WorkerOK /\ HistoryOK

(* What is left once a load has failed or is of no more use.               *)
Ends == LoadFails \/ Made \/ Process \/ ProcessFails \/ RateWithout

(* What a write may do to the tables.                                      *)
RowsChange ==
  /\ lastId' \in {lastId, lastId + 1}
  /\ \A x \in rows' :
       \/ lastId' = lastId + 1 /\ x.id = lastId'
       \/ \E r \in rows : x.id = r.id /\ x.parent = r.parent /\ x.kind = r.kind

LiveChange ==
  \A p \in Parents :
    \/ live'[p] = live[p]
    \/ live[p] = Absent
    \/ \A x \in rows' : x.parent # p /\ ServiceOf(x.parent) # p

(* A service is named by one name, a field by two.                         *)
LEMMA ParentShape ==
  /\ \A p \in ServiceParents : ~IsField(p) /\ p = ServiceOf(p) /\ p[1] \in Services
  /\ \A p \in FieldParents : /\ IsField(p) /\ ServiceOf(p) \in ServiceParents
                             /\ p[1] \in Services /\ p[2] \in Fields
  /\ Parents = ServiceParents \cup FieldParents
BY DEF ServiceParents, FieldParents, IsField, ServiceOf, Parents

(* An order of a finite set is a sequence of all of it, each once.         *)
LEMMA OrdersAreSequences ==
  ASSUME NEW S, IsFiniteSet(S), NEW order \in SetToSeqs(S)
  PROVE  /\ order \in Seq(S)
         /\ \A i, j \in DOMAIN order : i # j => order[i] # order[j]
         /\ \A x \in S : \E i \in DOMAIN order : order[i] = x
  <1> DEFINE D == 1..Cardinality(S)
  <1>1. Cardinality(S) \in Nat /\ IsFiniteSet(D) /\ Cardinality(D) = Cardinality(S)
    BY FS_CardinalityType, FS_Interval
  <1>2. order \in [D -> S] /\ \A i, j \in D : i # j => order[i] # order[j]
    BY DEF SetToSeqs
  <1>3. order \in Injection(D, S)
    BY <1>2 DEF Injection, IsInjective
  <1>4. order \in Surjection(D, S)
    BY <1>1, <1>3, FS_Injection
  <1> QED
    BY <1>1, <1>2, <1>4 DEF Surjection

-----------------------------------------------------------------------------
(***************************************************************************)
(* What the API may do to the tables.                                      *)
(***************************************************************************)
Changes == TablesOK' /\ RowsChange /\ LiveChange

LEMMA NamesApart == \A p \in Parents : p \notin Groups
BY HashMapRatingAssumption

(* What each operation of the API does to the tables.                      *)
LEMMA NewChanges ==
  ASSUME TablesOK, NEW x \in Parents \cup Groups, New(x),
         x \in FieldParents => Exists(ServiceOf(x))
  PROVE  Changes
  <1>1. /\ live[x] = Absent /\ lastId' = lastId + 1 /\ rows' = rows
        /\ live' = [live EXCEPT ![x] = lastId']
    BY DEF New, Exists
  <1>2. lastId' \in Nat /\ lastId' # Absent /\ live' \in [Parents \cup Groups -> Nat]
    BY <1>1 DEF TablesOK, Absent
  <1>3. \A r \in rows : IsRow(r)'
    BY <1>1 DEF TablesOK, IsRow
  <1>4. \A p \in Parents \cup Groups : Exists(p) => Exists(p)'
    BY <1>1, <1>2 DEF TablesOK, Exists
  <1>5. \A p \in FieldParents : Exists(p)' => Exists(ServiceOf(p))'
    <2> SUFFICES ASSUME NEW p \in FieldParents, Exists(p)'
                 PROVE  Exists(ServiceOf(p))'
      OBVIOUS
    <2>1. p \in Parents /\ ServiceOf(p) \in Parents
      BY ParentShape
    <2>2. p = x \/ Exists(p)
      BY <1>1, <2>1 DEF TablesOK, Exists
    <2> QED
      BY <1>4, <2>1, <2>2 DEF TablesOK
  <1>6. \A r \in rows : r.parent \in Parents /\ ServiceOf(r.parent) \in Parents
    BY ParentShape DEF TablesOK, IsRow
  <1>7. TablesOK'
    BY <1>1, <1>2, <1>3, <1>4, <1>5, <1>6 DEF TablesOK
  <1>8. RowsChange
    BY <1>1 DEF RowsChange, TablesOK
  <1>9. LiveChange
    BY <1>1 DEF LiveChange, TablesOK
  <1> QED
    BY <1>7, <1>8, <1>9 DEF Changes

(* Rows of a table in which live does not change.                          *)
LEMMA RowsOnly ==
  ASSUME TablesOK, UNCHANGED live, RowsChange,
         \A x \in rows' : DOMAIN x = RowFields /\ Valued(x),
         \A x, y \in rows' : x.id = y.id => x = y,
         \A x \in rows' :
           \/ \E r \in rows : x.id = r.id /\ x.parent = r.parent /\ x.kind = r.kind
           \/ /\ x.id = lastId' /\ x.parent \in Parents /\ x.kind \in Kinds
              /\ Exists(x.parent) /\ lastId' = lastId + 1
  PROVE  Changes
  <1>1. lastId' \in Nat /\ lastId <= lastId'
    BY DEF TablesOK, RowsChange
  <1>2. \A x \in rows' : /\ x.id \in 1..lastId' /\ x.parent \in Parents
                         /\ x.kind \in Kinds /\ Exists(x.parent)
    BY <1>1 DEF TablesOK, IsRow
  <1>3. \A x \in rows' : IsRow(x)'
    BY <1>2 DEF IsRow, Valued
  <1>4. \A x \in rows' : Exists(ServiceOf(x.parent))
    <2> SUFFICES ASSUME NEW x \in rows'
                 PROVE  Exists(ServiceOf(x.parent))
      OBVIOUS
    <2>1. x.parent \in Parents /\ Exists(x.parent)
      BY <1>2
    <2>2. CASE x.parent \in ServiceParents
      BY <2>1, <2>2, ParentShape
    <2>3. CASE x.parent \in FieldParents
      BY <2>1, <2>3 DEF TablesOK
    <2> QED
      BY <2>1, <2>2, <2>3, ParentShape
  <1>5. \A p : Exists(p)' <=> Exists(p)
    BY DEF Exists
  <1>6. TablesOK'
    BY <1>1, <1>2, <1>3, <1>4, <1>5 DEF TablesOK
  <1> QED
    BY <1>6 DEF Changes, LiveChange

LEMMA CatalogueValues == \A q \in Catalogue : Valued(q)
BY HashMapRatingAssumption DEF Valued

LEMMA CreateChanges ==
  ASSUME TablesOK, NEW q \in Catalogue, Create(q)
  PROVE  Changes
  <1>1. /\ Exists(q.parent) /\ lastId' = lastId + 1 /\ UNCHANGED live
        /\ rows' = rows \cup {Row(lastId', q)}
    BY DEF Create, Refused
  <1> DEFINE n == Row(lastId', q)
  <1>2. /\ DOMAIN n = RowFields /\ n.id = lastId' /\ n.parent = q.parent
        /\ n.kind = q.kind /\ Valued(n)
    BY CatalogueValues DEF Row, RowFields, Valued
  <1>3. q.parent \in Parents /\ q.kind \in Kinds
    BY HashMapRatingAssumption
  <1>4. \A r \in rows : /\ DOMAIN r = RowFields /\ Valued(r) /\ r.id \in 1..lastId
    BY DEF TablesOK, IsRow
  <1>5. lastId \in Nat /\ \A r \in rows : r.id # lastId'
    BY <1>1, <1>4 DEF TablesOK
  <1> HIDE DEF n
  <1>6. rows' = rows \cup {n}
    BY <1>1 DEF n
  <1>7. \A x, y \in rows' : x.id = y.id => x = y
    BY <1>2, <1>5, <1>6 DEF TablesOK
  <1>8. RowsChange
    BY <1>1, <1>2, <1>6 DEF RowsChange
  <1> QED
    BY <1>1, <1>2, <1>3, <1>4, <1>6, <1>7, <1>8, RowsOnly

LEMMA UpdateChanges ==
  ASSUME TablesOK, NEW q \in Catalogue, NEW r \in rows, Update(r, q)
  PROVE  Changes
  <1> DEFINE n == [Row(r.id, q) EXCEPT !.group = IF @ = NoGroup THEN r.group
                                                            ELSE @]
  <1>1. /\ q.kind = r.kind /\ q.parent = r.parent /\ UNCHANGED <<live, lastId>>
        /\ rows' = (rows \ {r}) \cup {n}
    BY DEF Update
  <1>2. /\ DOMAIN n = RowFields /\ n.id = r.id /\ n.parent = q.parent
        /\ n.kind = q.kind /\ Valued(n)
    BY CatalogueValues DEF Row, RowFields, Valued
  <1>4. \A x \in rows : DOMAIN x = RowFields /\ Valued(x)
    BY DEF TablesOK, IsRow
  <1> HIDE DEF n
  <1>5. \A x \in rows' : x \in rows \/ x = n
    BY <1>1
  <1>6. \A x \in rows \ {r} : x.id # r.id
    BY DEF TablesOK
  <1>7. \A x, y \in rows' : x.id = y.id => x = y
    BY <1>1, <1>2, <1>6 DEF TablesOK
  <1>8. \A x \in rows' :
          \E y \in rows : x.id = y.id /\ x.parent = y.parent /\ x.kind = y.kind
    BY <1>1, <1>2, <1>5
  <1>9. RowsChange
    BY <1>1, <1>8 DEF RowsChange
  <1> QED
    BY <1>1, <1>2, <1>4, <1>5, <1>7, <1>8, <1>9, RowsOnly

LEMMA DeleteChanges ==
  ASSUME TablesOK, NEW r \in rows, Delete(r)
  PROVE  Changes
  <1> DEFINE n == [r EXCEPT !.deleted = TRUE]
  <1>1. /\ UNCHANGED <<live, lastId>>
        /\ \A x \in rows' : x \in rows \ {r} \/ x = n
    BY DEF Delete
  <1>2. \A x \in rows : DOMAIN x = RowFields /\ Valued(x)
    BY DEF TablesOK, IsRow
  <1>3. /\ DOMAIN n = RowFields /\ n.id = r.id /\ n.parent = r.parent
        /\ n.kind = r.kind /\ Valued(n)
    BY <1>2 DEF RowFields, Valued
  <1> HIDE DEF n
  <1>4. \A x \in rows \ {r} : x.id # r.id
    BY DEF TablesOK
  <1>5. \A x, y \in rows' : x.id = y.id => x = y
    BY <1>1, <1>3, <1>4 DEF TablesOK
  <1>6. \A x \in rows' :
          \E y \in rows : x.id = y.id /\ x.parent = y.parent /\ x.kind = y.kind
    BY <1>1, <1>3
  <1>7. RowsChange
    BY <1>1, <1>6 DEF RowsChange
  <1>8. \A x \in rows' : DOMAIN x = RowFields /\ Valued(x)
    BY <1>1, <1>2, <1>3
  <1> QED
    BY <1>1, <1>5, <1>6, <1>7, <1>8, RowsOnly

LEMMA DeleteGroupChanges ==
  ASSUME TablesOK, NEW g \in Groups, NEW recurse, DeleteGroup(g, recurse)
  PROVE  Changes
  <1> DEFINE Without(r) == [r EXCEPT !.group = IF @ = g THEN NoGroup ELSE @]
  <1>1. /\ UNCHANGED lastId /\ live' = [live EXCEPT ![g] = Absent]
        /\ \A x \in rows' : x \in rows \/ \E r \in rows : x = Without(r)
        /\ \/ rows' \subseteq rows
           \/ rows' = {Without(r) : r \in rows}
    BY DEF DeleteGroup
  <1>2. \A x \in rows : IsRow(x)
    BY DEF TablesOK
  <1>3. \A r \in rows :
          LET x == Without(r)
          IN  /\ DOMAIN x = RowFields /\ x.id = r.id /\ x.parent = r.parent
              /\ x.kind = r.kind /\ Valued(x)
    BY <1>2 DEF RowFields, IsRow, Valued
  <1> HIDE DEF Without
  <1>4. \A x \in rows' :
          \E y \in rows : x.id = y.id /\ x.parent = y.parent /\ x.kind = y.kind
    BY <1>1, <1>3
  <1>5. RowsChange
    BY <1>1, <1>4 DEF RowsChange
  <1>6. \A x \in rows' : DOMAIN x = RowFields /\ Valued(x)
    BY <1>1, <1>2, <1>3 DEF IsRow
  <1>7. \A x, y \in rows' : x.id = y.id => x = y
    BY <1>1, <1>3 DEF TablesOK
  <1>8. \A p \in Parents : live'[p] = live[p]
    BY <1>1, NamesApart DEF TablesOK
  <1>9. \A p \in Parents : Exists(p)' <=> Exists(p)
    BY <1>8 DEF Exists
  <1>10. \A x \in rows' : IsRow(x)'
    BY <1>1, <1>2, <1>4, <1>6 DEF IsRow, Valued
  <1>11. /\ \A p \in FieldParents : Exists(p)' => Exists(ServiceOf(p))'
         /\ \A x \in rows' : Exists(x.parent)' /\ Exists(ServiceOf(x.parent))'
    <2>1. \A p \in Parents : ServiceOf(p) \in Parents
      BY ParentShape
    <2>2. \A x \in rows' : x.parent \in Parents /\ ServiceOf(x.parent) \in Parents
      BY <1>10, <2>1 DEF IsRow
    <2>3. \A x \in rows' : Exists(x.parent) /\ Exists(ServiceOf(x.parent))
      BY <1>4 DEF TablesOK
    <2> QED
      BY <1>9, <2>1, <2>2, <2>3, ParentShape DEF TablesOK
  <1>12. live' \in [Parents \cup Groups -> Nat]
    BY <1>1 DEF TablesOK, Absent
  <1>13. TablesOK'
    BY <1>1, <1>7, <1>10, <1>11, <1>12 DEF TablesOK
  <1> QED
    BY <1>5, <1>8, <1>13 DEF Changes, LiveChange

LEMMA DeleteParentChanges ==
  ASSUME TablesOK, NEW p \in Parents, DeleteParent(p)
  PROVE  Changes
  <1> DEFINE gone == IF IsField(p) THEN {p} ELSE {x \in Parents : x[1] = p[1]}
  <1>1. /\ UNCHANGED lastId
        /\ live' = [x \in DOMAIN live |-> IF x \in gone THEN Absent ELSE live[x]]
        /\ rows' = {r \in rows : r.parent \notin gone}
    BY DEF DeleteParent
  <1>2. \A x \in Parents : ServiceOf(x) \in gone => x \in gone
    <2>1. CASE IsField(p)
      BY <2>1, ParentShape
    <2>2. CASE ~IsField(p)
      BY <2>2, ParentShape DEF ServiceOf
    <2> QED
      BY <2>1, <2>2
  <1> HIDE DEF gone
  <1>3. \A x \in Parents \cup Groups :
          Exists(x)' <=> (Exists(x) /\ x \notin gone)
    BY <1>1 DEF TablesOK, Exists
  <1>4. \A r \in rows : r.parent \in Parents /\ ServiceOf(r.parent) \in Parents
    BY ParentShape DEF TablesOK, IsRow
  <1>5. /\ \A x \in FieldParents : Exists(x)' => Exists(ServiceOf(x))'
        /\ \A x \in rows' : Exists(x.parent)' /\ Exists(ServiceOf(x.parent))'
    <2>1. \A x \in Parents : ServiceOf(x) \in Parents
      BY ParentShape
    <2> QED
      BY <1>1, <1>2, <1>3, <1>4, <2>1, ParentShape DEF TablesOK
  <1>6. live' \in [Parents \cup Groups -> Nat]
    BY <1>1 DEF TablesOK, Absent
  <1>7. \A r \in rows : IsRow(r)'
    BY <1>1 DEF TablesOK, IsRow
  <1>8. TablesOK'
    BY <1>1, <1>5, <1>6, <1>7 DEF TablesOK
  <1>9. RowsChange
    BY <1>1 DEF RowsChange, TablesOK
  <1>10. LiveChange
    <2> SUFFICES ASSUME NEW x \in Parents, x \in gone
                 PROVE  \A r \in rows' : r.parent # x /\ ServiceOf(r.parent) # x
      BY <1>1 DEF LiveChange, TablesOK
    <2> QED
      BY <1>1, <1>2, <1>4
  <1> QED
    BY <1>8, <1>9, <1>10 DEF Changes

(* The same for any operation.                                             *)
LEMMA ApiChanges ==
  ASSUME TablesOK, ApiStep
  PROVE  Changes /\ Write
  <1>1. ASSUME NEW s \in Services, CreateService(s) \/ DeleteParent(<<s>>)
        PROVE  Changes /\ Write
    <2>1. <<s>> \in Parents /\ <<s>> \notin FieldParents
      BY ParentShape DEF Parents, FieldParents
    <2> QED
      BY <1>1, <2>1, NewChanges, DeleteParentChanges
         DEF CreateService, New, DeleteParent
  <1>2. ASSUME NEW s \in Services, NEW f \in Fields,
               CreateField(s, f) \/ DeleteParent(<<s, f>>)
        PROVE  Changes /\ Write
    <2>1. <<s, f>> \in Parents /\ ServiceOf(<<s, f>>) = <<s>>
      BY DEF Parents, ServiceOf
    <2> QED
      BY <1>2, <2>1, NewChanges, DeleteParentChanges
         DEF CreateField, New, DeleteParent
  <1>3. ASSUME NEW g \in Groups, NEW recurse \in BOOLEAN,
               CreateGroup(g) \/ DeleteGroup(g, recurse)
        PROVE  Changes /\ Write
    <2>1. g \in Parents \cup Groups /\ g \notin FieldParents
      BY NamesApart, ParentShape
    <2> QED
      BY <1>3, <2>1, NewChanges, DeleteGroupChanges
         DEF CreateGroup, New, DeleteGroup
  <1>4. ASSUME NEW q \in Catalogue, Create(q)
        PROVE  Changes /\ Write
    BY <1>4, CreateChanges DEF Create
  <1>5. ASSUME NEW q \in Catalogue, NEW r \in rows, Update(r, q)
        PROVE  Changes /\ Write
    BY <1>5, UpdateChanges DEF Update
  <1>6. ASSUME NEW r \in rows, Delete(r)
        PROVE  Changes /\ Write
    BY <1>6, DeleteChanges DEF Delete
  <1> QED
    BY <1>1, <1>2, <1>3, <1>4, <1>5, <1>6
       DEF ApiStep, ServicesController, FieldsController, GroupsController,
           MappingsController, ThresholdsController, RowsController

-----------------------------------------------------------------------------
(***************************************************************************)
(* The lists: each finds, once, what it looks for, in some order.          *)
(***************************************************************************)

(* Where things are when a sequence takes the place of the first element.  *)
LEMMA Prepended ==
  ASSUME NEW S, NEW a \in Seq(S), NEW t \in Seq(S), t # <<>>
  PROVE  /\ a \o Tail(t) \in Seq(S)
         /\ \A i \in DOMAIN a : i \in DOMAIN (a \o Tail(t)) /\ (a \o Tail(t))[i] = a[i]
         /\ \A j \in DOMAIN t : j > 1 =>
              /\ Len(a) + j - 1 \in DOMAIN (a \o Tail(t))
              /\ (a \o Tail(t))[Len(a) + j - 1] = t[j]
         /\ \A i \in DOMAIN (a \o Tail(t)) :
              IF i <= Len(a) THEN i \in DOMAIN a
              ELSE i - Len(a) + 1 \in DOMAIN t /\ i - Len(a) + 1 > 1
  <1>1. Tail(t) \in Seq(S) /\ Len(Tail(t)) = Len(t) - 1
        /\ \A i \in 1..Len(Tail(t)) : Tail(t)[i] = t[i + 1]
    OBVIOUS
  <1>2. /\ a \o Tail(t) \in Seq(S) /\ Len(a \o Tail(t)) = Len(a) + Len(t) - 1
        /\ \A i \in 1..(Len(a) + Len(t) - 1) :
             (a \o Tail(t))[i] = IF i <= Len(a) THEN a[i] ELSE Tail(t)[i - Len(a)]
    BY <1>1
  <1>3. DOMAIN (a \o Tail(t)) = 1..(Len(a) + Len(t) - 1) /\ DOMAIN a = 1..Len(a)
        /\ DOMAIN t = 1..Len(t) /\ Len(a) \in Nat /\ Len(t) \in Nat
    BY <1>2
  <1> QED
    BY <1>1, <1>2, <1>3

(* The four lists of a parent, and the order they are asked for.           *)
LEMMA ListsTasks ==
  ASSUME NEW t, t.parent \in Parents, t.id \in Nat
  PROVE  /\ Lists(t) \in Seq(Tasks) /\ DOMAIN Lists(t) = 1..4
         /\ \A i \in 1..4 :
              /\ Lists(t)[i].op = "rows" /\ Lists(t)[i].parent = t.parent
              /\ Lists(t)[i].id = t.id
              /\ Lists(t)[i].kind = IF i <= 2 THEN "mappings" ELSE "thresholds"
              /\ Lists(t)[i].tenant = IF i \in {1, 3} THEN Global ELSE Tenant
  <1> DEFINE list(kind, tenant) ==
               [op |-> "rows", parent |-> t.parent, id |-> t.id, kind |-> kind,
                tenant |-> tenant]
  <1>1. Lists(t) = <<list("mappings", Global), list("mappings", Tenant),
                     list("thresholds", Global), list("thresholds", Tenant)>>
    BY DEF Lists
  <1>2. \A kind \in Kinds, tenant \in {Tenant, Global} : list(kind, tenant) \in Tasks
    BY DEF Tasks
  <1>3. \A kind, tenant :
          /\ list(kind, tenant).op = "rows" /\ list(kind, tenant).parent = t.parent
          /\ list(kind, tenant).id = t.id /\ list(kind, tenant).kind = kind
          /\ list(kind, tenant).tenant = tenant
    OBVIOUS
  <1> HIDE DEF list
  <1> QED
    BY <1>1, <1>2, <1>3 DEF Kinds

(* A list of the services or of the fields of a service: each that exists  *)
(* once, by the id that it has.                                            *)
Lister(tasks, op, S) ==
  /\ tasks \in Seq(Tasks)
  /\ \A i \in DOMAIN tasks : /\ tasks[i].op = op /\ tasks[i].parent \in S
                             /\ tasks[i].id = live[tasks[i].parent]
  /\ \A i, j \in DOMAIN tasks : i # j => tasks[i].parent # tasks[j].parent
  /\ \A p \in S : \E i \in DOMAIN tasks : tasks[i].parent = p

LEMMA ParentsFinite ==
  IsFiniteSet(Parents)
  <1>1. IsFiniteSet(Services) /\ IsFiniteSet(Fields)
    BY HashMapRatingAssumption
  <1>2. IsFiniteSet(ServiceParents)
    <2> DEFINE f == [s \in Services |-> <<s>>]
    <2>1. f \in Surjection(Services, ServiceParents)
      BY DEF Surjection, ServiceParents
    <2> QED
      BY <1>1, <2>1, FS_Surjection
  <1>3. IsFiniteSet(FieldParents)
    BY <1>1, FS_Product DEF FieldParents
  <1> QED
    BY <1>2, <1>3, FS_Union, ParentShape

(* Querying the members of a set in some order is a list of them.          *)
LEMMA OrderLists ==
  ASSUME TablesOK, NEW op, NEW S \in SUBSET Parents,
         \/ op = "service" /\ S \subseteq ServiceParents
         \/ op = "field" /\ S \subseteq FieldParents,
         NEW o \in SetToSeqs(S)
  PROVE  Lister([i \in DOMAIN o |-> Query(op, o[i])], op, S)
  <1> DEFINE tasks == [i \in DOMAIN o |-> Query(op, o[i])]
  <1>1. IsFiniteSet(S)
    BY ParentsFinite, FS_Subset
  <1>2. /\ o \in Seq(S)
        /\ \A i, j \in DOMAIN o : i # j => o[i] # o[j]
        /\ \A x \in S : \E i \in DOMAIN o : o[i] = x
    BY <1>1, OrdersAreSequences
  <1>3. \A i \in DOMAIN o : o[i] \in S /\ live[o[i]] \in Nat
    BY <1>2 DEF TablesOK
  <1>4. \A p : /\ Query(op, p).op = op /\ Query(op, p).parent = p
               /\ Query(op, p).id = live[p]
    BY DEF Query
  <1>5. \A p \in S : Query(op, p) \in Tasks
    BY DEF Query, Tasks, TablesOK
  <1>6. DOMAIN tasks = DOMAIN o /\ \A i \in DOMAIN o : tasks[i] = Query(op, o[i])
    OBVIOUS
  <1>7. tasks \in Seq(Tasks)
    BY <1>2, <1>3, <1>5
  <1> HIDE DEF tasks
  <1>8. Lister(tasks, op, S)
    BY <1>2, <1>3, <1>4, <1>6, <1>7 DEF Lister
  <1> QED
    BY <1>8 DEF tasks

LEMMA ServicesListed ==
  ASSUME TablesOK, ListServices
  PROVE  /\ Lister(todo', "service", {p \in Existing : ~IsField(p)})
         /\ Proceed(todo') /\ entries' = NothingLoaded
         /\ UNCHANGED dbVars /\ seen' = rows /\ steady' = rows
  <1> DEFINE S == {p \in Existing : ~IsField(p)}
  <1>1. PICK o \in SetToSeqs(S) : Proceed([i \in DOMAIN o |-> Query("service", o[i])])
    BY DEF ListServices, StartLoad, turn, InAnyOrder
  <1>2. S \in SUBSET Parents /\ S \subseteq ServiceParents
    BY ParentShape DEF Existing
  <1>3. todo' = [i \in DOMAIN o |-> Query("service", o[i])]
    BY <1>1 DEF Proceed
  <1> HIDE DEF S
  <1>4. Lister(todo', "service", S)
    BY <1>2, <1>3, OrderLists
  <1> QED
    BY <1>1, <1>3, <1>4 DEF ListServices, StartLoad, turn, S

LEMMA FieldsListed ==
  ASSUME TablesOK, ListFields
  PROVE  \E new : /\ Lister(new, "field",
                           {p \in Existing : IsField(p) /\ Found(Head(todo))
                                               /\ p[1] = Head(todo).parent[1]})
                  /\ Proceed(new \o Tail(todo))
  <1> DEFINE S == {p \in Existing : IsField(p) /\ Found(Head(todo))
                                      /\ p[1] = Head(todo).parent[1]}
  <1>1. PICK o \in SetToSeqs(S) :
          Proceed([i \in DOMAIN o |-> Query("field", o[i])] \o Tail(todo))
    BY DEF ListFields, turn, InAnyOrder
  <1>2. S \in SUBSET Parents /\ S \subseteq FieldParents
    BY ParentShape DEF Existing
  <1> HIDE DEF S
  <1>3. Lister([i \in DOMAIN o |-> Query("field", o[i])], "field", S)
    BY <1>2, OrderLists
  <1> QED
    BY <1>1, <1>3 DEF S

(* What list_mappings and list_thresholds find.                            *)
FoundBy(t) ==
  {r \in rows : /\ Found(t) /\ r.parent = t.parent /\ r.kind = t.kind
                /\ r.tenant = t.tenant /\ Applies(r, when)}

RowLister(tasks, t) ==
  /\ tasks \in Seq(Tasks)
  /\ \A i \in DOMAIN tasks :
       /\ tasks[i].op = "row" /\ tasks[i].parent = t.parent
       /\ tasks[i].kind = t.kind /\ \E r \in FoundBy(t) : tasks[i].id = r.id
  /\ \A r \in FoundBy(t) : \E i \in DOMAIN tasks : tasks[i].id = r.id

(* What list_mappings and list_thresholds add to read.                     *)
LEMMA RowsListed ==
  ASSUME TablesOK, ListRows, Head(todo).parent \in Parents, Head(todo).kind \in Kinds
  PROVE  \E new : RowLister(new, Head(todo)) /\ Proceed(new \o Tail(todo))
  <1> DEFINE t == Head(todo)
             S == {r.id : r \in FoundBy(t)}
             Make(i) == [op |-> "row", id |-> i, parent |-> t.parent, kind |-> t.kind]
  <1>1. PICK o \in SetToSeqs(S) : Proceed([i \in DOMAIN o |-> Make(o[i])] \o Tail(todo))
    BY DEF ListRows, turn, InAnyOrder, FoundBy
  <1>2. IsFiniteSet(S) /\ S \subseteq Nat
    <2>1. S \subseteq 1..lastId /\ lastId \in Nat
      BY DEF FoundBy, TablesOK, IsRow
    <2> HIDE DEF S
    <2>2. IsFiniteSet(1..lastId)
      BY <2>1, FS_Interval
    <2>3. IsFiniteSet(S)
      BY <2>1, <2>2, FS_Subset, Zenon
    <2>4. 1..lastId \subseteq Nat
      BY <2>1
    <2> QED
      BY <2>1, <2>3, <2>4
  <1>3. \A i \in S : Make(i) \in Tasks
    BY <1>2 DEF Tasks
  <1>4. \A i : /\ Make(i).op = "row" /\ Make(i).id = i
               /\ Make(i).parent = t.parent /\ Make(i).kind = t.kind
    OBVIOUS
  <1> DEFINE tasks == [i \in DOMAIN o |-> Make(o[i])]
  <1> HIDE DEF Make
  <1>5. /\ o \in Seq(S) /\ \A x \in S : \E i \in DOMAIN o : o[i] = x
        /\ \A i \in DOMAIN o : o[i] \in S
    <2> HIDE DEF S
    <2> QED
      BY <1>2, OrdersAreSequences
  <1>6. DOMAIN tasks = DOMAIN o /\ \A i \in DOMAIN o : tasks[i] = Make(o[i])
    OBVIOUS
  <1>7. tasks \in Seq(Tasks)
    <2> HIDE DEF S
    <2> QED
      BY <1>3, <1>5
  <1>8. Proceed(tasks \o Tail(todo))
    BY <1>1
  <1>9. /\ \A x \in S : \E r \in FoundBy(t) : x = r.id
        /\ \A r \in FoundBy(t) : r.id \in S
    OBVIOUS
  <1> HIDE DEF tasks, S
  <1>10. RowLister(tasks, t)
    <2>1. \A i \in DOMAIN tasks :
            /\ tasks[i].op = "row" /\ tasks[i].parent = t.parent
            /\ tasks[i].kind = t.kind /\ tasks[i].id = o[i] /\ o[i] \in S
      BY <1>4, <1>5, <1>6
    <2>2. \A r \in FoundBy(t) : \E i \in DOMAIN tasks : tasks[i].id = r.id
      BY <1>5, <1>6, <1>9, <2>1
    <2> QED
      BY <1>7, <1>9, <2>1, <2>2 DEF RowLister
  <1> QED
    BY <1>8, <1>10

-----------------------------------------------------------------------------
(***************************************************************************)
(* The rules that are used were active.  The invariant adds that a row     *)
(* to be read was listed, and as it applied, during this load, and that a  *)
(* row keeps its parent as long as it has its id.                          *)
(***************************************************************************)
(* A row to be read was listed, and as it applied at that time.            *)
Listed(t) ==
  \E q \in seen : /\ q.id = t.id /\ q.parent = t.parent /\ q.kind = t.kind
                  /\ Applies(q, when)

RowTasks == \A i \in DOMAIN todo : todo[i].op = "row" => Listed(todo[i])

StaleInv == LoadInv /\ RowTasks /\ NothingStale

(* What a task has, by its kind.                                           *)
LEMMA TaskTypes ==
  ASSUME NEW t \in Tasks
  PROVE  /\ t.op \in {"service", "fields", "field", "rows", "row"}
         /\ t.parent \in Parents /\ t.id \in Nat
         /\ t.op \in {"service", "fields"} => t.parent \in ServiceParents
         /\ t.op = "field" => t.parent \in FieldParents
         /\ t.op \in {"rows", "row"} => t.kind \in Kinds
         /\ t.op = "rows" => t.tenant \in {Tenant, Global}
BY ParentShape DEF Tasks

LEMMA TasksKept ==
  ASSUME NEW t \in Tasks, t.op = "service"
  PROVE  [t EXCEPT !.op = "fields"] \in Tasks
BY DEF Tasks

LEMMA HeadType ==
  ASSUME WorkerOK, pc = "load"
  PROVE  /\ todo # <<>> /\ Head(todo) \in Tasks
         /\ 1 \in DOMAIN todo /\ Head(todo) = todo[1]
BY DEF WorkerOK

(* The first task gives way to others.                                     *)
Expands(new) ==
  /\ pc = "load" /\ new \in Seq(Tasks) /\ Proceed(new \o Tail(todo))
  /\ UNCHANGED <<dbVars, when, seen, steady>>

(* The queries that bring no rule, and the rows that they add to read.     *)
LEMMA ExpandingSteps ==
  ASSUME LoadInv, GetService \/ ListFields \/ GetField \/ ListRows
  PROVE  UNCHANGED entries /\ \E new : Expands(new) /\
           \A i \in DOMAIN new : new[i].op = "row" => Listed(new[i])
  <1> DEFINE t == Head(todo)
  <1>1. pc = "load" /\ UNCHANGED <<dbVars, when, seen, steady, entries>>
    BY DEF GetService, ListFields, GetField, ListRows, turn, Task
  <1>2. TablesOK /\ WorkerOK /\ HistoryOK
    BY DEF LoadInv
  <1>3. todo # <<>> /\ t \in Tasks
    BY <1>1, <1>2, HeadType
  <1>4. t.parent \in Parents /\ t.id \in Nat
    BY <1>3, TaskTypes
  <1>5. /\ Lists(t) \in Seq(Tasks) /\ DOMAIN Lists(t) = 1..4
        /\ \A i \in 1..4 : Lists(t)[i].op = "rows"
    BY <1>4, ListsTasks
  <1>6. CASE GetService
    <2> DEFINE f == [t EXCEPT !.op = "fields"]
               new == Lists(t) \o <<f>>
    <2>1. t.op = "service" /\ Proceed(new \o Tail(todo))
      <3>1. Tail(todo) \in Seq(Tasks) /\ <<f>> \in Seq({f}) /\ Lists(t) \in Seq(Tasks)
        BY <1>2, <1>3, <1>5 DEF WorkerOK
      <3>2. Proceed(Lists(t) \o <<f>> \o Tail(todo)) /\ t.op = "service"
        BY <1>6 DEF GetService, turn, Task
      <3> QED
        BY <3>2
    <2>2. f \in Tasks /\ f.op = "fields"
      BY <1>3, <2>1, TasksKept DEF Tasks
    <2> HIDE DEF f
    <2>3. new \in Seq(Tasks) /\ DOMAIN new = 1..5
          /\ \A i \in 1..5 : new[i] = IF i = 5 THEN f ELSE Lists(t)[i]
      BY <1>5, <2>2
    <2>4. \A i \in DOMAIN new : new[i].op # "row"
      BY <1>5, <2>2, <2>3
    <2> QED
      BY <1>1, <2>1, <2>3, <2>4 DEF Expands
  <1>7. CASE GetField
    <2>1. Proceed(Lists(t) \o Tail(todo))
      BY <1>7 DEF GetField, turn
    <2> QED
      BY <1>1, <1>5, <2>1 DEF Expands
  <1>8. CASE ListFields
    <2>1. PICK new : /\ Lister(new, "field", {p \in Existing : IsField(p) /\ Found(t)
                                                 /\ p[1] = t.parent[1]})
                     /\ Proceed(new \o Tail(todo))
      BY <1>2, <1>8, FieldsListed
    <2> QED
      BY <1>1, <2>1 DEF Expands, Lister
  <1>9. CASE ListRows
    <2>1. t.kind \in Kinds
      BY <1>3, <1>9, TaskTypes DEF ListRows, turn, Task
    <2>2. PICK new : RowLister(new, t) /\ Proceed(new \o Tail(todo))
      BY <1>2, <1>4, <1>9, <2>1, RowsListed
    <2>3. FoundBy(t) \subseteq seen
      BY <1>1, <1>2 DEF FoundBy, HistoryOK, Loading
    <2>4. \A i \in DOMAIN new : new[i].op = "row" => Listed(new[i])
      BY <2>2, <2>3 DEF RowLister, Listed, FoundBy
    <2> QED
      BY <1>1, <2>2, <2>4 DEF Expands, RowLister
  <1> QED
    BY <1>1, <1>6, <1>7, <1>8, <1>9

LEMMA DbKept ==
  ASSUME TablesOK, UNCHANGED dbVars
  PROVE  TablesOK'
BY DEF TablesOK, dbVars, IsRow, Exists

LEMMA HistoryKept ==
  ASSUME HistoryOK, UNCHANGED <<dbVars, seen, steady>>, Loading' => Loading
  PROVE  HistoryOK'
BY DEF HistoryOK, dbVars, IsRow

LEMMA ExpandedWorker ==
  ASSUME WorkerOK, NEW new, Expands(new)
  PROVE  /\ todo' = new \o Tail(todo) /\ todo' \in Seq(Tasks)
         /\ pc' \in {"load", "rate"} /\ (pc' = "load" <=> todo' # <<>>)
         /\ \A i \in DOMAIN todo' : \/ \E j \in DOMAIN new : todo'[i] = new[j]
                                    \/ \E j \in DOMAIN todo : todo'[i] = todo[j]
  <1>1. todo \in Seq(Tasks) /\ todo # <<>> /\ new \in Seq(Tasks)
    BY DEF WorkerOK, Expands
  <1>2. todo' = new \o Tail(todo)
        /\ pc' = IF todo' = <<>> THEN "rate" ELSE "load"
    BY DEF Expands, Proceed
  <1>3. todo' \in Seq(Tasks)
    BY <1>1, <1>2, Prepended
  <1>4. ASSUME NEW i \in DOMAIN todo'
        PROVE  \/ \E j \in DOMAIN new : todo'[i] = new[j]
               \/ \E j \in DOMAIN todo : todo'[i] = todo[j]
    <2>1. CASE i <= Len(new)
      <3>1. i \in DOMAIN new
        BY <1>1, <1>2, <2>1, <1>4, Prepended
      <3>2. todo'[i] = new[i]
        BY <1>1, <1>2, <3>1, Prepended
      <3> QED
        BY <3>1, <3>2
    <2>2. CASE ~(i <= Len(new))
      <3> DEFINE j == i - Len(new) + 1
      <3>1. j \in DOMAIN todo /\ j > 1
        BY <1>1, <1>2, <2>2, <1>4, Prepended
      <3>2. Len(new) + j - 1 = i
        <4>1. Len(new) \in Nat /\ i \in Nat
          BY <1>1, <1>3, <1>4
        <4> QED
          BY <4>1
      <3> HIDE DEF j
      <3>3. todo'[Len(new) + j - 1] = todo[j]
        BY <1>1, <1>2, <3>1, Prepended
      <3> QED
        BY <3>1, <3>2, <3>3
    <2> QED
      BY <2>1, <2>2
  <1> QED
    BY <1>2, <1>3, <1>4

LEMMA RowTasksKept ==
  ASSUME WorkerOK, RowTasks, NEW new, Expands(new),
         \A i \in DOMAIN new : new[i].op = "row" => Listed(new[i])
  PROVE  RowTasks'
  <1>1. \A t : Listed(t)' <=> Listed(t)
    BY DEF Listed, Expands, Applies
  <1> QED
    BY <1>1, ExpandedWorker DEF RowTasks

LEMMA ExpandKeepsStale ==
  ASSUME StaleInv, NEW new, Expands(new), UNCHANGED entries,
         \A i \in DOMAIN new : new[i].op = "row" => Listed(new[i])
  PROVE  StaleInv'
  <1>1. TablesOK' /\ HistoryOK'
    BY DbKept, HistoryKept DEF StaleInv, LoadInv, Expands, Loading
  <1>2. WorkerOK'
    BY ExpandedWorker DEF StaleInv, LoadInv, WorkerOK
  <1>3. RowTasks'
    BY RowTasksKept DEF StaleInv, LoadInv
  <1>4. NothingStale'
    BY DEF StaleInv, NothingStale, Expands, Loading, Applies, Rule
  <1> QED
    BY <1>1, <1>2, <1>3, <1>4 DEF StaleInv, LoadInv

(* The query that brings a rule.                                           *)
LEMMA GetRowFacts ==
  ASSUME LoadInv, GetRow
  PROVE  LET t == Head(todo)
             x == <<t.parent, t.kind>>
         IN  /\ Expands(<<>>) /\ t.op = "row" /\ x \in Parents \X Kinds
             /\ RowOf(t.id) \in rows /\ RowOf(t.id).id = t.id
             /\ RowOf(t.id) \in seen
             /\ entries' = [entries EXCEPT ![x] = PutRule(@, Rule(RowOf(t.id)))]
             /\ DOMAIN entries = Parents \X Kinds
  <1> DEFINE t == Head(todo)
  <1>1. pc = "load" /\ t.op = "row" /\ Proceed(Tail(todo))
        /\ UNCHANGED <<dbVars, when, seen, steady>>
    BY DEF GetRow, turn, Task
  <1>2. t \in Tasks /\ todo # <<>> /\ todo \in Seq(Tasks)
    BY <1>1, HeadType DEF LoadInv, WorkerOK
  <1>3. <<>> \o Tail(todo) = Tail(todo) /\ <<>> \in Seq(Tasks)
    BY <1>2
  <1>4. \E r \in rows : r.id = t.id
    BY DEF GetRow, turn
  <1>5. RowOf(t.id) \in rows /\ RowOf(t.id).id = t.id
    BY <1>4 DEF RowOf
  <1>6. rows \subseteq seen
    BY <1>1 DEF LoadInv, HistoryOK, Loading
  <1>7. <<t.parent, t.kind>> \in Parents \X Kinds
    BY <1>1, <1>2, TaskTypes
  <1> QED
    BY <1>1, <1>3, <1>5, <1>6, <1>7 DEF GetRow, turn, Expands, LoadInv, WorkerOK

LEMMA GetRowKeepsStale ==
  ASSUME StaleInv, GetRow
  PROVE  StaleInv'
  <1> DEFINE t == Head(todo)
             x == <<t.parent, t.kind>>
             n == RowOf(t.id)
  <1>1. LoadInv /\ RowTasks /\ NothingStale
    BY DEF StaleInv
  <1>2. /\ Expands(<<>>) /\ t.op = "row" /\ x \in Parents \X Kinds
        /\ n.id = t.id /\ n \in seen
        /\ entries' = [entries EXCEPT ![x] = PutRule(@, Rule(n))]
        /\ DOMAIN entries = Parents \X Kinds
    BY <1>1, GetRowFacts
  <1>3. pc = "load" /\ UNCHANGED <<when, seen>>
    BY <1>2 DEF Expands
  <1>4. Listed(t)
    BY <1>1, <1>2, <1>3, HeadType DEF RowTasks, LoadInv
  <1>5. PICK q \in seen : /\ q.id = t.id /\ q.parent = t.parent /\ q.kind = t.kind
                          /\ Applies(q, when)
    BY <1>4 DEF Listed
  <1>6. n.parent = t.parent /\ n.kind = t.kind
    BY <1>1, <1>2, <1>5 DEF LoadInv, HistoryOK
  <1>7. TablesOK' /\ HistoryOK'
    BY <1>1, <1>2, DbKept, HistoryKept DEF LoadInv, Expands, Loading
  <1>8. WorkerOK'
    <2>1. DOMAIN entries' = Parents \X Kinds
          /\ entries' = [y \in Parents \X Kinds |-> entries'[y]]
      BY <1>2
    <2> QED
      BY <1>1, <1>2, <2>1, ExpandedWorker DEF LoadInv, WorkerOK
  <1>9. RowTasks'
    BY <1>1, <1>2, RowTasksKept DEF LoadInv
  <1>10. NothingStale'
    <2> SUFFICES ASSUME NEW y \in Parents \X Kinds, NEW rule \in entries'[y]
                 PROVE  \E r \in seen :
                          /\ <<r.parent, r.kind>> = y /\ Rule(r) = rule
                          /\ \E p \in seen : p.id = r.id /\ Applies(p, when)
      BY <1>3 DEF NothingStale, Applies, Rule
    <2>1. CASE rule \in entries[y]
      BY <1>1, <1>3, <2>1 DEF NothingStale, Loading
    <2>2. CASE rule \notin entries[y]
      <3>1. y = x /\ rule = Rule(n)
        BY <1>2, <2>2 DEF PutRule
      <3> QED
        BY <1>2, <1>5, <1>6, <3>1
    <2> QED
      BY <2>1, <2>2
  <1> QED
    BY <1>7, <1>8, <1>9, <1>10 DEF StaleInv, LoadInv

LEMMA ListServicesKeepsStale ==
  ASSUME StaleInv, ListServices
  PROVE  StaleInv'
  <1>1. TablesOK /\ WorkerOK
    BY DEF StaleInv, LoadInv
  <1>2. /\ Lister(todo', "service", {p \in Existing : ~IsField(p)})
        /\ Proceed(todo') /\ entries' = NothingLoaded
        /\ UNCHANGED dbVars /\ seen' = rows /\ steady' = rows
    BY <1>1, ServicesListed
  <1>3. TablesOK'
    BY <1>1, <1>2, DbKept
  <1>4. HistoryOK'
    BY <1>1, <1>2 DEF TablesOK, HistoryOK, dbVars, IsRow
  <1>5. WorkerOK'
    BY <1>2 DEF WorkerOK, Lister, Proceed, NothingLoaded
  <1>6. RowTasks'
    BY <1>2 DEF RowTasks, Lister
  <1>7. NothingStale'
    BY <1>2 DEF NothingStale, NothingLoaded
  <1> QED
    BY <1>3, <1>4, <1>5, <1>6, <1>7 DEF StaleInv, LoadInv

LEMMA RestKeepsStale ==
  ASSUME StaleInv, Ends
  PROVE  StaleInv'
  <1>1. /\ pc' = "idle" /\ todo' = <<>> /\ UNCHANGED <<dbVars, entries, seen, steady>>
    BY DEF Ends, LoadFails, Made, Process, ProcessFails, RateWithout, StaleInv,
       LoadInv, WorkerOK
  <1>2. TablesOK' /\ HistoryOK'
    BY <1>1, DbKept, HistoryKept DEF StaleInv, LoadInv, Loading
  <1>3. WorkerOK'
    BY <1>1 DEF StaleInv, LoadInv, WorkerOK
  <1>4. RowTasks' /\ NothingStale'
    BY <1>1 DEF RowTasks, NothingStale, Loading
  <1> QED
    BY <1>2, <1>3, <1>4 DEF StaleInv, LoadInv

(* What the API adds to the history of a load.                             *)
LEMMA ApiHistory ==
  ASSUME LoadInv, ApiStep
  PROVE  /\ LoadInv' /\ RowsChange /\ LiveChange
         /\ UNCHANGED workerVars /\ seen \subseteq seen' /\ steady' \subseteq steady
  <1>1. TablesOK /\ WorkerOK /\ HistoryOK
    BY DEF LoadInv
  <1>2. TablesOK' /\ RowsChange /\ LiveChange /\ Write
    BY <1>1, ApiChanges DEF Changes
  <1>3. UNCHANGED workerVars /\ seen \subseteq seen' /\ steady' \subseteq steady
    BY <1>2 DEF Write
  <1>4. WorkerOK'
    BY <1>1, <1>3 DEF WorkerOK, workerVars, turn
  <1>5. \A r : IsRow(r) => IsRow(r)'
    BY <1>1, <1>2 DEF IsRow, TablesOK, RowsChange
  <1>6. CASE pc = "idle"
    <2>1. UNCHANGED <<seen, steady, pc>>
      BY <1>2, <1>6 DEF Write, workerVars, turn
    <2>2. HistoryOK'
      BY <1>1, <1>5, <1>6, <2>1 DEF HistoryOK, Loading
    <2> QED
      BY <1>2, <1>3, <1>4, <2>2 DEF LoadInv
  <1>7. CASE pc # "idle"
    <2>1. seen' = seen \cup rows' /\ steady' = steady \cap rows' /\ UNCHANGED pc
      BY <1>2, <1>7 DEF Write, workerVars, turn
    <2>2. rows \subseteq seen
      BY <1>1, <1>7 DEF HistoryOK, Loading, WorkerOK
    <2>3. \A x \in rows' : \/ \A q \in seen : q.id # x.id
                           \/ \E r \in seen : /\ x.id = r.id /\ x.parent = r.parent
                                              /\ x.kind = r.kind
      <3>1. \A q \in seen : q.id # lastId + 1
        BY <1>1 DEF HistoryOK, IsRow, TablesOK
      <3> QED
        BY <1>2, <2>2, <3>1 DEF RowsChange
    <2>4. \A x \in rows' : IsRow(x)'
      BY <1>2 DEF TablesOK
    <2>5. \A x, y \in rows' : x.id = y.id => x = y
      BY <1>2 DEF TablesOK
    <2>6. \A r, q \in seen' : r.id = q.id => r.parent = q.parent /\ r.kind = q.kind
      BY <1>1, <2>1, <2>3, <2>5 DEF HistoryOK
    <2>7. HistoryOK'
      BY <1>1, <1>5, <2>1, <2>4, <2>6 DEF HistoryOK
    <2> QED
      BY <1>2, <1>3, <1>4, <2>7 DEF LoadInv
  <1> QED
    BY <1>6, <1>7

LEMMA ApiKeepsStale ==
  ASSUME StaleInv, ApiStep
  PROVE  StaleInv'
  <1>1. LoadInv' /\ UNCHANGED workerVars /\ seen \subseteq seen'
    BY ApiHistory DEF StaleInv
  <1>2. UNCHANGED <<pc, when, todo, entries>>
    BY <1>1 DEF workerVars, turn
  <1>3. RowTasks'
    BY <1>1, <1>2 DEF StaleInv, RowTasks, Listed, Applies
  <1>4. NothingStale'
    <2> SUFFICES ASSUME Loading, NEW y \in Parents \X Kinds, NEW rule \in entries[y]
                 PROVE  \E r \in seen' :
                          /\ <<r.parent, r.kind>> = y /\ Rule(r) = rule
                          /\ \E p \in seen' : p.id = r.id /\ Applies(p, when)
      BY <1>2 DEF NothingStale, Loading, Applies, Rule
    <2> QED
      BY <1>1 DEF StaleInv, NothingStale
  <1> QED
    BY <1>1, <1>3, <1>4 DEF StaleInv

(* The tables at the start: each row with an id of its own.                *)
LEMMA InitialRows ==
  ASSUME Init
  PROVE  TablesOK
  <1>1. PICK n \in 0..Budget : \E t \in Sorted(n) :
          /\ rows = {Row(i, t[i]) : i \in 1..n} /\ lastId = n + 1
          /\ live \in {[x \in Parents \cup Groups |-> id] :
                         id \in {n + 1} \cup IF n = 0 THEN {Absent} ELSE {}}
    BY DEF Init
  <1>2. PICK t \in Sorted(n) :
          /\ rows = {Row(i, t[i]) : i \in 1..n} /\ lastId = n + 1
          /\ live \in {[x \in Parents \cup Groups |-> id] :
                         id \in {n + 1} \cup IF n = 0 THEN {Absent} ELSE {}}
    BY <1>1
  <1>3. t \in [1..n -> Catalogue]
    BY DEF Sorted
  <1>4. n \in Nat
    BY HashMapRatingAssumption
  <1>5. \A i \in 1..n :
          LET r == Row(i, t[i])
          IN  /\ DOMAIN r = RowFields /\ r.id = i /\ r.kind \in Kinds
              /\ r.parent \in Parents /\ Valued(r)
    <2> SUFFICES ASSUME NEW i \in 1..n, NEW q \in Catalogue
                 PROVE  /\ DOMAIN Row(i, q) = RowFields /\ Row(i, q).id = i
                        /\ Row(i, q).kind \in Kinds /\ Row(i, q).parent \in Parents
                        /\ Valued(Row(i, q))
      BY <1>3
    <2>1. q.kind \in Kinds /\ q.parent \in Parents
      BY HashMapRatingAssumption
    <2> QED
      BY <2>1, CatalogueValues DEF Row, RowFields, Valued
  <1>6. \A r \in rows : \E i \in 1..n : r = Row(i, t[i])
    BY <1>2
  <1>7. /\ \A r \in rows : IsRow(r)
        /\ \A r, q \in rows : r.id = q.id => r = q
    <2> DEFINE R(i) == Row(i, t[i])
    <2>1. /\ \A i \in 1..n : /\ DOMAIN R(i) = RowFields /\ R(i).id = i
                            /\ R(i).kind \in Kinds /\ R(i).parent \in Parents
                            /\ Valued(R(i))
          /\ \A r \in rows : \E i \in 1..n : r = R(i)
      BY <1>5, <1>6
    <2>2. 1..n \subseteq 1..lastId
      BY <1>2, <1>4
    <2> HIDE DEF R
    <2> QED
      BY <2>1, <2>2 DEF IsRow
  <1>8. PICK id \in Nat : live = [x \in Parents \cup Groups |-> id]
    <2> DEFINE T == {n + 1} \cup IF n = 0 THEN {Absent} ELSE {}
    <2>1. T \subseteq Nat
      BY <1>4 DEF Absent
    <2> HIDE DEF T
    <2>2. \E i \in T : live = [x \in Parents \cup Groups |-> i]
      BY <1>2 DEF T
    <2> QED
      BY <2>1, <2>2
  <1>9. \A p, q \in Parents : Exists(p) => Exists(q)
    BY <1>8 DEF Exists
  <1>10. \A p \in FieldParents : Exists(p) => Exists(ServiceOf(p))
    BY <1>9, ParentShape
  <1>11. ASSUME NEW r \in rows
         PROVE  Exists(r.parent) /\ Exists(ServiceOf(r.parent))
    <2>1. n # 0
      BY <1>6
    <2>2. live = [x \in Parents \cup Groups |-> n + 1] /\ n + 1 # Absent
      BY <1>2, <1>4, <2>1 DEF Absent
    <2>3. r.parent \in Parents /\ ServiceOf(r.parent) \in Parents
      BY <1>7, ParentShape DEF IsRow
    <2> QED
      BY <2>2, <2>3 DEF Exists
  <1> QED
    BY <1>2, <1>4, <1>7, <1>8, <1>10, <1>11 DEF TablesOK

LEMMA StaleInit ==
  ASSUME Init
  PROVE  StaleInv
  <1>1. TablesOK
    BY InitialRows
  <1>2. WorkerOK /\ HistoryOK
    BY DEF Init, WorkerOK, HistoryOK, NothingLoaded, Loading
  <1>3. RowTasks /\ NothingStale
    BY DEF Init, RowTasks, NothingStale, Loading
  <1> QED
    BY <1>1, <1>2, <1>3 DEF StaleInv, LoadInv

(* The invariant behind NothingStale is inductive.                         *)
LEMMA StaleNext ==
  ASSUME StaleInv, [Next]_vars
  PROVE  StaleInv'
  <1>1. ASSUME GetService \/ ListFields \/ GetField \/ ListRows
        PROVE  StaleInv'
    <2>1. UNCHANGED entries /\ \E new : Expands(new) /\
            \A i \in DOMAIN new : new[i].op = "row" => Listed(new[i])
      BY <1>1, ExpandingSteps DEF StaleInv
    <2> QED
      BY <2>1, ExpandKeepsStale
  <1>2. ASSUME UNCHANGED vars
        PROVE  StaleInv'
    BY <1>2 DEF StaleInv, LoadInv, TablesOK, WorkerOK, HistoryOK, RowTasks,
       NothingStale, vars, dbVars, workerVars, turn, IsRow, Exists, Loading,
       Listed, Applies, Rule
  <1> QED
    BY <1>1, <1>2, ListServicesKeepsStale, GetRowKeepsStale, RestKeepsStale,
       ApiKeepsStale
       DEF Next, WorkerStep, Ends, LoadStep

(* A rule is used for a period only if its row was active for it at some    *)
(* time since the loading began, and as the row was at some such time.     *)
THEOREM NoStaleRules == Spec => []NothingStale
  <1>1. Init => StaleInv
    BY StaleInit
  <1>2. StaleInv /\ [Next]_vars => StaleInv'
    BY StaleNext
  <1>3. StaleInv => NothingStale
    BY DEF StaleInv
  <1> QED
    BY <1>1, <1>2, <1>3, PTL DEF Spec

-----------------------------------------------------------------------------
(***************************************************************************)
(* What each query does about a row that stays as it is: it hands on the   *)
(* task that leads to the row, and brings nothing after it that could take *)
(* its place wrongly.                                                      *)
(***************************************************************************)
(* The parent of r is still to be listed by t, or by what t leads to.      *)
Concerning(t, r) ==
  \/ t.op = "service" /\ t.parent = ServiceOf(r.parent)
  \/ /\ t.op = "fields" /\ t.parent = ServiceOf(r.parent)
     /\ r.parent \in FieldParents
  \/ t.op = "field" /\ t.parent = r.parent

Among(t, r) == t.parent = r.parent /\ t.kind = r.kind

OfTenant(id) == \E x \in seen : x.id = id /\ x.tenant = Tenant

(* Task t leads to reading r.                                              *)
Handles(t, r) ==
  \/ Concerning(t, r)
  \/ t.op = "rows" /\ Among(t, r) /\ t.tenant = r.tenant
  \/ t.op = "row" /\ Among(t, r) /\ t.id = r.id

(* Task t may lead to a rule that should not take the place of r's.        *)
Overrides(t, r) ==
  /\ r.tenant = Tenant
  /\ \/ Concerning(t, r)
     \/ t.op = "rows" /\ Among(t, r) /\ t.tenant = Global
     \/ t.op = "row" /\ Among(t, r) /\ ~OfTenant(t.id)

Pending(tasks, r) ==
  \E i \in DOMAIN tasks :
    /\ Handles(tasks[i], r)
    /\ \A j \in DOMAIN tasks : j > i => ~Overrides(tasks[j], r)

(* What NothingMissed says of r, and where its rule is from.               *)
Active(id) == \E x \in seen : x.id = id /\ Applies(x, when)

Loaded(r) ==
  \E rule \in entries[<<r.parent, r.kind>>], q \in seen :
    /\ rule.group = r.group /\ rule.key = r.key /\ rule = Rule(q)
    /\ Among(q, r) /\ Active(q.id)
    /\ r.tenant = Tenant => OfTenant(q.id)

Covered(r) ==
  \/ Pending(todo, r)
  \/ Loaded(r) /\ \A j \in DOMAIN todo : ~Overrides(todo[j], r)

AllCovered ==
  Loading => \A r \in steady : Applies(r, when) => Covered(r)

(* The queries about the parent of a steady row will find it.              *)
Anchored ==
  Loading => \A i \in DOMAIN todo, r \in steady :
    /\ todo[i].op # "row"
    /\ todo[i].parent = r.parent \/ todo[i].parent = ServiceOf(r.parent)
    => todo[i].id = live[todo[i].parent]

MissInv == StaleInv /\ Anchored /\ AllCovered

(* Putting new in the place of the first task loses nothing about r.       *)
Passes(new, r) ==
  /\ Handles(Head(todo), r) => Pending(new, r)
  /\ ~Overrides(Head(todo), r) => \A j \in DOMAIN new : ~Overrides(new[j], r)

(* A query that passes r on to its new tasks keeps r covered.              *)
LEMMA PassedOn ==
  ASSUME WorkerOK, NEW new, Expands(new), UNCHANGED entries,
         NEW r, Passes(new, r), Covered(r)
  PROVE  Covered(r)'
  <1>1. todo \in Seq(Tasks) /\ todo # <<>> /\ new \in Seq(Tasks)
    BY DEF WorkerOK, Expands
  <1>2. todo' = new \o Tail(todo) /\ UNCHANGED <<entries, seen, when>>
    BY DEF Expands, Proceed
  <1>3. 1 \in DOMAIN todo /\ Head(todo) = todo[1] /\ Len(new) \in Nat
        /\ DOMAIN todo \subseteq Nat /\ DOMAIN new = 1..Len(new)
    BY <1>1
  <1>4. \A t : Overrides(t, r)' <=> Overrides(t, r)
    BY <1>2 DEF Overrides, OfTenant, Concerning, Among
  <1>5. \A t : Handles(t, r)' <=> Handles(t, r)
    BY DEF Handles, Concerning, Among
  <1>6. Loaded(r)' <=> Loaded(r)
    BY <1>2 DEF Loaded, OfTenant, Active, Among, Applies, Rule
  <1>7. \A i \in DOMAIN new : i \in DOMAIN todo' /\ todo'[i] = new[i]
    BY <1>1, <1>2, Prepended
  <1>8. \A j \in DOMAIN todo : j > 1 =>
          Len(new) + j - 1 \in DOMAIN todo' /\ todo'[Len(new) + j - 1] = todo[j]
    BY <1>1, <1>2, Prepended
  <1>9. DOMAIN todo' \subseteq Nat
    <2>1. todo' \in Seq(Tasks)
      BY <1>1, <1>2, Prepended
    <2> QED
      BY <2>1
  <1>10. \A i \in DOMAIN todo' : i > Len(new) =>
           \E j \in DOMAIN todo : /\ j > 1 /\ i = Len(new) + j - 1
                                  /\ todo'[i] = todo[j]
    <2> SUFFICES ASSUME NEW i \in DOMAIN todo', i > Len(new)
                 PROVE  \E j \in DOMAIN todo : /\ j > 1 /\ i = Len(new) + j - 1
                                               /\ todo'[i] = todo[j]
      OBVIOUS
    <2> DEFINE j == i - Len(new) + 1
    <2>1. i \in Nat /\ Len(new) + j - 1 = i /\ ~(i <= Len(new))
      BY <1>3, <1>9
    <2>2. j \in DOMAIN todo /\ j > 1
      BY <1>1, <1>2, <2>1, Prepended
    <2> HIDE DEF j
    <2> QED
      BY <1>8, <2>1, <2>2
  <1>11. \A i \in DOMAIN todo' : i <= Len(new) => i \in DOMAIN new
    BY <1>1, <1>2, Prepended
  (* Where nothing after the first task overrides, nothing does after new. *)
  <1>12. ASSUME \A j \in DOMAIN todo : j > 1 => ~Overrides(todo[j], r)
         PROVE  \A i \in DOMAIN todo' : i > Len(new) => ~Overrides(todo'[i], r)
    BY <1>10, <1>12
  <1>13. CASE Pending(todo, r)
    <2>1. PICK k \in DOMAIN todo :
            /\ Handles(todo[k], r)
            /\ \A j \in DOMAIN todo : j > k => ~Overrides(todo[j], r)
      BY <1>13 DEF Pending
    <2>2. CASE k = 1
      <3>1. Pending(new, r)
        BY <1>3, <2>1, <2>2 DEF Passes
      <3>2. PICK i \in DOMAIN new :
              /\ Handles(new[i], r)
              /\ \A j \in DOMAIN new : j > i => ~Overrides(new[j], r)
        BY <3>1 DEF Pending
      <3>3. \A j \in DOMAIN todo' : j > i => ~Overrides(todo'[j], r)
        <4> SUFFICES ASSUME NEW j \in DOMAIN todo', j > i
                     PROVE  ~Overrides(todo'[j], r)
          OBVIOUS
        <4>1. CASE j <= Len(new)
          BY <1>7, <1>11, <3>2, <4>1
        <4>2. CASE j > Len(new)
          BY <1>12, <2>1, <2>2, <4>2
        <4> QED
          BY <1>3, <1>9, <4>1, <4>2
      <3>4. Handles(todo'[i], r) /\ i \in DOMAIN todo'
        BY <1>5, <1>7, <3>2
      <3> QED
        BY <1>4, <3>3, <3>4 DEF Covered, Pending
    <2>3. CASE k # 1
      <3> DEFINE i == Len(new) + k - 1
      <3>1. k > 1
        BY <1>1, <2>3
      <3>2. i \in DOMAIN todo' /\ Handles(todo'[i], r)
        <4>1. i \in DOMAIN todo' /\ todo'[i] = todo[k]
          BY <1>8, <3>1
        <4> QED
          BY <2>1, <4>1
      <3>3. \A j \in DOMAIN todo' : j > i => ~Overrides(todo'[j], r)
        <4> SUFFICES ASSUME NEW j \in DOMAIN todo', j > i
                     PROVE  ~Overrides(todo'[j], r)
          OBVIOUS
        <4>1. j > Len(new)
          <5>1. j \in Nat /\ k \in Nat
            BY <1>3, <1>9
          <5> QED
            BY <1>3, <3>1, <5>1
        <4>2. PICK n \in DOMAIN todo : /\ n > 1 /\ j = Len(new) + n - 1
                                       /\ todo'[j] = todo[n]
          BY <1>10, <4>1
        <4>3. n > k
          BY <1>3, <4>2
        <4> QED
          BY <2>1, <4>2, <4>3
      <3> HIDE DEF i
      <3> QED
        BY <1>4, <1>5, <3>2, <3>3 DEF Covered, Pending
    <2> QED
      BY <2>2, <2>3
  <1>14. CASE Loaded(r) /\ \A j \in DOMAIN todo : ~Overrides(todo[j], r)
    <2>1. \A j \in DOMAIN new : ~Overrides(new[j], r)
      BY <1>3, <1>14 DEF Passes
    <2>2. \A i \in DOMAIN todo' : i > Len(new) => ~Overrides(todo'[i], r)
      BY <1>12, <1>14
    <2>3. \A i \in DOMAIN todo' : ~Overrides(todo'[i], r)
      <3> SUFFICES ASSUME NEW i \in DOMAIN todo'
                   PROVE  ~Overrides(todo'[i], r)
        OBVIOUS
      <3>1. CASE i <= Len(new)
        BY <1>7, <1>11, <2>1, <3>1
      <3>2. CASE i > Len(new)
        BY <2>2, <3>2
      <3> QED
        BY <1>3, <1>9, <3>1, <3>2
    <2> QED
      BY <1>4, <1>6, <1>14, <2>3 DEF Covered
  <1> QED
    BY <1>13, <1>14 DEF Covered

(* The lists of a parent: what is to be kept comes last of its kind.       *)
LEMMA ListsPass ==
  ASSUME NEW t \in Tasks, NEW new \in Seq(Tasks),
         \A i \in 1..4 : i \in DOMAIN new /\ new[i] = Lists(t)[i],
         \A i \in DOMAIN new : i \in 1..4 \/ new[i].op = "fields",
         NEW r, r.parent = t.parent, r.kind \in Kinds, r.tenant \in {Tenant, Global},
         r.parent \in ServiceParents \/ DOMAIN new = 1..4
  PROVE  Pending(new, r)
  <1>1. t.parent \in Parents /\ t.id \in Nat
    BY TaskTypes
  <1>2. \A i \in 1..4 :
          /\ new[i].op = "rows" /\ new[i].parent = t.parent /\ new[i].id = t.id
          /\ new[i].kind = IF i <= 2 THEN "mappings" ELSE "thresholds"
          /\ new[i].tenant = IF i \in {1, 3} THEN Global ELSE Tenant
    BY <1>1, ListsTasks
  <1>3. \A i \in DOMAIN new : i \in 1..4 \/ ~Overrides(new[i], r)
    BY ParentShape DEF Overrides, Concerning
  <1>4. Tenant # Global
    BY HashMapRatingAssumption
  <1> DEFINE k == IF r.kind = "mappings" THEN IF r.tenant = Global THEN 1 ELSE 2
                                         ELSE IF r.tenant = Global THEN 3 ELSE 4
  <1>5. k \in 1..4 /\ Handles(new[k], r)
    BY <1>2, <1>4 DEF Handles, Among, Kinds
  <1>6. \A j \in 1..4 : j > k => ~Overrides(new[j], r)
    BY <1>2, <1>4 DEF Overrides, Among, Concerning, Kinds
  <1> HIDE DEF k
  <1> QED
    BY <1>3, <1>5, <1>6 DEF Pending

(* Each query passes every steady row on.                                  *)
LEMMA GetServicePasses ==
  ASSUME LoadInv, GetService
  PROVE  \E new :
           /\ Expands(new) /\ UNCHANGED entries
           /\ \A r : /\ r.parent \in Parents /\ r.kind \in Kinds
                     /\ r.tenant \in {Tenant, Global}
                     => Passes(new, r)
           /\ \A i \in DOMAIN new : /\ new[i].op # "row"
                                    /\ new[i].parent = Head(todo).parent
                                    /\ new[i].id = Head(todo).id
           /\ Head(todo).op # "row"
  <1> DEFINE t == Head(todo)
             f == [t EXCEPT !.op = "fields"]
             new == Lists(t) \o <<f>>
  <1>1. /\ pc = "load" /\ UNCHANGED <<dbVars, when, seen, steady, entries>>
        /\ t.op = "service"
    BY DEF GetService, turn, Task
  <1>2. t \in Tasks /\ todo \in Seq(Tasks) /\ todo # <<>>
    BY <1>1, HeadType DEF LoadInv, WorkerOK
  <1>3. t.parent \in Parents /\ t.id \in Nat /\ t.parent \in ServiceParents
    BY <1>1, <1>2, TaskTypes
  <1>4. f \in Tasks /\ f.op = "fields" /\ f.parent = t.parent /\ f.id = t.id
    BY <1>1, <1>2, TasksKept DEF Tasks
  <1>5. /\ Lists(t) \in Seq(Tasks) /\ DOMAIN Lists(t) = 1..4
        /\ \A i \in 1..4 : /\ Lists(t)[i].op = "rows" /\ Lists(t)[i].parent = t.parent
                           /\ Lists(t)[i].id = t.id
    BY <1>3, ListsTasks
  <1>6. Proceed(new \o Tail(todo))
    BY DEF GetService, turn
  <1> HIDE DEF f
  <1>7. /\ new \in Seq(Tasks) /\ DOMAIN new = 1..5
        /\ \A i \in 1..4 : i \in DOMAIN new /\ new[i] = Lists(t)[i]
        /\ new[5] = f
    BY <1>4, <1>5
  <1>8. Expands(new)
    BY <1>1, <1>6, <1>7 DEF Expands
  <1> HIDE DEF new, t
  <1>9. \A i \in DOMAIN new : /\ new[i].op # "row" /\ new[i].parent = t.parent
                              /\ new[i].id = t.id
                              /\ i \in 1..4 \/ new[i].op = "fields"
                              /\ new[i].op \in {"rows", "fields"}
    <2> SUFFICES ASSUME NEW i \in DOMAIN new
                 PROVE  /\ new[i].op # "row" /\ new[i].parent = t.parent
                        /\ new[i].id = t.id
                        /\ i \in 1..4 \/ new[i].op = "fields"
                        /\ new[i].op \in {"rows", "fields"}
      OBVIOUS
    <2>1. i \in 1..4 \/ i = 5
      BY <1>7
    <2> QED
      BY <1>4, <1>5, <1>7, <2>1
  <1>10. ASSUME NEW r, r.parent \in Parents, r.kind \in Kinds,
                r.tenant \in {Tenant, Global}
         PROVE  Passes(new, r)
    <2>1. ASSUME Handles(t, r)
          PROVE  Pending(new, r)
      <3>1. t.parent = ServiceOf(r.parent)
        BY <1>1, <2>1 DEF Handles, Concerning
      <3>2. CASE r.parent \in ServiceParents
        <4>1. r.parent = t.parent
          BY <3>1, <3>2, ParentShape
        <4> QED
          BY <1>2, <1>7, <1>9, <1>10, <3>2, <4>1, ListsPass
      <3>3. CASE r.parent \in FieldParents
        <4>1. Handles(new[5], r)
          BY <1>4, <1>7, <3>1, <3>3 DEF Handles, Concerning
        <4> QED
          BY <1>7, <4>1 DEF Pending
      <3> QED
        BY <1>10, <3>2, <3>3, ParentShape
    <2>2. ASSUME ~Overrides(t, r), NEW j \in DOMAIN new, Overrides(new[j], r)
          PROVE  FALSE
      <3>1. r.tenant = Tenant /\ t.parent # ServiceOf(r.parent)
        BY <1>1, <2>2 DEF Overrides, Concerning
      <3>2. new[j].parent = r.parent
        BY <1>9, <2>2, <3>1 DEF Overrides, Concerning, Among
      <3> QED
        BY <1>3, <1>9, <3>1, <3>2, ParentShape
    <2> QED
      BY <2>1, <2>2 DEF Passes, t
  <1> QED
    BY <1>1, <1>8, <1>9, <1>10 DEF t

LEMMA GetFieldPasses ==
  ASSUME LoadInv, GetField
  PROVE  \E new :
           /\ Expands(new) /\ UNCHANGED entries
           /\ \A r : /\ r.parent \in Parents /\ r.kind \in Kinds
                     /\ r.tenant \in {Tenant, Global}
                     => Passes(new, r)
           /\ \A i \in DOMAIN new : /\ new[i].op # "row"
                                    /\ new[i].parent = Head(todo).parent
                                    /\ new[i].id = Head(todo).id
           /\ Head(todo).op # "row"
  <1> DEFINE t == Head(todo)
             new == Lists(t)
  <1>1. /\ pc = "load" /\ UNCHANGED <<dbVars, when, seen, steady, entries>>
        /\ t.op = "field" /\ Proceed(new \o Tail(todo))
    BY DEF GetField, turn, Task
  <1>2. t \in Tasks
    BY <1>1, HeadType DEF LoadInv
  <1>3. t.parent \in Parents /\ t.id \in Nat
    BY <1>2, TaskTypes
  <1>4. /\ new \in Seq(Tasks) /\ DOMAIN new = 1..4
        /\ \A i \in 1..4 : /\ new[i].op = "rows" /\ new[i].parent = t.parent
                           /\ new[i].id = t.id
    BY <1>3, ListsTasks
  <1>5. Expands(new)
    BY <1>1, <1>4 DEF Expands
  <1> HIDE DEF t
  <1>6. ASSUME NEW r, r.parent \in Parents, r.kind \in Kinds,
               r.tenant \in {Tenant, Global}
        PROVE  Passes(new, r)
    <2>1. ASSUME Handles(t, r)
          PROVE  Pending(new, r)
      <3>1. r.parent = t.parent
        BY <1>1, <2>1 DEF Handles, Concerning
      <3>2. \A i \in 1..4 : i \in DOMAIN new /\ new[i] = Lists(t)[i]
        BY <1>4
      <3> HIDE DEF new
      <3>3. \A i \in DOMAIN new : i \in 1..4
        BY <1>4
      <3> QED
        BY <1>2, <1>4, <1>6, <3>1, <3>2, <3>3, ListsPass
    <2>2. ASSUME ~Overrides(t, r), NEW j \in DOMAIN new, Overrides(new[j], r)
          PROVE  FALSE
      <3>1. r.tenant = Tenant /\ t.parent # r.parent
        BY <1>1, <2>2 DEF Overrides, Concerning
      <3> QED
        BY <1>4, <2>2, <3>1 DEF Overrides, Concerning, Among
    <2> QED
      BY <2>1, <2>2 DEF Passes, t
  <1> QED
    BY <1>1, <1>4, <1>5, <1>6 DEF t

LEMMA ListFieldsPasses ==
  ASSUME LoadInv, Anchored, ListFields
  PROVE  \E new :
           /\ Expands(new) /\ UNCHANGED entries
           /\ \A r \in steady : Passes(new, r)
           /\ \A i \in DOMAIN new : new[i].id = live[new[i].parent]
  <1> DEFINE t == Head(todo)
             S == {p \in Existing : IsField(p) /\ Found(t) /\ p[1] = t.parent[1]}
  <1>1. /\ pc = "load" /\ UNCHANGED <<dbVars, when, seen, steady, entries>>
        /\ t.op = "fields"
    BY DEF ListFields, turn, Task
  <1>2. t \in Tasks /\ 1 \in DOMAIN todo /\ t = todo[1]
    BY <1>1, HeadType DEF LoadInv
  <1>3. t.parent \in ServiceParents
    BY <1>1, <1>2, TaskTypes
  <1>4. PICK new : Lister(new, "field", S) /\ Proceed(new \o Tail(todo))
    BY FieldsListed DEF LoadInv
  <1>5. Expands(new) /\ \A i \in DOMAIN new : new[i].id = live[new[i].parent]
    BY <1>1, <1>4 DEF Expands, Lister
  <1>6. ASSUME NEW r \in steady
        PROVE  Passes(new, r)
    <2>1. r \in rows /\ r.parent \in Parents /\ Exists(r.parent)
      BY <1>1 DEF LoadInv, HistoryOK, Loading, TablesOK, IsRow
    <2>2. ASSUME Handles(t, r)
          PROVE  Pending(new, r)
      <3>1. t.parent = ServiceOf(r.parent) /\ r.parent \in FieldParents
        BY <1>1, <2>2 DEF Handles, Concerning
      <3>2. Found(t)
        BY <1>1, <1>2, <3>1 DEF Anchored, Loading, Found
      <3>3. r.parent[1] = t.parent[1]
        BY <3>1 DEF ServiceOf
      <3>4. r.parent \in S
        BY <2>1, <3>1, <3>2, <3>3, ParentShape DEF Existing
      <3>5. PICK i \in DOMAIN new : new[i].parent = r.parent
        BY <1>4, <3>4 DEF Lister
      <3>6. \A j \in DOMAIN new :
              j # i => new[j].op = "field" /\ new[j].parent # r.parent
        BY <1>4, <3>5 DEF Lister
      <3>7. Handles(new[i], r)
        BY <1>4, <3>5 DEF Lister, Handles, Concerning
      <3>8. DOMAIN new \subseteq Nat
        BY <1>5 DEF Expands
      <3>9. \A j \in DOMAIN new : j > i => ~Overrides(new[j], r)
        BY <3>6, <3>8 DEF Overrides, Concerning
      <3> QED
        BY <3>7, <3>9 DEF Pending
    <2>3. ASSUME ~Overrides(t, r), NEW j \in DOMAIN new, Overrides(new[j], r)
          PROVE  FALSE
      <3>1. new[j].op = "field" /\ new[j].parent \in S
        BY <1>4 DEF Lister
      <3>2. r.tenant = Tenant /\ r.parent \in S
        BY <2>3, <3>1 DEF Overrides, Concerning
      <3>3. r.parent[1] = t.parent[1] /\ r.parent \in FieldParents
        BY <2>1, <3>2, ParentShape
      <3>4. t.parent = ServiceOf(r.parent)
        BY <1>3, <3>3, ParentShape DEF ServiceOf
      <3> QED
        BY <1>1, <2>3, <3>2, <3>3, <3>4 DEF Overrides, Concerning
    <2> QED
      BY <2>2, <2>3 DEF Passes
  <1> QED
    BY <1>1, <1>5, <1>6

LEMMA ListRowsPasses ==
  ASSUME LoadInv, Anchored, ListRows
  PROVE  \E new :
           /\ Expands(new) /\ UNCHANGED entries
           /\ \A r \in steady : Applies(r, when) => Passes(new, r)
           /\ \A i \in DOMAIN new : new[i].op = "row"
  <1> DEFINE t == Head(todo)
  <1>1. /\ pc = "load" /\ UNCHANGED <<dbVars, when, seen, steady, entries>>
        /\ t.op = "rows"
    BY DEF ListRows, turn, Task
  <1>2. t \in Tasks /\ 1 \in DOMAIN todo /\ t = todo[1]
    BY <1>1, HeadType DEF LoadInv
  <1>3. t.parent \in Parents /\ t.kind \in Kinds /\ t.tenant \in {Tenant, Global}
    BY <1>1, <1>2, TaskTypes
  <1>4. PICK new : RowLister(new, t) /\ Proceed(new \o Tail(todo))
    BY <1>3, RowsListed DEF LoadInv
  <1>5. Expands(new) /\ \A i \in DOMAIN new : new[i].op = "row"
    BY <1>1, <1>4 DEF Expands, RowLister
  <1>6. t.tenant = Tenant => \A j \in DOMAIN new : OfTenant(new[j].id)
    BY <1>1, <1>4 DEF RowLister, FoundBy, OfTenant, LoadInv, HistoryOK, Loading
  <1>7. ASSUME NEW r \in steady, Applies(r, when)
        PROVE  Passes(new, r)
    <2>1. ASSUME Handles(t, r)
          PROVE  Pending(new, r)
      <3>1. t.parent = r.parent /\ t.kind = r.kind /\ t.tenant = r.tenant
        BY <1>1, <2>1 DEF Handles, Concerning, Among
      <3>2. Found(t)
        BY <1>1, <1>2, <3>1 DEF Anchored, Loading, Found
      <3>3. r \in FoundBy(t)
        BY <1>1, <1>7, <3>1, <3>2 DEF FoundBy, LoadInv, HistoryOK, Loading
      <3>4. PICK i \in DOMAIN new : new[i].id = r.id
        BY <1>4, <3>3 DEF RowLister
      <3>5. Handles(new[i], r)
        BY <1>4, <3>1, <3>4 DEF RowLister, Handles, Among
      <3>6. \A j \in DOMAIN new : ~Overrides(new[j], r)
        BY <1>5, <1>6, <3>1 DEF Overrides, Concerning
      <3> QED
        BY <3>5, <3>6 DEF Pending
    <2>2. ASSUME ~Overrides(t, r), NEW j \in DOMAIN new, Overrides(new[j], r)
          PROVE  FALSE
      <3>1. r.tenant = Tenant /\ Among(new[j], r) /\ ~OfTenant(new[j].id)
        BY <1>5, <2>2 DEF Overrides, Concerning
      <3>2. Among(t, r)
        BY <1>4, <3>1 DEF RowLister, Among
      <3> QED
        BY <1>1, <1>3, <1>6, <2>2, <3>1, <3>2 DEF Overrides
    <2> QED
      BY <2>1, <2>2 DEF Passes
  <1> QED
    BY <1>1, <1>5, <1>7

-----------------------------------------------------------------------------
(***************************************************************************)
(* No rule is missed.                                                      *)
(***************************************************************************)
LEMMA AnchoredOn ==
  ASSUME WorkerOK, Anchored, NEW new, Expands(new),
         \A i \in DOMAIN new :
           \/ new[i].op = "row"
           \/ new[i].id = live[new[i].parent]
           \/ /\ Head(todo).op # "row" /\ new[i].parent = Head(todo).parent
              /\ new[i].id = Head(todo).id
  PROVE  Anchored'
  <1>1. pc = "load" /\ UNCHANGED <<live, steady>>
    BY DEF Expands, dbVars
  <1>2. 1 \in DOMAIN todo /\ Head(todo) = todo[1]
    BY <1>1, HeadType
  <1>3. \A i \in DOMAIN todo' : \/ \E j \in DOMAIN new : todo'[i] = new[j]
                                \/ \E j \in DOMAIN todo : todo'[i] = todo[j]
    BY ExpandedWorker
  <1>4. ASSUME NEW t, NEW r \in steady, t.op # "row",
               t.parent = r.parent \/ t.parent = ServiceOf(r.parent),
               \/ \E j \in DOMAIN new : t = new[j]
               \/ \E j \in DOMAIN todo : t = todo[j]
        PROVE  t.id = live[t.parent]
    BY <1>1, <1>2, <1>4 DEF Anchored, Loading
  <1> QED
    BY <1>1, <1>3, <1>4 DEF Anchored

(* A row that was there all the time is there, and so is its parent.       *)
LEMMA SteadyRows ==
  ASSUME LoadInv, Loading, NEW r \in steady
  PROVE  /\ r \in rows /\ r \in seen /\ r.parent \in Parents /\ r.kind \in Kinds
         /\ r.tenant \in {Tenant, Global} /\ Exists(r.parent)
         /\ Exists(ServiceOf(r.parent))
BY DEF LoadInv, HistoryOK, TablesOK, IsRow, Valued

(* Each action keeps the steady rows covered and their parents' ids.       *)
LEMMA ExpandKeepsMissing ==
  ASSUME LoadInv, Anchored, AllCovered,
         GetService \/ ListFields \/ GetField \/ ListRows
  PROVE  Anchored' /\ AllCovered'
  <1>1. pc = "load" /\ Loading
    BY DEF GetService, ListFields, GetField, ListRows, turn, Task, Loading
  <1>2. \A r \in steady : /\ r.parent \in Parents /\ r.kind \in Kinds
                          /\ r.tenant \in {Tenant, Global}
    BY <1>1, SteadyRows
  <1>3. \E new :
          /\ Expands(new) /\ UNCHANGED entries
          /\ \A r \in steady : Applies(r, when) => Passes(new, r)
          /\ \A i \in DOMAIN new :
               \/ new[i].op = "row"
               \/ new[i].id = live[new[i].parent]
               \/ /\ Head(todo).op # "row" /\ new[i].parent = Head(todo).parent
                  /\ new[i].id = Head(todo).id
    <2>1. CASE GetService
      BY <1>2, <2>1, GetServicePasses
    <2>2. CASE GetField
      BY <1>2, <2>2, GetFieldPasses
    <2>3. CASE ListFields
      BY <2>3, ListFieldsPasses
    <2>4. CASE ListRows
      BY <2>4, ListRowsPasses
    <2> QED
      BY <2>1, <2>2, <2>3, <2>4
  <1>4. PICK new :
          /\ Expands(new) /\ UNCHANGED entries
          /\ \A r \in steady : Applies(r, when) => Passes(new, r)
          /\ \A i \in DOMAIN new :
               \/ new[i].op = "row"
               \/ new[i].id = live[new[i].parent]
               \/ /\ Head(todo).op # "row" /\ new[i].parent = Head(todo).parent
                  /\ new[i].id = Head(todo).id
    BY <1>3
  <1>5. WorkerOK
    BY DEF LoadInv
  <1>6. Anchored'
    BY <1>4, <1>5, AnchoredOn
  <1>7. UNCHANGED <<steady, when>>
    BY <1>4 DEF Expands
  <1>8. ASSUME NEW r \in steady, Applies(r, when)
        PROVE  Covered(r)'
    <2>1. Covered(r) /\ Passes(new, r)
      BY <1>1, <1>4, <1>8 DEF AllCovered
    <2> QED
      BY <1>4, <1>5, <2>1, PassedOn
  <1> QED
    BY <1>6, <1>7, <1>8 DEF AllCovered, Applies

LEMMA GetRowKeepsMissing ==
  ASSUME StaleInv, Anchored, AllCovered, GetRow
  PROVE  Anchored' /\ AllCovered'
  <1> DEFINE t == Head(todo)
  <1>1. LoadInv /\ WorkerOK
    BY DEF StaleInv, LoadInv
  <1>2. PICK x \in Parents \X Kinds, n \in rows :
           /\ x = <<t.parent, t.kind>> /\ Expands(<<>>) /\ t.op = "row"
           /\ n.id = t.id /\ n \in seen
           /\ entries' = [entries EXCEPT ![x] = PutRule(@, Rule(n))]
           /\ DOMAIN entries = Parents \X Kinds
    BY <1>1, GetRowFacts
  <1>3. /\ pc = "load" /\ Loading /\ UNCHANGED <<when, seen, steady>>
        /\ todo' = <<>> \o Tail(todo)
    BY <1>2 DEF Expands, Proceed, Loading
  <1>4. Anchored'
    BY <1>1, <1>2, AnchoredOn
  <1>5. /\ todo \in Seq(Tasks) /\ todo # <<>> /\ t = todo[1] /\ 1 \in DOMAIN todo
    BY <1>1, <1>3, HeadType DEF WorkerOK
  <1>6. todo' = Tail(todo)
    BY <1>3, <1>5
  <1>7. /\ DOMAIN todo' \subseteq Nat /\ DOMAIN todo \subseteq Nat
        /\ \A i \in DOMAIN todo' : /\ i + 1 \in DOMAIN todo /\ i + 1 > 1
                                   /\ todo'[i] = todo[i + 1]
        /\ \A k \in DOMAIN todo : k # 1 => k - 1 \in DOMAIN todo'
    BY <1>5, <1>6
  <1>8. ASSUME NEW r \in steady, Applies(r, when)
        PROVE  Covered(r)'
    <2>1. /\ r \in rows /\ r \in seen /\ r.parent \in Parents /\ r.kind \in Kinds
      BY <1>1, <1>3, SteadyRows
    <2>2. \A y : Overrides(y, r)' <=> Overrides(y, r)
      BY <1>3 DEF Overrides, OfTenant, Concerning, Among
    <2>3. CASE Pending(todo, r)
      <3>1. PICK k \in DOMAIN todo :
              /\ Handles(todo[k], r)
              /\ \A j \in DOMAIN todo : j > k => ~Overrides(todo[j], r)
        BY <2>3 DEF Pending
      <3>2. CASE k = 1
        <4>1. t.id = r.id /\ t.parent = r.parent /\ t.kind = r.kind
          BY <1>2, <1>5, <3>1, <3>2 DEF Handles, Concerning, Among
        <4>2. n = r
          BY <1>1, <1>2, <2>1, <4>1 DEF LoadInv, TablesOK
        <4>3. x = <<r.parent, r.kind>>
          BY <1>2, <4>1
        <4>4. Rule(r) \in entries'[<<r.parent, r.kind>>]
          BY <1>2, <4>2, <4>3 DEF PutRule
        <4>5. Loaded(r)'
          <5>1. /\ Rule(r).group = r.group /\ Rule(r).key = r.key
                /\ Rule(r)' = Rule(r)
            BY DEF Rule
          <5>2. /\ r \in seen' /\ (r.tenant = Tenant => OfTenant(r.id)')
                /\ Among(r, r) /\ Active(r.id)'
            BY <1>3, <1>8, <2>1 DEF OfTenant, Active, Among, Applies
          <5> QED
            BY <4>4, <5>1, <5>2 DEF Loaded, Among
        <4>6. \A j \in DOMAIN todo' : ~Overrides(todo'[j], r)
          <5> SUFFICES ASSUME NEW j \in DOMAIN todo'
                       PROVE  ~Overrides(todo'[j], r)
            OBVIOUS
          <5>1. j + 1 \in DOMAIN todo /\ j + 1 > 1 /\ todo'[j] = todo[j + 1]
            BY <1>7
          <5> QED
            BY <3>1, <3>2, <5>1
        <4> QED
          BY <2>2, <4>5, <4>6 DEF Covered
      <3>3. CASE k # 1
        <4> DEFINE i == k - 1
        <4>1. i \in DOMAIN todo' /\ todo'[i] = todo[k] /\ i \in Nat /\ k = i + 1
          BY <1>7, <3>3
        <4> HIDE DEF i
        <4>2. \A j \in DOMAIN todo' : j > i => ~Overrides(todo'[j], r)
          BY <1>7, <3>1, <4>1
        <4>3. Handles(todo'[i], r)
          BY <3>1, <4>1
        <4> QED
          BY <2>2, <4>1, <4>2, <4>3 DEF Covered, Pending
      <3> QED
        BY <3>2, <3>3
    <2>4. CASE Loaded(r) /\ \A j \in DOMAIN todo : ~Overrides(todo[j], r)
      <3>1. \A j \in DOMAIN todo' : ~Overrides(todo'[j], r)
        BY <1>7, <2>4
      <3> DEFINE y == <<r.parent, r.kind>>
      <3>2. PICK rule \in entries[y], q \in seen :
              /\ rule.group = r.group /\ rule.key = r.key /\ rule = Rule(q)
              /\ Among(q, r) /\ Active(q.id)
              /\ r.tenant = Tenant => OfTenant(q.id)
        BY <2>4 DEF Loaded
      <3>3. y \in Parents \X Kinds
        BY <2>1
      <3>4. Loaded(r)'
        <4>1. CASE rule \in entries'[y]
          BY <1>3, <3>2, <4>1 DEF Loaded, OfTenant, Rule, Active, Among, Applies
        <4>2. CASE rule \notin entries'[y]
          <5>1. /\ y = x /\ Rule(n) \in entries'[y]
                /\ Rule(n).group = r.group /\ Rule(n).key = r.key
            BY <1>2, <3>2, <3>3, <4>2 DEF PutRule
          <5>2. Among(t, r)
            BY <1>2, <5>1 DEF Among
          <5>3. r.tenant = Tenant => OfTenant(n.id)
            BY <1>2, <1>5, <2>4, <5>2 DEF Overrides
          <5>4. n \in seen' /\ Rule(n)' = Rule(n) /\ (OfTenant(n.id) => OfTenant(n.id)')
            BY <1>2, <1>3 DEF Rule, OfTenant
          <5>5. Listed(t)
            BY <1>2, <1>5 DEF StaleInv, RowTasks
          <5>6. Among(n, r)
            BY <1>1, <1>2, <5>2, <5>5 DEF Listed, LoadInv, HistoryOK, Among
          <5>7. Active(n.id)'
            BY <1>2, <1>3, <5>5 DEF Listed, Active, Applies
          <5> QED
            BY <1>3, <5>1, <5>3, <5>4, <5>6, <5>7 DEF Loaded, Among
        <4> QED
          BY <4>1, <4>2
      <3> QED
        BY <2>2, <3>1, <3>4 DEF Covered
    <2> QED
      BY <1>3, <1>8, <2>3, <2>4 DEF AllCovered, Covered
  <1> QED
    BY <1>3, <1>4, <1>8 DEF AllCovered, Applies

LEMMA ListServicesKeepsMissing ==
  ASSUME LoadInv, ListServices
  PROVE  Anchored' /\ AllCovered'
  <1> DEFINE S == {p \in Existing : ~IsField(p)}
  <1>1. /\ Lister(todo', "service", S) /\ UNCHANGED live /\ steady' = rows
    BY ServicesListed DEF LoadInv, dbVars
  <1>2. Anchored'
    BY <1>1 DEF Anchored, Lister
  <1>3. ASSUME NEW r \in rows
        PROVE  Covered(r)'
    <2>1. r.parent \in Parents /\ Exists(ServiceOf(r.parent))
      BY DEF LoadInv, TablesOK, IsRow
    <2>2. ServiceOf(r.parent) \in S
      BY <2>1, ParentShape DEF Existing
    <2>3. PICK i \in DOMAIN todo' : todo'[i].parent = ServiceOf(r.parent)
      BY <1>1, <2>2 DEF Lister
    <2>4. \A j \in DOMAIN todo' : /\ todo'[j].op = "service"
                                  /\ j # i => todo'[j].parent # ServiceOf(r.parent)
      BY <1>1, <2>3 DEF Lister
    <2>5. DOMAIN todo' \subseteq Nat
      BY <1>1 DEF Lister
    <2>6. Handles(todo'[i], r)
      BY <2>3, <2>4 DEF Handles, Concerning
    <2>7. \A j \in DOMAIN todo' : j > i => ~Concerning(todo'[j], r)
      BY <2>4, <2>5 DEF Concerning
    <2> QED
      BY <2>4, <2>6, <2>7 DEF Covered, Pending, Overrides
  <1> QED
    BY <1>1, <1>2, <1>3 DEF AllCovered

LEMMA ApiKeepsMissing ==
  ASSUME LoadInv, Anchored, AllCovered, ApiStep
  PROVE  Anchored' /\ AllCovered'
  <1>1. /\ LoadInv' /\ LiveChange /\ seen \subseteq seen' /\ steady' \subseteq steady
        /\ UNCHANGED <<pc, when, todo, entries>>
    BY ApiHistory DEF workerVars, turn
  <1>2. Anchored'
    <2> SUFFICES ASSUME Loading, NEW i \in DOMAIN todo, NEW r \in steady',
                        todo[i].op # "row",
                        \/ todo[i].parent = r.parent
                        \/ todo[i].parent = ServiceOf(r.parent)
                 PROVE  todo[i].id = live'[todo[i].parent]
      BY <1>1 DEF Anchored, Loading
    <2>1. r \in steady /\ r \in rows'
      BY <1>1 DEF LoadInv, HistoryOK, Loading
    <2>2. todo[i].id = live[todo[i].parent]
      BY <2>1 DEF Anchored
    <2>3. /\ r.parent \in Parents /\ ServiceOf(r.parent) \in Parents
          /\ live[r.parent] # Absent /\ live[ServiceOf(r.parent)] # Absent
      BY <2>1, SteadyRows, ParentShape DEF Exists
    <2>4. live'[todo[i].parent] = live[todo[i].parent]
      BY <1>1, <2>1, <2>3 DEF LiveChange
    <2> QED
      BY <2>2, <2>4
  <1>3. ASSUME NEW r \in steady, Covered(r)
        PROVE  Covered(r)'
    <2>1. \A t : Overrides(t, r)' => Overrides(t, r)
      BY <1>1 DEF Overrides, OfTenant, Concerning, Among
    <2>2. \A id : (OfTenant(id) => OfTenant(id)') /\ (Active(id) => Active(id)')
      BY <1>1 DEF OfTenant, Active, Applies
    <2>3. Loaded(r) => Loaded(r)'
      BY <1>1, <2>2 DEF Loaded, Among, Rule
    <2> QED
      BY <1>1, <1>3, <2>1, <2>3 DEF Covered, Pending
  <1> QED
    BY <1>1, <1>2, <1>3 DEF AllCovered, Loading, Applies

(* The invariant behind NothingMissed is inductive.                        *)
LEMMA MissNext ==
  ASSUME MissInv, [Next]_vars
  PROVE  MissInv'
  <1>1. StaleInv' /\ LoadInv
    BY StaleNext DEF MissInv, StaleInv
  <1>2. CASE GetService \/ ListFields \/ GetField \/ ListRows
    BY <1>1, <1>2, ExpandKeepsMissing DEF MissInv
  <1>3. CASE GetRow
    BY <1>1, <1>3, GetRowKeepsMissing DEF MissInv
  <1>4. CASE ListServices
    BY <1>1, <1>4, ListServicesKeepsMissing DEF MissInv
  <1>5. CASE Ends
    <2>1. pc' = "idle"
      BY <1>5 DEF Ends, LoadFails, Made, Process, ProcessFails, RateWithout
    <2> QED
      BY <1>1, <2>1 DEF MissInv, Anchored, AllCovered, Loading
  <1>6. CASE ApiStep
    BY <1>1, <1>6, ApiKeepsMissing DEF MissInv
  <1>7. CASE UNCHANGED vars
    <2>1. UNCHANGED <<live, rows, pc, when, todo, entries, seen, steady>>
      BY <1>7 DEF vars, dbVars, workerVars, turn
    <2>2. Anchored'
      BY <2>1 DEF MissInv, Anchored, Loading
    <2>3. \A r : Covered(r)' <=> Covered(r)
      BY <2>1 DEF Covered, Pending, Loaded, Overrides, OfTenant, Handles,
         Concerning, Among, Active, Applies, Rule
    <2>4. AllCovered'
      BY <2>1, <2>3 DEF MissInv, AllCovered, Loading, Applies
    <2> QED
      BY <1>1, <2>2, <2>4 DEF MissInv
  <1> QED
    BY <1>2, <1>3, <1>4, <1>5, <1>6, <1>7 DEF Next, WorkerStep, Ends, LoadStep

(* A rule that was active at all times since the loading began is used,    *)
(* or another one of its group and key is, of the tenant if it was one of  *)
(* the tenant: whatever the order of the lists, and whatever the API does  *)
(* to other rules, to services, fields and groups between the queries.     *)
THEOREM NoRuleMissed == Spec => []NothingMissed
  <1>1. Init => MissInv
    BY StaleInit DEF MissInv, Anchored, AllCovered, Init, Loading
  <1>2. MissInv /\ [Next]_vars => MissInv'
    BY MissNext
  <1>3. MissInv => NothingMissed
    <2> SUFFICES ASSUME MissInv, pc = "rate", NEW r \in steady, Applies(r, when)
                 PROVE  Loaded(r)
      BY DEF NothingMissed, Loaded, OfTenant
    <2>1. todo = <<>> /\ Covered(r)
      BY DEF MissInv, StaleInv, LoadInv, WorkerOK, AllCovered, Loading
    <2> QED
      BY <2>1 DEF Covered, Pending
  <1> QED
    BY <1>1, <1>2, <1>3, PTL DEF Spec

-----------------------------------------------------------------------------
(***************************************************************************)
(* The fields are loaded once each, and before their rules.                *)
(***************************************************************************)
(* Task t leads to loading the field p.                                    *)
Leads(t, p) ==
  \/ t.op = "field" /\ t.parent = p
  \/ t.op \in {"service", "fields"} /\ t.parent = ServiceOf(p)

IsLoaded(p) == \E i \in DOMAIN fields : fields[i] = p

(* At most one task leads to p, none when it is loaded; its rows come      *)
(* after it.                                                               *)
FieldOnce(p) ==
  /\ \A i, j \in DOMAIN todo : Leads(todo[i], p) /\ Leads(todo[j], p) => i = j
  /\ \A i \in DOMAIN todo : Leads(todo[i], p) => ~IsLoaded(p)
  /\ \A i \in DOMAIN todo :
       todo[i].op \in {"rows", "row"} /\ todo[i].parent = p => IsLoaded(p)
  /\ \A kind \in Kinds : entries[<<p, kind>>] # {} => IsLoaded(p)

FieldsOK ==
  /\ fields \in Seq(FieldParents)
  /\ \A i, j \in DOMAIN fields : fields[i] = fields[j] => i = j
  /\ \A p \in FieldParents : FieldOnce(p)

(* Of one group and key there is one rule.                                 *)
OneEach ==
  \A x \in Parents \X Kinds : \A a, b \in entries[x] :
    a.group = b.group /\ a.key = b.key => a = b

PriceInv == MissInv /\ FieldsOK /\ OneEach

(* Where a task is after the first one has been replaced.                  *)
LEMMA PlaceOfTask ==
  ASSUME NEW S, NEW a \in Seq(S), NEW t \in Seq(S), t # <<>>,
         NEW i \in DOMAIN (a \o Tail(t))
  PROVE  /\ i \in Nat
         /\ IF i <= Len(a) THEN i \in DOMAIN a /\ (a \o Tail(t))[i] = a[i]
            ELSE /\ i - Len(a) + 1 \in DOMAIN t /\ i - Len(a) + 1 # 1
                 /\ (a \o Tail(t))[i] = t[i - Len(a) + 1]
  <1>1. Tail(t) \in Seq(S) /\ Len(Tail(t)) = Len(t) - 1
        /\ \A k \in 1..Len(Tail(t)) : Tail(t)[k] = t[k + 1]
    OBVIOUS
  <1>2. /\ a \o Tail(t) \in Seq(S) /\ Len(a \o Tail(t)) = Len(a) + Len(t) - 1
        /\ \A k \in 1..(Len(a) + Len(t) - 1) :
             (a \o Tail(t))[k] = IF k <= Len(a) THEN a[k] ELSE Tail(t)[k - Len(a)]
    BY <1>1
  <1>3. DOMAIN (a \o Tail(t)) = 1..(Len(a) + Len(t) - 1) /\ DOMAIN a = 1..Len(a)
        /\ DOMAIN t = 1..Len(t) /\ Len(a) \in Nat /\ Len(t) \in Nat
    BY <1>2
  <1> QED
    BY <1>1, <1>2, <1>3

(* What may take the place of the first task.                              *)
LEMMA FieldOnceKept ==
  ASSUME WorkerOK, NEW new, Expands(new), NEW p \in FieldParents, FieldOnce(p),
         \A i, j \in DOMAIN new : Leads(new[i], p) /\ Leads(new[j], p) => i = j,
         \A i \in DOMAIN new : Leads(new[i], p) => Leads(Head(todo), p) /\ ~IsLoaded(p)',
         \A i \in DOMAIN new :
           new[i].op \in {"rows", "row"} /\ new[i].parent = p => IsLoaded(p)',
         IsLoaded(p) => IsLoaded(p)',
         IsLoaded(p)' => IsLoaded(p) \/ Leads(Head(todo), p),
         \A kind \in Kinds : entries'[<<p, kind>>] # {} =>
           IsLoaded(p)' \/ entries[<<p, kind>>] # {}
  PROVE  FieldOnce(p)'
  <1>1. /\ todo \in Seq(Tasks) /\ todo # <<>> /\ new \in Seq(Tasks)
        /\ 1 \in DOMAIN todo /\ Head(todo) = todo[1]
    BY HeadType DEF WorkerOK, Expands
  <1>2. todo' = new \o Tail(todo)
    BY ExpandedWorker
  <1>3. /\ DOMAIN todo' \subseteq Nat /\ Len(new) \in Nat /\ DOMAIN todo \subseteq Nat
        /\ DOMAIN new = 1..Len(new)
    BY <1>1, ExpandedWorker
  <1> DEFINE at(i) == i - Len(new) + 1
  <1>4. ASSUME NEW i \in DOMAIN todo'
        PROVE  \/ i <= Len(new) /\ i \in DOMAIN new /\ todo'[i] = new[i]
               \/ /\ i > Len(new) /\ at(i) \in DOMAIN todo /\ at(i) # 1
                  /\ todo'[i] = todo[at(i)]
    <2>1. i \in DOMAIN (new \o Tail(todo))
      BY <1>2, <1>4
    <2>2. /\ i \in Nat
          /\ IF i <= Len(new) THEN i \in DOMAIN new /\ todo'[i] = new[i]
             ELSE at(i) \in DOMAIN todo /\ at(i) # 1 /\ todo'[i] = todo[at(i)]
      BY <1>1, <1>2, <2>1, PlaceOfTask
    <2> QED
      BY <1>3, <2>2
  <1>5. \A i, j \in DOMAIN todo' : at(i) = at(j) => i = j
    BY <1>3
  <1> HIDE DEF at
  <1>6. ASSUME NEW i \in DOMAIN todo', Leads(todo'[i], p), i > Len(new)
        PROVE  ~Leads(Head(todo), p) /\ ~IsLoaded(p)
    <2>1. at(i) \in DOMAIN todo /\ at(i) # 1 /\ Leads(todo[at(i)], p)
      BY <1>3, <1>4, <1>6
    <2> QED
      BY <1>1, <2>1 DEF FieldOnce
  <1>7. ASSUME NEW i \in DOMAIN todo', Leads(todo'[i], p), i <= Len(new)
        PROVE  i \in DOMAIN new /\ Leads(new[i], p) /\ Leads(Head(todo), p) /\ ~IsLoaded(p)'
    <2>1. i \in DOMAIN new /\ todo'[i] = new[i]
      BY <1>3, <1>4, <1>7
    <2> QED
      BY <1>7, <2>1
  <1>8. ASSUME NEW i \in DOMAIN todo', NEW j \in DOMAIN todo',
               Leads(todo'[i], p), Leads(todo'[j], p)
        PROVE  i = j
    <2>1. CASE i <= Len(new) /\ j <= Len(new)
      BY <1>7, <1>8, <2>1
    <2>2. CASE i > Len(new) /\ j > Len(new)
      <3>1. /\ at(i) \in DOMAIN todo /\ Leads(todo[at(i)], p)
            /\ at(j) \in DOMAIN todo /\ Leads(todo[at(j)], p)
        BY <1>3, <1>4, <1>8, <2>2
      <3>2. at(i) = at(j)
        BY <3>1 DEF FieldOnce
      <3> QED
        BY <1>5, <3>2
    <2>3. ~(i <= Len(new) /\ j > Len(new)) /\ ~(j <= Len(new) /\ i > Len(new))
      BY <1>6, <1>7, <1>8
    <2> QED
      BY <1>3, <2>1, <2>2, <2>3
  <1>9. \A i \in DOMAIN todo' : Leads(todo'[i], p) => ~IsLoaded(p)'
    BY <1>3, <1>6, <1>7
  <1>10. \A i \in DOMAIN todo' :
           todo'[i].op \in {"rows", "row"} /\ todo'[i].parent = p => IsLoaded(p)'
    BY <1>3, <1>4 DEF FieldOnce
  <1>11. \A kind \in Kinds : entries'[<<p, kind>>] # {} => IsLoaded(p)'
    BY DEF FieldOnce
  <1>12. \A t : Leads(t, p)' <=> Leads(t, p)
    BY DEF Leads, ServiceOf
  <1> QED
    BY <1>8, <1>9, <1>10, <1>11, <1>12 DEF FieldOnce

(* Fields that stay as they are.                                           *)
LEMMA FieldsKept ==
  ASSUME WorkerOK, FieldsOK, NEW new, Expands(new), UNCHANGED fields,
         \A p \in FieldParents :
           \A i, j \in DOMAIN new : Leads(new[i], p) /\ Leads(new[j], p) => i = j,
         \A p \in FieldParents :
           \A i \in DOMAIN new : Leads(new[i], p) => Leads(Head(todo), p),
         \A p \in FieldParents : \A i \in DOMAIN new :
           new[i].op \in {"rows", "row"} /\ new[i].parent = p => IsLoaded(p),
         \A p \in FieldParents, kind \in Kinds :
           entries'[<<p, kind>>] # {} => IsLoaded(p) \/ entries[<<p, kind>>] # {}
  PROVE  FieldsOK'
  <1>1. \A p : IsLoaded(p)' <=> IsLoaded(p)
    BY DEF IsLoaded
  <1>2. 1 \in DOMAIN todo /\ Head(todo) = todo[1]
    BY HeadType DEF WorkerOK, Expands
  <1>3. ASSUME NEW p \in FieldParents
        PROVE  FieldOnce(p)'
    <2>1. FieldOnce(p)
      BY DEF FieldsOK
    <2>2. \A i \in DOMAIN new :
            Leads(new[i], p) => Leads(Head(todo), p) /\ ~IsLoaded(p)'
      BY <1>1, <1>2, <2>1 DEF FieldOnce
    <2> QED
      BY <1>1, <2>1, <2>2, FieldOnceKept
  <1>4. /\ fields' \in Seq(FieldParents)
        /\ \A i, j \in DOMAIN fields' : fields'[i] = fields'[j] => i = j
    BY DEF FieldsOK
  <1> QED
    BY <1>3, <1>4 DEF FieldsOK, FieldParents

(* Each step of the loading keeps FieldsOK: a service that is read leads   *)
(* to its fields, once.                                                    *)
LEMMA GetServiceFields ==
  ASSUME LoadInv, FieldsOK, GetService
  PROVE  FieldsOK'
  <1> DEFINE t == Head(todo)
             f == [t EXCEPT !.op = "fields"]
             new == Lists(t) \o <<f>>
  <1>1. /\ pc = "load" /\ t.op = "service" /\ WorkerOK
        /\ UNCHANGED <<dbVars, when, fields, entries, seen, steady>>
    BY DEF GetService, turn, Task, LoadInv
  <1>2. t \in Tasks /\ t.parent \in ServiceParents /\ t.parent \in Parents /\ t.id \in Nat
    BY <1>1, HeadType, TaskTypes
  <1>3. f \in Tasks /\ f.op = "fields" /\ f.parent = t.parent
    BY <1>1, <1>2, TasksKept DEF Tasks
  <1>4. /\ Lists(t) \in Seq(Tasks) /\ DOMAIN Lists(t) = 1..4
        /\ \A i \in 1..4 : Lists(t)[i].op = "rows" /\ Lists(t)[i].parent = t.parent
    BY <1>2, ListsTasks
  <1>5. Proceed(new \o Tail(todo))
    <2>1. Tail(todo) \in Seq(Tasks)
      BY <1>1, HeadType DEF WorkerOK
    <2>2. Proceed(Lists(t) \o <<f>> \o Tail(todo))
      BY DEF GetService, turn
    <2> QED
      BY <1>4, <2>1, <2>2
  <1> HIDE DEF f
  <1>6. /\ new \in Seq(Tasks) /\ DOMAIN new = 1..5
        /\ \A i \in 1..5 : new[i] = IF i = 5 THEN f ELSE Lists(t)[i]
    BY <1>3, <1>4
  <1> HIDE DEF new, t
  <1>7. Expands(new)
    BY <1>1, <1>5, <1>6 DEF Expands
  <1>8. \A p \in FieldParents : p \notin ServiceParents
    BY ParentShape
  <1>9. \A i \in DOMAIN new : /\ new[i].parent = t.parent
                              /\ new[i].op = IF i = 5 THEN "fields" ELSE "rows"
    BY <1>3, <1>4, <1>6
  <1>10. \A p \in FieldParents :
           \A i \in DOMAIN new : Leads(new[i], p) => i = 5 /\ Leads(t, p)
    BY <1>1, <1>9 DEF Leads
  <1>11. \A p \in FieldParents : \A i \in DOMAIN new : new[i].parent # p
    BY <1>2, <1>8, <1>9
  <1> QED
    BY <1>1, <1>7, <1>10, <1>11, FieldsKept DEF t

(* Its fields are listed once each.                                        *)
LEMMA ListFieldsFields ==
  ASSUME LoadInv, FieldsOK, ListFields
  PROVE  FieldsOK'
  <1> DEFINE t == Head(todo)
             S == {p \in Existing : IsField(p) /\ Found(t) /\ p[1] = t.parent[1]}
  <1>1. /\ pc = "load" /\ t.op = "fields" /\ WorkerOK /\ TablesOK
        /\ UNCHANGED <<dbVars, when, fields, entries, seen, steady>>
    BY DEF ListFields, turn, Task, LoadInv
  <1>2. t.parent \in ServiceParents
    BY <1>1, HeadType, TaskTypes
  <1>3. PICK new : Lister(new, "field", S) /\ Proceed(new \o Tail(todo))
    BY <1>1, FieldsListed
  <1>4. Expands(new)
    BY <1>1, <1>3 DEF Expands, Lister
  <1>5. \A p \in S : t.parent = ServiceOf(p)
    BY <1>2, ParentShape DEF ServiceOf, Existing, ServiceParents
  <1>6. \A i \in DOMAIN new : new[i].op = "field" /\ t.parent = ServiceOf(new[i].parent)
    BY <1>3, <1>5 DEF Lister
  <1>7. \A p \in FieldParents : \A i \in DOMAIN new :
          Leads(new[i], p) => new[i].parent = p /\ Leads(t, p)
    BY <1>1, <1>6 DEF Leads
  <1>8. \A p \in FieldParents :
          \A i, j \in DOMAIN new : Leads(new[i], p) /\ Leads(new[j], p) => i = j
    BY <1>3, <1>7 DEF Lister
  <1> HIDE DEF S, t
  <1> QED
    BY <1>1, <1>4, <1>6, <1>7, <1>8, FieldsKept DEF t

(* Listing and reading rows leads to no field.                             *)
LEMMA ListRowsFields ==
  ASSUME LoadInv, FieldsOK, ListRows
  PROVE  FieldsOK'
  <1> DEFINE t == Head(todo)
  <1>1. /\ pc = "load" /\ t.op = "rows" /\ WorkerOK /\ TablesOK
        /\ UNCHANGED <<dbVars, when, fields, entries, seen, steady>>
    BY DEF ListRows, turn, Task, LoadInv
  <1>2. t.parent \in Parents /\ t.kind \in Kinds /\ 1 \in DOMAIN todo /\ t = todo[1]
    BY <1>1, HeadType, TaskTypes
  <1>3. PICK new : RowLister(new, t) /\ Proceed(new \o Tail(todo))
    BY <1>1, <1>2, RowsListed
  <1>4. Expands(new)
    BY <1>1, <1>3 DEF Expands, RowLister
  <1>5. \A i \in DOMAIN new : new[i].op = "row" /\ new[i].parent = t.parent
    BY <1>3 DEF RowLister
  <1>6. \A p \in FieldParents : t.parent = p => IsLoaded(p)
    BY <1>1, <1>2 DEF FieldsOK, FieldOnce
  <1>7. \A p \in FieldParents : \A i \in DOMAIN new : ~Leads(new[i], p)
    BY <1>5 DEF Leads
  <1> HIDE DEF t
  <1> QED
    BY <1>1, <1>4, <1>5, <1>6, <1>7, FieldsKept

LEMMA GetRowFields ==
  ASSUME LoadInv, FieldsOK, GetRow
  PROVE  FieldsOK'
  <1> DEFINE t == Head(todo)
             x == <<t.parent, t.kind>>
             n == RowOf(t.id)
  <1>1. /\ Expands(<<>>) /\ t.op = "row" /\ x \in Parents \X Kinds
        /\ entries' = [entries EXCEPT ![x] = PutRule(@, Rule(n))]
        /\ DOMAIN entries = Parents \X Kinds
    BY GetRowFacts
  <1>2. WorkerOK /\ pc = "load" /\ UNCHANGED fields
    BY <1>1 DEF LoadInv, GetRow, turn, Expands
  <1>3. 1 \in DOMAIN todo /\ t = todo[1]
    BY <1>2, HeadType
  <1>4. ASSUME NEW p \in FieldParents, NEW kind \in Kinds, entries'[<<p, kind>>] # {}
        PROVE  IsLoaded(p) \/ entries[<<p, kind>>] # {}
    <2>1. p \in Parents
      BY ParentShape
    <2>2. CASE <<p, kind>> = x
      <3>1. t.parent = p
        BY <2>2
      <3> QED
        BY <1>1, <1>3, <3>1 DEF FieldsOK, FieldOnce
    <2>3. CASE <<p, kind>> # x
      <3>1. <<p, kind>> \in Parents \X Kinds
        BY <2>1
      <3> HIDE DEF x
      <3> QED
        BY <1>1, <1>4, <2>3, <3>1
    <2> QED
      BY <2>2, <2>3
  <1> HIDE DEF x, n, t
  <1>5. DOMAIN <<>> = {}
    OBVIOUS
  <1> QED
    BY <1>1, <1>2, <1>4, <1>5, FieldsKept

(* A field that is read is appended, and its rows come after that.         *)
LEMMA GetFieldFields ==
  ASSUME LoadInv, FieldsOK, GetField
  PROVE  FieldsOK'
  <1> DEFINE t == Head(todo)
             q == t.parent
             new == Lists(t)
  <1>1. /\ pc = "load" /\ t.op = "field" /\ WorkerOK
        /\ UNCHANGED <<dbVars, when, entries, seen, steady>>
        /\ fields' = Append(fields, q) /\ Proceed(new \o Tail(todo))
    BY DEF GetField, turn, Task, LoadInv
  <1>2. q \in FieldParents /\ q \in Parents /\ t.id \in Nat
    BY <1>1, HeadType, TaskTypes
  <1>3. /\ new \in Seq(Tasks) /\ DOMAIN new = 1..4
        /\ \A i \in 1..4 : new[i].op = "rows" /\ new[i].parent = q
    BY <1>2, ListsTasks
  <1> HIDE DEF new
  <1>4. Expands(new)
    BY <1>1, <1>3 DEF Expands
  <1>5. 1 \in DOMAIN todo /\ t = todo[1] /\ Leads(t, q)
    BY <1>1, HeadType DEF Leads
  <1>6. ~IsLoaded(q)
    BY <1>2, <1>5 DEF FieldsOK, FieldOnce
  <1> HIDE DEF t, q
  <1>7. fields \in Seq(FieldParents)
    BY DEF FieldsOK
  <1>8. /\ fields' \in Seq(FieldParents) /\ DOMAIN fields' = DOMAIN fields \cup {Len(fields) + 1}
        /\ \A i \in DOMAIN fields : fields'[i] = fields[i]
        /\ fields'[Len(fields) + 1] = q
    BY <1>1, <1>2, <1>7
  <1>9. \A p : IsLoaded(p)' <=> IsLoaded(p) \/ p = q
    BY <1>8 DEF IsLoaded
  <1>10. \A i, j \in DOMAIN fields' : fields'[i] = fields'[j] => i = j
    BY <1>6, <1>8 DEF FieldsOK, IsLoaded
  <1>11. ASSUME NEW p \in FieldParents
         PROVE  FieldOnce(p)'
    <2>1. FieldOnce(p)
      BY DEF FieldsOK
    <2>2. \A i \in DOMAIN new : ~Leads(new[i], p)
      BY <1>3 DEF Leads
    <2>3. IsLoaded(p)' => IsLoaded(p) \/ Leads(t, p)
      BY <1>5, <1>9
    <2>4. \A i \in DOMAIN new :
            new[i].op \in {"rows", "row"} /\ new[i].parent = p => IsLoaded(p)'
      BY <1>3, <1>9
    <2> QED
      BY <1>1, <1>4, <1>9, <2>1, <2>2, <2>3, <2>4, FieldOnceKept DEF t
  <1> QED
    BY <1>8, <1>10, <1>11 DEF FieldsOK, FieldParents

(* A new loading forgets the fields of the last.                           *)
LEMMA ListServicesFields ==
  ASSUME LoadInv, ListServices
  PROVE  FieldsOK'
  <1> DEFINE S == {p \in Existing : ~IsField(p)}
  <1>1. /\ Lister(todo', "service", S) /\ entries' = NothingLoaded
        /\ fields' = <<>>
    BY ServicesListed DEF LoadInv, ListServices, StartLoad, turn
  <1>2. ASSUME NEW p \in FieldParents
        PROVE  FieldOnce(p)'
    <2>1. ~IsLoaded(p)'
      BY <1>1 DEF IsLoaded
    <2>2. p \in Parents
      BY ParentShape
    <2>3. \A kind \in Kinds : entries'[<<p, kind>>] = {}
      BY <1>1, <2>2 DEF NothingLoaded
    <2>4. \A i \in DOMAIN todo' : todo'[i].op = "service"
      BY <1>1 DEF Lister
    <2>5. \A i, j \in DOMAIN todo' : Leads(todo'[i], p) /\ Leads(todo'[j], p) => i = j
      BY <1>1, <2>4 DEF Lister, Leads
    <2>6. \A t : Leads(t, p)' <=> Leads(t, p)
      BY DEF Leads, ServiceOf
    <2> QED
      BY <2>1, <2>3, <2>4, <2>5, <2>6 DEF FieldOnce
  <1> QED
    BY <1>1, <1>2 DEF FieldsOK, FieldParents

(* Putting a rule removes the one of its group and key.                    *)
LEMMA OneEachKept ==
  ASSUME LoadInv, OneEach, [Next]_vars
  PROVE  OneEach'
  <1>1. CASE UNCHANGED entries
    BY <1>1 DEF OneEach
  <1>2. CASE ListServices
    BY <1>2 DEF OneEach, ListServices, StartLoad, turn, NothingLoaded
  <1>3. CASE GetRow
    <2> DEFINE t == Head(todo)
               x == <<t.parent, t.kind>>
               n == Rule(RowOf(t.id))
    <2>1. entries' = [entries EXCEPT ![x] = PutRule(@, n)]
      BY <1>3 DEF GetRow, turn
    <2> HIDE DEF x, n
    <2> SUFFICES ASSUME NEW y \in Parents \X Kinds, NEW a \in entries'[y],
                        NEW b \in entries'[y], a.group = b.group, a.key = b.key
                 PROVE  a = b
      BY DEF OneEach
    <2>2. DOMAIN entries = Parents \X Kinds
      BY DEF LoadInv, WorkerOK
    <2>3. entries'[y] = IF y = x THEN PutRule(entries[y], n) ELSE entries[y]
      BY <2>1, <2>2
    <2> QED
      BY <2>3 DEF OneEach, PutRule
  <1>4. Ends \/ ApiStep \/ UNCHANGED vars \/
        GetService \/ ListFields \/ GetField \/ ListRows => UNCHANGED entries
    <2>1. ApiStep => UNCHANGED entries
      BY ApiHistory DEF workerVars, turn
    <2> QED
      BY <2>1 DEF Ends, LoadFails, Made, Process, ProcessFails, RateWithout,
         vars, workerVars, turn, GetService, ListFields, GetField, ListRows
  <1> QED
    BY <1>1, <1>2, <1>3, <1>4 DEF Next, WorkerStep, Ends, LoadStep

(* What does not touch the fields, nor adds tasks.                         *)
LEMMA FieldsSame ==
  ASSUME FieldsOK, UNCHANGED <<fields, entries>>, todo' = todo \/ todo' = <<>>
  PROVE  FieldsOK'
  <1>1. \A p : IsLoaded(p)' <=> IsLoaded(p)
    BY DEF IsLoaded
  <1>2. \A t, p : Leads(t, p)' <=> Leads(t, p)
    BY DEF Leads, ServiceOf
  <1>3. ASSUME NEW p \in FieldParents
        PROVE  FieldOnce(p)'
    BY <1>1, <1>2 DEF FieldsOK, FieldOnce
  <1>4. /\ fields' \in Seq(FieldParents)
        /\ \A i, j \in DOMAIN fields' : fields'[i] = fields'[j] => i = j
    BY DEF FieldsOK
  <1> QED
    BY <1>3, <1>4 DEF FieldsOK, FieldParents

LEMMA FieldsNext ==
  ASSUME LoadInv, FieldsOK, [Next]_vars
  PROVE  FieldsOK'
  <1>1. CASE Ends
    <2>1. todo' = <<>> /\ UNCHANGED <<fields, entries>>
      BY <1>1 DEF Ends, LoadFails, Made, Process, ProcessFails, RateWithout,
         LoadInv, WorkerOK
    <2> QED
      BY <2>1, FieldsSame
  <1>2. CASE ApiStep \/ UNCHANGED vars
    <2>1. UNCHANGED <<todo, fields, entries>>
      BY <1>2, ApiHistory DEF workerVars, turn, vars
    <2> QED
      BY <2>1, FieldsSame
  <1> QED
    BY <1>1, <1>2, GetServiceFields, ListFieldsFields, GetFieldFields,
       ListRowsFields, GetRowFields, ListServicesFields DEF Next, WorkerStep,
       Ends, LoadStep

(* The inductive invariant of the prices holds at the start, and every     *)
(* step keeps it.                                                          *)
LEMMA PriceInit ==
  ASSUME Init
  PROVE  PriceInv
  <1>1. MissInv
    BY StaleInit DEF MissInv, Anchored, AllCovered, Init, Loading
  <1>2. /\ todo = <<>> /\ fields = <<>> /\ entries = NothingLoaded
    BY DEF Init
  <1>3. \A p \in FieldParents : p \in Parents
    BY ParentShape
  <1>4. FieldsOK
    BY <1>2, <1>3 DEF FieldsOK, FieldOnce, NothingLoaded
  <1>5. OneEach
    BY <1>2 DEF OneEach, NothingLoaded
  <1> QED
    BY <1>1, <1>4, <1>5 DEF PriceInv

LEMMA PriceNext ==
  ASSUME PriceInv, [Next]_vars
  PROVE  PriceInv'
  <1>1. LoadInv
    BY DEF PriceInv, MissInv, StaleInv
  <1> QED
    BY <1>1, MissNext, FieldsNext, OneEachKept DEF PriceInv

-----------------------------------------------------------------------------
(***************************************************************************)
(* When nothing was written since the loading began, the entries are the   *)
(* rules that count, under the parent and kind of each.                    *)
(***************************************************************************)
Undisturbed == pc = "rate" /\ seen = rows /\ steady = rows /\ Unambiguous

SameRule(r, q) == Among(r, q) /\ r.group = q.group /\ r.key = q.key

RowsAt(x) == {r \in Effective : <<r.parent, r.kind>> = x}

(* What is known of the rows when nothing was written since the loading    *)
(* began.                                                                  *)
LEMMA RowsAreKnown ==
  ASSUME PriceInv, Undisturbed
  PROVE  /\ \A r \in rows : IsRow(r)
         /\ \A r, q \in rows : r.id = q.id => r = q
         /\ \A r \in rows : Applies(r, when) => Loaded(r)
         /\ \A id : OfTenant(id) => \E q \in rows : q.id = id /\ q.tenant = Tenant
         /\ \A id : Active(id) => \E q \in rows : q.id = id /\ Applies(q, when)
  <1>1. LoadInv /\ AllCovered /\ todo = <<>> /\ Loading
    BY DEF PriceInv, MissInv, StaleInv, LoadInv, WorkerOK, Undisturbed, Loading
  <1>2. \A r \in steady : Applies(r, when) => Loaded(r)
    BY <1>1 DEF AllCovered, Covered, Pending
  <1> QED
    BY <1>1, <1>2 DEF LoadInv, TablesOK, Undisturbed, OfTenant, Active

(* Of the rows for one target one counts.                                  *)
LEMMA OneCounts ==
  ASSUME Undisturbed, \A r \in rows : IsRow(r),
         NEW r \in Effective, NEW q \in Effective, SameRule(r, q)
  PROVE  r = q
  <1>1. /\ r \in rows /\ q \in rows /\ Applies(r, when) /\ Applies(q, when)
        /\ r.tenant = Tenant => q.tenant = Tenant
        /\ q.tenant = Tenant => r.tenant = Tenant
    BY DEF Effective, SameRule, Among
  <1>2. r.tenant = q.tenant
    BY <1>1 DEF IsRow, Valued
  <1>3. SameTarget(r, q)
    BY <1>2 DEF SameTarget, SameRule, Among
  <1> QED
    BY <1>3 DEF Undisturbed, Unambiguous

(* A row that applies is loaded, or another one in its place.              *)
LEMMA LoadedRow ==
  ASSUME PriceInv, Undisturbed, NEW r \in rows, Applies(r, when)
  PROVE  \E q \in rows :
           /\ Rule(q) \in entries[<<r.parent, r.kind>>]
           /\ SameRule(q, r) /\ Applies(q, when)
           /\ r.tenant = Tenant => q.tenant = Tenant
  <1>1. Loaded(r)
    BY RowsAreKnown
  <1>2. PICK rule \in entries[<<r.parent, r.kind>>], q \in rows :
          /\ rule.group = r.group /\ rule.key = r.key /\ rule = Rule(q)
          /\ Among(q, r) /\ Active(q.id)
          /\ r.tenant = Tenant => OfTenant(q.id)
    BY <1>1 DEF Loaded, Undisturbed
  <1>3. Applies(q, when) /\ (OfTenant(q.id) => q.tenant = Tenant)
    BY RowsAreKnown, <1>2
  <1>4. q.group = r.group /\ q.key = r.key
    BY <1>2 DEF Rule
  <1> QED
    BY <1>2, <1>3, <1>4 DEF SameRule

(* The one in its place counts.                                            *)
LEMMA LoadedCounts ==
  ASSUME PriceInv, Undisturbed, NEW r \in rows, Applies(r, when)
  PROVE  \E q \in Effective : SameRule(q, r) /\ Rule(q) \in entries[<<r.parent, r.kind>>]
  <1>1. PICK q \in rows : /\ Rule(q) \in entries[<<r.parent, r.kind>>]
                          /\ SameRule(q, r) /\ Applies(q, when)
    BY LoadedRow
  <1>2. CASE q \in Effective
    BY <1>1, <1>2
  <1>3. CASE q \notin Effective
    <2>1. PICK x \in rows : Applies(x, when) /\ SameRule(x, q) /\ x.tenant = Tenant
      BY <1>1, <1>3 DEF Effective, SameRule, Among
    <2>2. PICK y \in rows : /\ Rule(y) \in entries[<<x.parent, x.kind>>]
                            /\ SameRule(y, x) /\ Applies(y, when) /\ y.tenant = Tenant
      BY <2>1, LoadedRow
    <2>3. y \in Effective
      BY <2>2 DEF Effective
    <2>4. SameRule(y, r) /\ <<x.parent, x.kind>> = <<r.parent, r.kind>>
      BY <1>1, <2>1, <2>2 DEF SameRule, Among
    <2> QED
      BY <2>2, <2>3, <2>4
  <1> QED
    BY <1>2, <1>3

(* The entries loaded under a parent and kind are the rules of the rows    *)
(* that count for it.                                                      *)
LEMMA EntriesAreRules ==
  ASSUME PriceInv, Undisturbed, NEW x \in Parents \X Kinds
  PROVE  entries[x] = {Rule(r) : r \in RowsAt(x)}
  <1>1. ASSUME NEW rule \in entries[x]
        PROVE  \E q \in RowsAt(x) : rule = Rule(q)
    <2>1. NothingStale /\ Loading
      BY DEF PriceInv, MissInv, StaleInv, Undisturbed, Loading
    <2>2. PICK r \in rows : /\ <<r.parent, r.kind>> = x /\ Rule(r) = rule
                            /\ \E q \in rows : q.id = r.id /\ Applies(q, when)
      BY <2>1 DEF NothingStale, Undisturbed
    <2>3. Applies(r, when)
      BY <2>2, RowsAreKnown
    <2>4. PICK q \in Effective : SameRule(q, r) /\ Rule(q) \in entries[x]
      BY <2>2, <2>3, LoadedCounts
    <2>5. Rule(q).group = rule.group /\ Rule(q).key = rule.key
      BY <2>2, <2>4 DEF Rule, SameRule
    <2>6. Rule(q) = rule
      BY <2>4, <2>5 DEF PriceInv, OneEach
    <2>7. <<q.parent, q.kind>> = x
      BY <2>2, <2>4 DEF SameRule, Among
    <2> QED
      BY <2>4, <2>6, <2>7 DEF RowsAt
  <1>2. ASSUME NEW r \in RowsAt(x)
        PROVE  Rule(r) \in entries[x]
    <2>1. r \in Effective /\ r \in rows /\ Applies(r, when) /\ <<r.parent, r.kind>> = x
      BY DEF RowsAt, Effective
    <2>2. PICK q \in Effective : SameRule(q, r) /\ Rule(q) \in entries[x]
      BY <2>1, LoadedCounts
    <2>3. q = r
      BY <2>1, <2>2, OneCounts, RowsAreKnown
    <2> QED
      BY <2>2, <2>3
  <1> QED
    BY <1>1, <1>2

(* Nothing else than a finite number of rows, each of its own rule.        *)
LEMMA RowsFinite ==
  ASSUME PriceInv
  PROVE  IsFiniteSet(rows) /\ \A S \in SUBSET rows : IsFiniteSet(S)
  <1>1. TablesOK
    BY DEF PriceInv, MissInv, StaleInv, LoadInv
  <1> DEFINE S == 1..lastId
             h == [r \in rows |-> r.id]
  <1>2. lastId \in Nat /\ \A r \in rows : r.id \in S
    BY <1>1 DEF TablesOK, IsRow
  <1>3. IsFiniteSet(S)
    BY <1>2, FS_Interval
  <1>4. \A r, q \in rows : r.id = q.id => r = q
    BY <1>1 DEF TablesOK
  <1> HIDE DEF S
  <1>5. h \in Injection(rows, S)
    BY <1>2, <1>4 DEF Injection, IsInjective
  <1>6. IsFiniteSet(rows)
    BY <1>3, <1>5, FS_Injection
  <1> QED
    BY <1>6, FS_Subset

(* Rows of one parent and kind that count have different rules.            *)
LEMMA RulesApart ==
  ASSUME PriceInv, Undisturbed, NEW x
  PROVE  /\ IsFiniteSet(RowsAt(x))
         /\ \A r, q \in RowsAt(x) : Rule(r) = Rule(q) => r = q
  <1>1. RowsAt(x) \in SUBSET rows
    BY DEF RowsAt, Effective
  <1>2. ASSUME NEW r \in RowsAt(x), NEW q \in RowsAt(x), Rule(r) = Rule(q)
        PROVE  r = q
    <2>1. r \in Effective /\ q \in Effective /\ Among(r, q)
      BY DEF RowsAt, Among
    <2>2. r.group = q.group /\ r.key = q.key
      BY <1>2 DEF Rule
    <2> QED
      BY <2>1, <2>2, OneCounts, RowsAreKnown DEF SameRule
  <1> QED
    BY <1>1, <1>2, RowsFinite

-----------------------------------------------------------------------------
(***************************************************************************)
(* Induction over the numbers, for sets.                                   *)
(***************************************************************************)
Less == {p \in Nat \X Nat : p[1] < p[2]}

(* The order of the numbers has no infinite descent.                       *)
LEMMA LessWF == IsWellFoundedOn(Less, Nat)
  BY NatLessThanWellFounded DEF OpToRel, Less

(* A set of numbers that is not empty has a least one.                     *)
LEMMA LeastNumber ==
  ASSUME NEW T \in SUBSET Nat, T # {}
  PROVE  \E n \in T : \A k \in T : n <= k
  <1>1. PICK n \in T : \A k \in T : ~(<<k, n>> \in Less)
    BY LessWF, WFMin
  <1>2. ASSUME NEW k \in T PROVE n <= k
    <2>1. <<k, n>> \in Nat \X Nat /\ ~(<<k, n>> \in Less)
      BY <1>1
    <2>2. ~(k < n)
      BY <2>1 DEF Less
    <2> QED
      BY <2>1, <2>2
  <1> QED
    BY <1>2

(* A set that holds 0 and with every number the next one holds all.        *)
LEMMA Induction ==
  ASSUME NEW T, 0 \in T, \A n \in Nat : n \in T => n + 1 \in T
  PROVE  Nat \subseteq T
  <1> SUFFICES ASSUME NEW m \in Nat, m \notin T
               PROVE  FALSE
    OBVIOUS
  <1>1. PICK n \in Nat \ T : \A k \in Nat \ T : n <= k
    <2> DEFINE U == Nat \ T
    <2>1. U \in SUBSET Nat /\ U # {}
      OBVIOUS
    <2> HIDE DEF U
    <2>2. \E n \in U : \A k \in U : n <= k
      BY <2>1, LeastNumber
    <2> QED
      BY <2>2 DEF U
  <1>2. n # 0
    BY <1>1
  <1>3. n - 1 \in Nat
    BY <1>2
  <1>4. n - 1 \in T
    BY <1>1, <1>3
  <1>5. (n - 1) + 1 \in T
    BY <1>3, <1>4
  <1> QED
    BY <1>1, <1>5

-----------------------------------------------------------------------------
(***************************************************************************)
(* Folds.  A fold over a finite set is given by an order to take elements  *)
(* in and a step, both functions here: it exists, in any set that the step *)
(* does not leave.                                                         *)
(***************************************************************************)
FoldStep(g, pick, step, base, s) ==
  IF s = {} THEN base ELSE step[<<pick[s], g[s \ {pick[s]}]>>]

IsFold(g, pick, step, base, S) ==
  g = [s \in SUBSET S |-> FoldStep(g, pick, step, base, s)]

(* By induction over the size of the subsets.                              *)
LEMMA FoldExists ==
  ASSUME NEW S, IsFiniteSet(S), NEW V, NEW base \in V, NEW step \in [S \X V -> V],
         NEW pick, \A s \in SUBSET S : s # {} => pick[s] \in s
  PROVE  \E g \in [SUBSET S -> V] : IsFold(g, pick, step, base, S)
  <1> DEFINE Small(n) == {t \in SUBSET S : Cardinality(t) <= n}
             Step(g, s) == FoldStep(g, pick, step, base, s)
             N == {n \in Nat : \E g \in [Small(n) -> V] : g = [s \in Small(n) |-> Step(g, s)]}
  <1>0. \A t \in SUBSET S : IsFiniteSet(t) /\ Cardinality(t) \in Nat
    BY FS_Subset, FS_CardinalityType
  <1>1. 0 \in N
    <2> DEFINE g == [s \in Small(0) |-> base]
    <2>1. \A s \in Small(0) : s = {}
      BY <1>0, FS_EmptySet
    <2>2. \A s \in Small(0) : Step(g, s) = base
      BY <2>1 DEF FoldStep
    <2> HIDE DEF Small, Step
    <2>3. g = [s \in Small(0) |-> Step(g, s)] /\ g \in [Small(0) -> V]
      BY <2>2
    <2> QED
      BY <2>3
  <1>2. ASSUME NEW n \in Nat, n \in N
        PROVE  n + 1 \in N
    <2>1. PICK g \in [Small(n) -> V] : g = [s \in Small(n) |-> Step(g, s)]
      BY <1>2
    <2> DEFINE h == [s \in Small(n + 1) |-> Step(g, s)]
    <2>2. ASSUME NEW s \in Small(n + 1)
          PROVE  Step(h, s) = Step(g, s) /\ Step(g, s) \in V
      <3>1. CASE s = {}
        BY <3>1 DEF FoldStep
      <3>2. CASE s # {}
        <4> DEFINE t == s \ {pick[s]}
        <4>1. pick[s] \in s /\ pick[s] \in S
          BY <3>2
        <4>2. Cardinality(t) = Cardinality(s) - 1
          BY <1>0, <4>1, FS_RemoveElement
        <4>3. t \in Small(n) /\ t \in Small(n + 1)
          BY <1>0, <4>2
        <4>4. t \in Small(n) => g[t] \in V
          BY <2>1
        <4> HIDE DEF Small, t, Step
        <4>5. g[t] \in V
          BY <4>3, <4>4
        <4>6. h[t] = Step(g, t) /\ g[t] = Step(g, t)
          BY <2>1, <4>3
        <4>7. h[t] = g[t]
          BY <4>6
        <4> HIDE DEF h
        <4>8. Step(h, s) = step[<<pick[s], h[t]>>] /\ Step(g, s) = step[<<pick[s], g[t]>>]
          BY <3>2 DEF FoldStep, t, Step
        <4> QED
          BY <4>1, <4>5, <4>7, <4>8
      <3> QED
        BY <3>1, <3>2
    <2> HIDE DEF Small, Step
    <2>3. h = [s \in Small(n + 1) |-> Step(h, s)]
      <3> DEFINE k == [s \in Small(n + 1) |-> Step(h, s)]
      <3>1. \A s \in Small(n + 1) : h[s] = k[s]
        BY <2>2
      <3>2. h = [s \in Small(n + 1) |-> h[s]] /\ k = [s \in Small(n + 1) |-> k[s]]
        OBVIOUS
      <3> HIDE DEF h, k
      <3>3. h = k
        BY <3>1, <3>2
      <3> QED
        BY <3>3 DEF k
    <2>4. h \in [Small(n + 1) -> V]
      BY <2>2
    <2> HIDE DEF h
    <2> QED
      BY <2>3, <2>4
  <1> HIDE DEF N
  <1>3. Cardinality(S) \in N
    BY <1>0, <1>1, <1>2, Induction
  <1>4. Small(Cardinality(S)) = SUBSET S
    BY <1>0, FS_Subset
  <1> HIDE DEF Small
  <1>5. \E g \in [SUBSET S -> V] : g = [s \in SUBSET S |-> Step(g, s)]
    BY <1>3, <1>4 DEF N
  <1> QED
    BY <1>5 DEF IsFold

(* The maximum of a set is its one member that no other exceeds.           *)
LEMMA MaxIs ==
  ASSUME NEW S \in SUBSET Int, NEW x \in S, \A y \in S : x >= y
  PROVE  Max(S) = x
  <1>1. Max(S) \in S /\ \A y \in S : Max(S) >= y
    BY DEF Max
  <1>2. Max(S) \in Int /\ x \in Int /\ Max(S) >= x /\ x >= Max(S)
    BY <1>1
  <1> HIDE DEF Max
  <1> QED
    BY <1>2

(* A set of numbers up to n has a last one.                                *)
LEMMA LastNumber ==
  ASSUME NEW n \in Nat, NEW s \in SUBSET (1..n), s # {}
  PROVE  Max(s) \in s /\ \A k \in s : Max(s) >= k
  <1> DEFINE U == {u \in Nat : \A k \in s : k <= u}
  <1>1. n \in U /\ U \in SUBSET Nat
    OBVIOUS
  <1> HIDE DEF U
  <1>2. PICK m \in U : \A u \in U : m <= u
    BY <1>1, LeastNumber
  <1>3. m \in Nat /\ \A k \in s : k <= m
    BY <1>2 DEF U
  <1>4. m \in s
    <2> SUFFICES ASSUME m \notin s
                 PROVE  FALSE
      OBVIOUS
    <2>1. \A k \in s : k \in Nat /\ k >= 1 /\ k < m
      BY <1>3
    <2>2. PICK k \in s : TRUE
      OBVIOUS
    <2>3. m > 0
      BY <1>3, <2>1, <2>2
    <2>4. m - 1 \in Nat /\ \A j \in s : j <= m - 1
      BY <1>3, <2>1, <2>3
    <2>5. m - 1 \in U
      BY <2>4 DEF U
    <2> QED
      BY <1>2, <1>3, <2>5
  <1>5. s \in SUBSET Int /\ \A k \in s : m >= k
    BY <1>3
  <1> QED
    BY <1>4, <1>5, MaxIs

(* The numbers up to k + 1 without the last are those up to k.             *)
LEMMA FirstNumbers ==
  ASSUME NEW k \in Nat
  PROVE  /\ 1..(k + 1) # {} /\ Max(1..(k + 1)) = k + 1
         /\ (1..(k + 1)) \ {k + 1} = 1..k
  <1> DEFINE S == 1..(k + 1)
  <1>1. S \in SUBSET Int /\ k + 1 \in S /\ \A y \in S : k + 1 >= y
    OBVIOUS
  <1>2. S \ {k + 1} = 1..k
    OBVIOUS
  <1> HIDE DEF S
  <1>3. Max(S) = k + 1
    BY <1>1, MaxIs
  <1> QED
    BY <1>1, <1>2, <1>3 DEF S

-----------------------------------------------------------------------------
(***************************************************************************)
(* The entries of the groups, as match after match updates them.           *)
(***************************************************************************)
Entries ==
  [flat : Int, rate : Int, level : Int, cost : Int, type : {"flat", "rate"},
   scope : {"field", "service"}]

Results(G) == UNION {[D -> Entries] : D \in SUBSET G}

(* A match as it may be.                                                   *)
IsMatch(m, G) ==
  /\ m.rule.group \in G /\ m.rule.cost \in Int /\ m.rule.type \in {"flat", "rate"}
  /\ m.scope \in {"field", "service"}
  /\ m.kind = "thresholds" => m.rule.key \in Int

LEMMA MaxOfTwo ==
  ASSUME NEW a \in Int, NEW b \in Int
  PROVE  Max({a, b}) = IF a >= b THEN a ELSE b
  <1>1. CASE a >= b
    <2>1. {a, b} \in SUBSET Int /\ a \in {a, b} /\ \A y \in {a, b} : a >= y
      BY <1>1
    <2> QED
      BY <1>1, <2>1, MaxIs
  <1>2. CASE ~(a >= b)
    <2>1. {a, b} \in SUBSET Int /\ b \in {a, b} /\ \A y \in {a, b} : b >= y
      BY <1>2
    <2> QED
      BY <1>2, <2>1, MaxIs
  <1> QED
    BY <1>1, <1>2

(* What one match makes of an entry.                                       *)
LEMMA EntryUpdated ==
  ASSUME NEW G, NEW m, IsMatch(m, G), NEW e \in Entries
  PROVE  LET u == UpdateEntry(e, m)
         IN  /\ u \in Entries
             /\ u.flat = IF m.kind # "thresholds" /\ m.rule.type # "rate"
                              /\ ~(e.flat >= m.rule.cost)
                         THEN m.rule.cost ELSE e.flat
             /\ u.rate = IF m.kind # "thresholds" /\ m.rule.type = "rate"
                         THEN e.rate * m.rule.cost ELSE e.rate
             /\ IF m.kind = "thresholds" /\ m.rule.key > e.level
                THEN /\ u.level = m.rule.key /\ u.cost = m.rule.cost
                     /\ u.type = m.rule.type /\ u.scope = m.scope
                ELSE /\ u.level = e.level /\ u.cost = e.cost
                     /\ u.type = e.type /\ u.scope = e.scope
  <1>1. e.flat \in Int /\ m.rule.cost \in Int /\ e.rate \in Int
    BY DEF IsMatch, Entries
  <1>2. Max({e.flat, m.rule.cost}) = IF e.flat >= m.rule.cost THEN e.flat ELSE m.rule.cost
    BY <1>1, MaxOfTwo
  <1>3. e.rate * m.rule.cost \in Int
    BY <1>1
  <1> DEFINE v == Max({e.flat, m.rule.cost})
             w == e.rate * m.rule.cost
  <1>4. v \in Int /\ w \in Int
    BY <1>1, <1>2, <1>3
  <1>5. UpdateEntry(e, m) =
          IF m.kind = "thresholds"
          THEN IF m.rule.key > e.level
               THEN [e EXCEPT !.level = m.rule.key, !.cost = m.rule.cost,
                              !.type = m.rule.type, !.scope = m.scope]
               ELSE e
          ELSE IF m.rule.type = "rate" THEN [e EXCEPT !.rate = w]
          ELSE [e EXCEPT !.flat = v]
    BY DEF UpdateEntry
  <1>6. v = IF e.flat >= m.rule.cost THEN e.flat ELSE m.rule.cost
    BY <1>2
  <1> HIDE DEF v, w
  <1>7. CASE m.kind = "thresholds" /\ m.rule.key > e.level
    <2>1. UpdateEntry(e, m) = [e EXCEPT !.level = m.rule.key, !.cost = m.rule.cost,
                                        !.type = m.rule.type, !.scope = m.scope]
      BY <1>5, <1>7
    <2> QED
      BY <1>7, <2>1 DEF IsMatch, Entries
  <1>8. CASE m.kind = "thresholds" /\ ~(m.rule.key > e.level)
    BY <1>5, <1>8
  <1>9. CASE m.kind # "thresholds" /\ m.rule.type = "rate"
    <2>1. UpdateEntry(e, m) = [e EXCEPT !.rate = w]
      BY <1>5, <1>9
    <2> QED
      BY <1>4, <1>9, <2>1 DEF Entries, w
  <1>10. CASE m.kind # "thresholds" /\ m.rule.type # "rate"
    <2>1. UpdateEntry(e, m) = [e EXCEPT !.flat = v]
      BY <1>5, <1>10
    <2> QED
      BY <1>4, <1>6, <1>10, <2>1 DEF Entries
  <1> QED
    BY <1>7, <1>8, <1>9, <1>10

(* A match changes the entry of its group, that may be new, and no other.  *)
LEMMA ResultUpdated ==
  ASSUME NEW G, NEW m, IsMatch(m, G), NEW res \in Results(G)
  PROVE  LET u == UpdateResult(res, m)
             g == m.rule.group
         IN  /\ u \in Results(G) /\ DOMAIN u = DOMAIN res \cup {g}
             /\ EntryOf(res, g) \in Entries
             /\ u[g] = UpdateEntry(EntryOf(res, g), m)
             /\ \A h \in DOMAIN res : h # g => u[h] = res[h]
  <1> DEFINE u == UpdateResult(res, m)
             g == m.rule.group
             D == DOMAIN res \cup {g}
  <1>1. PICK R \in SUBSET G : res \in [R -> Entries]
    BY DEF Results
  <1>2. NewEntry \in Entries
    BY DEF NewEntry, Entries
  <1>3. EntryOf(res, g) \in Entries
    BY <1>1, <1>2 DEF EntryOf
  <1>4. UpdateEntry(EntryOf(res, g), m) \in Entries
    BY <1>3, EntryUpdated
  <1>5. u = [h \in D |-> IF h = g THEN UpdateEntry(EntryOf(res, h), m) ELSE res[h]]
    BY DEF UpdateResult
  <1>6. g \in G
    BY DEF IsMatch
  <1> HIDE DEF u, g
  <1>7. \A h \in D : u[h] = IF h = g THEN UpdateEntry(EntryOf(res, h), m) ELSE res[h]
    BY <1>5
  <1>8. u \in [D -> Entries] /\ D \in SUBSET G
    BY <1>1, <1>4, <1>5, <1>6
  <1>9. u \in Results(G)
    BY <1>8 DEF Results
  <1> QED
    BY <1>3, <1>7, <1>8, <1>9 DEF u, g

IsUpdates(r, ms) ==
  r = [s \in SUBSET DOMAIN ms |->
         IF s = {} THEN <<>> ELSE UpdateResult(r[s \ {Max(s)}], ms[Max(s)])]

(* The function that FoldLeft chooses for UpdateResult exists.             *)
LEMMA UpdatesExist ==
  ASSUME NEW G, NEW n \in Nat, NEW ms, DOMAIN ms = 1..n,
         \A i \in 1..n : IsMatch(ms[i], G)
  PROVE  \E r \in [SUBSET (1..n) -> Results(G)] : IsUpdates(r, ms)
  <1> DEFINE D == 1..n
             V == Results(G)
             step == [p \in D \X V |-> UpdateResult(p[2], ms[p[1]])]
             pick == [s \in SUBSET D |-> Max(s)]
  <1>1. IsFiniteSet(D)
    BY FS_Interval
  <1>2. <<>> \in V
    <2>1. <<>> \in [{} -> Entries]
      OBVIOUS
    <2> QED
      BY <2>1 DEF Results
  <1>3. \A i \in D, v \in V : UpdateResult(v, ms[i]) \in V
    BY ResultUpdated
  <1>4. step \in [D \X V -> V]
    BY <1>3
  <1>5. \A s \in SUBSET D : s # {} => pick[s] \in s /\ pick[s] = Max(s)
    BY LastNumber
  <1>6. \A i \in D, v \in V : step[<<i, v>>] = UpdateResult(v, ms[i])
    OBVIOUS
  <1> HIDE DEF D, V, step, pick
  <1>7. PICK r \in [SUBSET D -> V] : IsFold(r, pick, step, <<>>, D)
    BY <1>1, <1>2, <1>4, <1>5, FoldExists
  <1>8. \A s \in SUBSET D :
          r[s] = IF s = {} THEN <<>> ELSE UpdateResult(r[s \ {Max(s)}], ms[Max(s)])
    <2> SUFFICES ASSUME NEW s \in SUBSET D, s # {}
                 PROVE  r[s] = UpdateResult(r[s \ {Max(s)}], ms[Max(s)])
      BY <1>7 DEF IsFold, FoldStep
    <2> DEFINE t == s \ {pick[s]}
    <2>1. t \in SUBSET D /\ pick[s] \in D /\ pick[s] = Max(s)
      BY <1>5
    <2>2. r[s] = step[<<pick[s], r[t]>>]
      BY <1>7 DEF IsFold, FoldStep
    <2> HIDE DEF t
    <2>3. r[t] \in V
      BY <1>7, <2>1
    <2>4. r[s] = UpdateResult(r[t], ms[pick[s]])
      BY <1>6, <2>1, <2>2, <2>3
    <2> QED
      BY <2>1, <2>4 DEF t
  <1>9. IsUpdates(r, ms)
    BY <1>7, <1>8 DEF IsUpdates, D
  <1> QED
    BY <1>7, <1>9 DEF D, V

ResultOf(ms) == FoldLeft(UpdateResult, <<>>, ms)

(* The results of the first matches, none to all n.                        *)
AreResults(res, n, ms) ==
  /\ res[0] = <<>> /\ res[n] = ResultOf(ms)
  /\ \A k \in 0..(n - 1) : res[k + 1] = UpdateResult(res[k], ms[k + 1])

LEMMA ResultsOfPrefixes ==
  ASSUME NEW G, NEW n \in Nat, NEW ms, DOMAIN ms = 1..n,
         \A i \in 1..n : IsMatch(ms[i], G)
  PROVE  \E res \in [0..n -> Results(G)] : AreResults(res, n, ms)
  <1> DEFINE r == CHOOSE r : IsUpdates(r, ms)
  <1>1. ResultOf(ms) = r[DOMAIN ms]
    BY DEF ResultOf, FoldLeft, MapThenFoldSet, IsUpdates
  <1>2. IsUpdates(r, ms)
    BY UpdatesExist
  <1> HIDE DEF r
  <1>3. \A s \in SUBSET (1..n) :
          r[s] = IF s = {} THEN <<>> ELSE UpdateResult(r[s \ {Max(s)}], ms[Max(s)])
    BY <1>2 DEF IsUpdates
  <1> DEFINE res == [k \in 0..n |-> r[1..k]]
  <1>4. res[0] = <<>> /\ res[n] = ResultOf(ms)
    <2>1. 1..0 = {} /\ 0 \in 0..n /\ n \in 0..n
      OBVIOUS
    <2> QED
      BY <1>1, <1>3, <2>1
  <1>5. ASSUME NEW k \in 0..(n - 1)
        PROVE  res[k + 1] = UpdateResult(res[k], ms[k + 1])
    <2>1. k \in Nat /\ k \in 0..n /\ k + 1 \in 0..n /\ 1..(k + 1) \in SUBSET (1..n)
      OBVIOUS
    <2>2. /\ 1..(k + 1) # {} /\ Max(1..(k + 1)) = k + 1
          /\ (1..(k + 1)) \ {k + 1} = 1..k
      BY <2>1, FirstNumbers
    <2>3. r[1..(k + 1)] = UpdateResult(r[1..k], ms[k + 1])
      BY <1>3, <2>1, <2>2
    <2> QED
      BY <2>1, <2>3
  <1>6. res \in [0..n -> Results(G)]
    <2> DEFINE N == {k \in Nat : k <= n => res[k] \in Results(G)}
    <2>1. 0 \in N
      <3>1. <<>> \in [{} -> Entries]
        OBVIOUS
      <3>2. <<>> \in Results(G)
        BY <3>1 DEF Results
      <3> HIDE DEF res
      <3> QED
        BY <1>4, <3>2
    <2>2. \A k \in Nat : k \in N => k + 1 \in N
      <3> SUFFICES ASSUME NEW k \in Nat, k <= n => res[k] \in Results(G), k + 1 <= n
                   PROVE  res[k + 1] \in Results(G)
        OBVIOUS
      <3>1. k \in 0..(n - 1) /\ k + 1 \in 1..n /\ res[k] \in Results(G)
        OBVIOUS
      <3> HIDE DEF res
      <3>2. UpdateResult(res[k], ms[k + 1]) \in Results(G)
        BY <3>1, ResultUpdated
      <3> QED
        BY <1>5, <3>1, <3>2
    <2> HIDE DEF N
    <2>3. Nat \subseteq N
      BY <2>1, <2>2, Induction
    <2>4. \A k \in 0..n : k \in Nat /\ k <= n
      OBVIOUS
    <2> HIDE DEF res
    <2>5. \A k \in 0..n : res[k] \in Results(G)
      BY <2>3, <2>4 DEF N
    <2> QED
      BY <2>5 DEF res
  <1> HIDE DEF res
  <1> QED
    BY <1>4, <1>5, <1>6 DEF AreResults

-----------------------------------------------------------------------------
(***************************************************************************)
(* Products and sums: that of one more element, in whatever order they are *)
(* taken.                                                                  *)
(***************************************************************************)
First(s) == CHOOSE x \in s : TRUE

ProductStep(g, s) == IF s = {} THEN 1 ELSE First(s).cost * g[s \ {First(s)}]

(* The products over the subsets of S.                                     *)
IsProducts(g, S) == g = [s \in SUBSET S |-> ProductStep(g, s)]

Costed(S) == IsFiniteSet(S) /\ \A x \in S : x.cost \in Int

(* Products are a fold, thus they exist and are integers.                  *)
LEMMA ProductsExist ==
  ASSUME NEW S, Costed(S)
  PROVE  \E g \in [SUBSET S -> Int] : IsProducts(g, S)
  <1> DEFINE step == [p \in S \X Int |-> p[1].cost * p[2]]
             pick == [s \in SUBSET S |-> First(s)]
  <1>1. \A x \in S, v \in Int : step[<<x, v>>] = x.cost * v /\ x.cost * v \in Int
    BY DEF Costed
  <1>2. step \in [S \X Int -> Int]
    BY DEF Costed
  <1>3. \A s \in SUBSET S : s # {} => pick[s] \in s /\ pick[s] = First(s)
    BY DEF First
  <1> HIDE DEF step, pick
  <1>4. PICK g \in [SUBSET S -> Int] : IsFold(g, pick, step, 1, S)
    <2>1. IsFiniteSet(S) /\ 1 \in Int /\ \A s \in SUBSET S : s # {} => pick[s] \in s
      BY <1>3 DEF Costed
    <2> QED
      BY <1>2, <2>1, FoldExists
  <1>5. ASSUME NEW s \in SUBSET S
        PROVE  g[s] = ProductStep(g, s)
    <2>1. CASE s = {}
      BY <1>4, <2>1 DEF IsFold, FoldStep, ProductStep
    <2>2. CASE s # {}
      <3> DEFINE t == s \ {pick[s]}
      <3>1. t \in SUBSET S /\ pick[s] \in S /\ pick[s] = First(s)
        BY <1>3, <2>2
      <3>2. g[s] = step[<<pick[s], g[t]>>]
        BY <1>4, <2>2 DEF IsFold, FoldStep
      <3> HIDE DEF t
      <3>3. g[t] \in Int
        BY <1>4, <3>1
      <3>4. g[s] = First(s).cost * g[t]
        BY <1>1, <3>1, <3>2, <3>3
      <3> QED
        BY <2>2, <3>1, <3>4 DEF t, ProductStep
    <2> QED
      BY <2>1, <2>2
  <1> QED
    BY <1>4, <1>5 DEF IsProducts

(* Product is what one such function gives for the whole set.              *)
LEMMA ProductIsOne ==
  ASSUME NEW S, Costed(S)
  PROVE  \E g : IsProducts(g, S) /\ Product(S) = g[S]
  <1> DEFINE f == [r \in S |-> r.cost]
             Folded(g) == g = [s \in SUBSET S |->
                            IF s = {} THEN 1 ELSE f[First(s)] * g[s \ {First(s)}]]
  <1>1. Product(S) = (CHOOSE g : Folded(g))[S]
    BY DEF Product, FoldFunction, FoldFunctionOnSet, MapThenFoldSet, First
  <1>2. ASSUME NEW g
        PROVE  Folded(g) <=> IsProducts(g, S)
    <2> DEFINE a == [s \in SUBSET S |->
                       IF s = {} THEN 1 ELSE f[First(s)] * g[s \ {First(s)}]]
               b == [s \in SUBSET S |-> ProductStep(g, s)]
    <2>1. \A s \in SUBSET S : s # {} => First(s) \in S /\ f[First(s)] = First(s).cost
      BY DEF First
    <2> HIDE DEF f
    <2>2. \A s \in SUBSET S : a[s] = b[s]
      BY <2>1 DEF ProductStep
    <2>3. a = b
      BY <2>2
    <2>4. (Folded(g) <=> g = a) /\ (IsProducts(g, S) <=> g = b)
      BY DEF IsProducts
    <2> QED
      BY <2>3, <2>4
  <1> HIDE DEF f, Folded
  <1>3. (CHOOSE g : Folded(g)) = (CHOOSE g : IsProducts(g, S))
    BY <1>2
  <1>4. IsProducts((CHOOSE g : IsProducts(g, S)), S)
    BY ProductsExist
  <1> QED
    BY <1>1, <1>3, <1>4

(* All such functions agree: over whichever set they are defined, the      *)
(* product of a subset is the same.                                        *)
LEMMA ProductsAgree ==
  ASSUME NEW S, Costed(S), NEW g, IsProducts(g, S), NEW T \in SUBSET S
  PROVE  g[T] = Product(T)
  <1>0. IsFiniteSet(T) /\ Costed(T)
    BY FS_Subset DEF Costed
  <1>1. PICK h : IsProducts(h, T) /\ Product(T) = h[T]
    BY <1>0, ProductIsOne
  <1> DEFINE N == {n \in Nat : \A U \in SUBSET T : Cardinality(U) = n => g[U] = h[U]}
  <1>2. \A U \in SUBSET T : /\ IsFiniteSet(U) /\ Cardinality(U) \in Nat
                            /\ g[U] = ProductStep(g, U) /\ h[U] = ProductStep(h, U)
    BY <1>0, <1>1, FS_Subset, FS_CardinalityType DEF IsProducts
  <1>3. 0 \in N
    <2>1. \A U \in SUBSET T : Cardinality(U) = 0 => U = {}
      BY <1>2, FS_EmptySet
    <2>2. \A U \in SUBSET T : U = {} => g[U] = h[U]
      BY <1>2 DEF ProductStep
    <2> QED
      BY <2>1, <2>2
  <1>4. ASSUME NEW n \in Nat, n \in N
        PROVE  n + 1 \in N
    <2> SUFFICES ASSUME NEW U \in SUBSET T, Cardinality(U) = n + 1
                 PROVE  g[U] = h[U]
      OBVIOUS
    <2>1. U # {}
      BY FS_EmptySet
    <2> DEFINE V == U \ {First(U)}
    <2>2. First(U) \in U
      BY <2>1 DEF First
    <2>3. V \in SUBSET T /\ Cardinality(V) = n
      BY <1>2, <2>2, FS_RemoveElement
    <2>4. g[V] = h[V]
      BY <1>4, <2>3
    <2> QED
      BY <1>2, <2>1, <2>4 DEF ProductStep
  <1> HIDE DEF N
  <1>5. Cardinality(T) \in N
    BY <1>2, <1>3, <1>4, Induction
  <1> QED
    BY <1>1, <1>5 DEF N

(* A product is an integer, that of one element and the others.            *)
LEMMA ProductOfFirst ==
  ASSUME NEW S, Costed(S)
  PROVE  /\ Product(S) \in Int
         /\ S = {} => Product(S) = 1
         /\ S # {} => Product(S) = First(S).cost * Product(S \ {First(S)})
  <1>1. PICK g \in [SUBSET S -> Int] : IsProducts(g, S)
    BY ProductsExist
  <1>2. \A T \in SUBSET S : g[T] = Product(T)
    BY <1>1, ProductsAgree
  <1>3. g[S] = ProductStep(g, S)
    BY <1>1 DEF IsProducts
  <1> DEFINE T == S \ {First(S)}
  <1>4. T \in SUBSET S /\ S \in SUBSET S
    OBVIOUS
  <1> HIDE DEF T
  <1>5. g[S] = Product(S) /\ g[T] = Product(T) /\ g[S] \in Int
    BY <1>1, <1>2, <1>4
  <1> QED
    BY <1>3, <1>5 DEF ProductStep, T

(* A product is that of any one element and the others.                    *)
LEMMA ProductOfRest ==
  ASSUME NEW S, Costed(S)
  PROVE  \A x \in S : Product(S) = x.cost * Product(S \ {x})
  <1> DEFINE N == {n \in Nat : \A T \in SUBSET S : Cardinality(T) = n =>
                     \A x \in T : Product(T) = x.cost * Product(T \ {x})}
  <1>0. \A T \in SUBSET S : IsFiniteSet(T) /\ Cardinality(T) \in Nat /\ Costed(T)
    BY FS_Subset, FS_CardinalityType DEF Costed
  <1>1. \A T \in SUBSET S : Product(T) \in Int
    BY <1>0, ProductOfFirst
  <1>2. \A T \in SUBSET S :
          T # {} => /\ First(T) \in T
                    /\ Product(T) = First(T).cost * Product(T \ {First(T)})
    BY <1>0, ProductOfFirst DEF First
  <1>3. 0 \in N
    <2>1. \A T \in SUBSET S : Cardinality(T) = 0 => T = {}
      BY <1>0, FS_EmptySet
    <2>2. \A T \in SUBSET S : Cardinality(T) = 0 =>
            \A x \in T : Product(T) = x.cost * Product(T \ {x})
      BY <2>1
    <2> QED
      BY <2>2
  <1>4. ASSUME NEW n \in Nat, n \in N
        PROVE  n + 1 \in N
    <2> SUFFICES ASSUME NEW T \in SUBSET S, Cardinality(T) = n + 1, NEW x \in T
                 PROVE  Product(T) = x.cost * Product(T \ {x})
      OBVIOUS
    <2>0. IsFiniteSet(T)
      BY <1>0
    <2> DEFINE c == First(T)
               rest == Product((T \ {c}) \ {x})
    <2>2. c \in T /\ Product(T) = c.cost * Product(T \ {c})
      BY <1>2
    <2>3. CASE x = c
      BY <2>2, <2>3
    <2>4. CASE x # c
      <3> HIDE DEF c
      <3>1. \A y \in T : Cardinality(T \ {y}) = Cardinality(T) - 1
        BY <2>0, FS_RemoveElement
      <3>2. \A y \in T : T \ {y} \in SUBSET S /\ Cardinality(T \ {y}) = n
        BY <3>1
      <3>3. \A y \in T : \A z \in T \ {y} :
              Product(T \ {y}) = z.cost * Product((T \ {y}) \ {z})
        BY <1>4, <3>2
      <3>4. Product(T \ {c}) = x.cost * rest
        BY <2>2, <2>4, <3>3
      <3>5. (T \ {x}) \ {c} = (T \ {c}) \ {x}
        OBVIOUS
      <3>6. Product(T \ {x}) = c.cost * rest
        BY <2>2, <2>4, <3>3, <3>5
      <3>7. x.cost \in Int /\ c.cost \in Int /\ rest \in Int
        <4>1. (T \ {c}) \ {x} \in SUBSET S
          OBVIOUS
        <4> QED
          BY <1>1, <2>2, <4>1 DEF Costed
      <3> HIDE DEF rest
      <3> DEFINE a == x.cost
                 b == c.cost
      <3>8. a \in Int /\ b \in Int /\ b * (a * rest) = a * (b * rest)
        <4> HIDE DEF a, b
        <4>1. ASSUME NEW i \in Int, NEW j \in Int, NEW k \in Int
              PROVE  i * (j * k) = j * (i * k)
          BY <4>1
        <4> QED
          BY <3>7, <4>1 DEF a, b
      <3> QED
        BY <2>2, <3>4, <3>6, <3>8
    <2> QED
      BY <2>3, <2>4
  <1> HIDE DEF N
  <1>5. Cardinality(S) \in N
    BY <1>0, <1>3, <1>4, Induction
  <1> QED
    BY <1>5 DEF N

(* A product with one factor more.                                         *)
LEMMA ProductWith ==
  ASSUME NEW S, Costed(S), NEW x, x \notin S, x.cost \in Int
  PROVE  Product(S \cup {x}) = x.cost * Product(S) /\ Costed(S \cup {x})
  <1> DEFINE T == S \cup {x}
  <1>1. IsFiniteSet(T) /\ x \in T /\ T \ {x} = S /\ Costed(T)
    BY FS_AddElement DEF Costed
  <1> HIDE DEF T
  <1>2. Product(T) = x.cost * Product(T \ {x})
    BY <1>1, ProductOfRest
  <1> QED
    BY <1>1, <1>2 DEF T

(* The cost of no row, and of one.                                         *)
LEMMA CostOfOne ==
  ASSUME NEW x, x.cost \in Int
  PROVE  Costs({x}) = x.cost
  <1> DEFINE S == {x}
             f == [r \in S |-> r.cost]
             Summed(g) == g = [s \in SUBSET S |->
                            IF s = {} THEN 0 ELSE f[First(s)] + g[s \ {First(s)}]]
             h == [s \in SUBSET S |-> IF s = {} THEN 0 ELSE x.cost]
  <1>1. Costs(S) = (CHOOSE g : Summed(g))[S]
    BY DEF Costs, SumFunction, SumFunctionOnSet, FoldFunctionOnSet,
       MapThenFoldSet, First
  <1>2. \A s \in SUBSET S : s # {} => First(s) = x /\ f[First(s)] = x.cost /\ s \ {First(s)} = {}
    BY DEF First
  <1>3. {} \in SUBSET S /\ S \in SUBSET S /\ S # {}
    OBVIOUS
  <1> HIDE DEF S, f
  <1>4. Summed(h)
    <2>1. h[{}] = 0
      BY <1>3
    <2>2. \A s \in SUBSET S :
            h[s] = IF s = {} THEN 0 ELSE f[First(s)] + h[s \ {First(s)}]
      BY <1>2, <2>1
    <2>3. h = [s \in SUBSET S |-> h[s]]
      OBVIOUS
    <2> HIDE DEF h
    <2> QED
      BY <2>2, <2>3
  <1> DEFINE g == CHOOSE g : Summed(g)
  <1>5. Summed(g)
    BY <1>4
  <1> HIDE DEF g, h
  <1>6. g[{}] = 0 /\ g[S] = f[First(S)] + g[S \ {First(S)}]
    BY <1>3, <1>5
  <1>7. g[S] = x.cost
    <2>1. S \ {First(S)} = {} /\ f[First(S)] = x.cost
      BY <1>2, <1>3
    <2>2. g[S] = x.cost + 0
      BY <1>6, <2>1
    <2> QED
      BY <2>2
  <1> QED
    BY <1>1, <1>7 DEF g, S

LEMMA CostOfNone == Costs({}) = 0
  <1> DEFINE f == [r \in {} |-> r.cost]
             Summed(g) == g = [s \in SUBSET {} |->
                            IF s = {} THEN 0 ELSE f[First(s)] + g[s \ {First(s)}]]
             h == [s \in SUBSET {} |-> 0]
  <1>1. Costs({}) = (CHOOSE g : Summed(g))[{}]
    BY DEF Costs, SumFunction, SumFunctionOnSet, FoldFunctionOnSet,
       MapThenFoldSet, First
  <1>2. \A s \in SUBSET {} : s = {}
    OBVIOUS
  <1> HIDE DEF f
  <1>3. Summed(h)
    BY <1>2
  <1> DEFINE g == CHOOSE g : Summed(g)
  <1>4. Summed(g)
    BY <1>3
  <1> HIDE DEF g
  <1>5. g[{}] = 0
    BY <1>4
  <1> QED
    BY <1>1, <1>5 DEF g

(* The prices of the groups are added as the sum of a function.            *)
LEMMA PricesAreSums ==
  ASSUME NEW res, NEW qty, NEW f,
         DOMAIN f = DOMAIN res, \A x \in DOMAIN res : f[x] = GroupPrice(res[x], qty)
  PROVE  MapThenSumSet(LAMBDA g : GroupPrice(res[g], qty), DOMAIN res) = SumFunction(f)
  <1> DEFINE S == DOMAIN res
             Summed(g) == g = [s \in SUBSET S |->
                            IF s = {} THEN 0 ELSE f[First(s)] + g[s \ {First(s)}]]
             Priced(g) == g = [s \in SUBSET S |->
                            IF s = {} THEN 0
                            ELSE GroupPrice(res[First(s)], qty) + g[s \ {First(s)}]]
  <1>1. SumFunction(f) = (CHOOSE g : Summed(g))[S]
    BY DEF SumFunction, SumFunctionOnSet, FoldFunctionOnSet, MapThenFoldSet,
       First
  <1>2. MapThenSumSet(LAMBDA g : GroupPrice(res[g], qty), S) = (CHOOSE g : Priced(g))[S]
    BY DEF MapThenSumSet, MapThenFoldSet, First
  <1>3. ASSUME NEW g
        PROVE  Summed(g) <=> Priced(g)
    <2> DEFINE a == [s \in SUBSET S |->
                       IF s = {} THEN 0 ELSE f[First(s)] + g[s \ {First(s)}]]
               b == [s \in SUBSET S |->
                       IF s = {} THEN 0
                       ELSE GroupPrice(res[First(s)], qty) + g[s \ {First(s)}]]
    <2>1. \A s \in SUBSET S : s # {} => f[First(s)] = GroupPrice(res[First(s)], qty)
      BY DEF First
    <2>2. \A s \in SUBSET S : a[s] = b[s]
      BY <2>1
    <2>3. a = b
      BY <2>2
    <2>4. (Summed(g) <=> g = a) /\ (Priced(g) <=> g = b)
      OBVIOUS
    <2> QED
      BY <2>3, <2>4
  <1> HIDE DEF Summed, Priced
  <1>4. (CHOOSE g : Summed(g)) = (CHOOSE g : Priced(g))
    BY <1>3
  <1> QED
    BY <1>1, <1>2, <1>4

-----------------------------------------------------------------------------
(***************************************************************************)
(* The entry of a group, after the rows of T: its flat is the dearest, its *)
(* rate the product, and of the thresholds it holds the highest.           *)
(***************************************************************************)
ScopeOf(r) == IF IsField(r.parent) THEN "field" ELSE "service"

MatchOf(r) == [rule |-> Rule(r), kind |-> r.kind, scope |-> ScopeOf(r)]

Flats(T) == {0} \cup {r.cost : r \in RulesOf(T, "mappings", "flat")}

HoldsHighest(e, T) ==
  IF \A r \in T : r.kind # "thresholds"
  THEN e.level = -1 /\ e.cost = 0 /\ e.type = "flat" /\ e.scope = "field"
  ELSE \E b \in Highest(T) : /\ e.level = b.key /\ e.cost = b.cost
                             /\ e.type = b.type /\ e.scope = ScopeOf(b)

Describes(e, T) ==
  /\ e \in Entries
  /\ e.flat \in Flats(T) /\ \A c \in Flats(T) : e.flat >= c
  /\ e.rate = Product(RulesOf(T, "mappings", "rate"))
  /\ HoldsHighest(e, T)

(* Rows as they are priced.                                                *)
ArePriced(T) == IsFiniteSet(T) /\ \A r \in T : Valued(r) /\ r.kind \in Kinds

(* A subset of priced rows is priced.                                      *)
LEMMA PricedCosts ==
  ASSUME NEW T, ArePriced(T), NEW U \in SUBSET T
  PROVE  Costed(U) /\ ArePriced(U)
BY FS_Subset DEF Costed, ArePriced, Valued

(* The entry of a group first met describes no rows.                       *)
LEMMA NewEntryDescribes == Describes(NewEntry, {})
  <1>1. NewEntry \in Entries
    BY DEF NewEntry, Entries
  <1>2. /\ NewEntry.flat = 0 /\ NewEntry.rate = 1 /\ NewEntry.level = -1
        /\ NewEntry.cost = 0 /\ NewEntry.type = "flat" /\ NewEntry.scope = "field"
    BY DEF NewEntry
  <1>3. RulesOf({}, "mappings", "rate") = {} /\ Flats({}) = {0}
    BY DEF RulesOf, Flats
  <1>4. Product({}) = 1
    <2>1. Costed({})
      BY FS_EmptySet DEF Costed
    <2> QED
      BY <2>1, ProductOfFirst
  <1> QED
    BY <1>1, <1>2, <1>3, <1>4 DEF Describes, HoldsHighest

(* With one threshold more an entry still holds the highest. It takes the  *)
(* later one only if it is higher, thus of two that are equal the one of a *)
(* field must not come first.                                              *)
LEMMA HighestOn ==
  ASSUME NEW T, ArePriced(T), NEW r, Valued(r), r.kind = "thresholds",
         NEW e \in Entries, HoldsHighest(e, T), NEW u \in Entries,
         \A q \in T : q.kind = "thresholds" /\ q.key = r.key => IsField(r.parent),
         IF r.key > e.level
         THEN /\ u.level = r.key /\ u.cost = r.cost
              /\ u.type = r.type /\ u.scope = ScopeOf(r)
         ELSE /\ u.level = e.level /\ u.cost = e.cost
              /\ u.type = e.type /\ u.scope = e.scope
  PROVE  HoldsHighest(u, T \cup {r})
  <1>1. \A q \in T : q.kind = "thresholds" => q.key \in Nat
    BY DEF ArePriced, Valued
  <1>2. r.key \in Nat
    BY DEF Valued
  <1> SUFFICES \E b \in Highest(T \cup {r}) : /\ u.level = b.key /\ u.cost = b.cost
                                              /\ u.type = b.type /\ u.scope = ScopeOf(b)
    BY DEF HoldsHighest
  <1>3. CASE \A q \in T : q.kind # "thresholds"
    <2>1. r.key > e.level
      BY <1>2, <1>3 DEF HoldsHighest
    <2>2. r \in Highest(T \cup {r})
      BY <1>3 DEF Highest
    <2> QED
      BY <2>1, <2>2
  <1>4. CASE ~(\A q \in T : q.kind # "thresholds")
    <2>1. PICK b \in Highest(T) : /\ e.level = b.key /\ e.cost = b.cost
                                 /\ e.type = b.type /\ e.scope = ScopeOf(b)
      BY <1>4 DEF HoldsHighest
    <2>2. /\ b \in T /\ b.kind = "thresholds" /\ b.key \in Nat
          /\ \A q \in T : q.kind = "thresholds" =>
               \/ q.key < b.key
               \/ q.key = b.key /\ (IsField(q.parent) \/ q = b)
      BY <1>1, <2>1 DEF Highest
    <2>3. CASE r.key > e.level
      <3>0. b.key < r.key
        BY <1>2, <2>1, <2>2, <2>3
      <3>1. ASSUME NEW q \in T, q.kind = "thresholds"
            PROVE  q.key < r.key
        <4>1. q.key \in Nat /\ (q.key < b.key \/ q.key = b.key)
          BY <1>1, <2>2, <3>1
        <4> QED
          BY <1>2, <2>2, <3>0, <4>1
      <3>2. r \in Highest(T \cup {r})
        BY <3>1 DEF Highest
      <3> QED
        BY <2>3, <3>2
    <2>4. CASE ~(r.key > e.level)
      <3>1. r.key < b.key \/ (r.key = b.key /\ IsField(r.parent))
        BY <1>2, <2>1, <2>2, <2>4
      <3>2. b \in Highest(T \cup {r})
        BY <2>2, <3>1 DEF Highest
      <3> QED
        BY <2>1, <2>4, <3>2
    <2> QED
      BY <2>3, <2>4
  <1> QED
    BY <1>3, <1>4

(* An entry that a rule updates describes one row more.                    *)
LEMMA DescribesOn ==
  ASSUME NEW T, ArePriced(T), NEW e, Describes(e, T),
         NEW r, r \notin T, Valued(r), r.kind \in Kinds,
         \A q \in T : r.kind = "thresholds" /\ q.kind = "thresholds" /\ q.key = r.key
                        => IsField(r.parent)
  PROVE  Describes(UpdateEntry(e, MatchOf(r)), T \cup {r})
  <1> DEFINE m == MatchOf(r)
             u == UpdateEntry(e, m)
  <1>1. /\ m.rule.cost = r.cost /\ m.rule.type = r.type /\ m.rule.key = r.key
        /\ m.rule.group = r.group /\ m.kind = r.kind /\ m.scope = ScopeOf(r)
    BY DEF MatchOf, Rule
  <1>2. IsMatch(m, {r.group})
    BY <1>1 DEF IsMatch, Valued, ScopeOf
  <1>3. e \in Entries /\ r.cost \in Int /\ r.type \in {"flat", "rate"}
        /\ e.flat \in Int /\ e.rate \in Int
    BY DEF Describes, Valued, Entries
  <1> HIDE DEF m
  <1>4. /\ u \in Entries
        /\ u.flat = IF r.kind # "thresholds" /\ r.type # "rate" /\ ~(e.flat >= r.cost)
                    THEN r.cost ELSE e.flat
        /\ u.rate = IF r.kind # "thresholds" /\ r.type = "rate"
                    THEN e.rate * r.cost ELSE e.rate
        /\ IF r.kind = "thresholds" /\ r.key > e.level
           THEN /\ u.level = r.key /\ u.cost = r.cost
                /\ u.type = r.type /\ u.scope = ScopeOf(r)
           ELSE /\ u.level = e.level /\ u.cost = e.cost
                /\ u.type = e.type /\ u.scope = e.scope
    BY <1>1, <1>2, <1>3, EntryUpdated
  <1> HIDE DEF u
  <1> DEFINE R(U) == RulesOf(U, "mappings", "rate")
             U == T \cup {r}
  <1>5. u.flat \in Flats(U) /\ \A c \in Flats(U) : u.flat >= c
    <2>1. e.flat \in Flats(T) /\ \A c \in Flats(T) : e.flat >= c /\ c \in Int
      BY DEF Describes, Flats, RulesOf, ArePriced, Valued
    <2>2. CASE r.kind # "thresholds" /\ r.type # "rate"
      <3>1. Flats(U) = Flats(T) \cup {r.cost}
        BY <1>3, <2>2 DEF Flats, RulesOf, Kinds
      <3> QED
        BY <1>3, <1>4, <2>1, <2>2, <3>1
    <2>3. CASE ~(r.kind # "thresholds" /\ r.type # "rate")
      <3>1. Flats(U) = Flats(T)
        BY <2>3 DEF Flats, RulesOf
      <3> QED
        BY <1>4, <2>1, <2>3, <3>1
    <2> QED
      BY <2>2, <2>3
  <1>6. u.rate = Product(R(U))
    <2>1. e.rate = Product(R(T)) /\ r \notin R(T)
      BY DEF Describes, RulesOf
    <2>2. CASE r.kind # "thresholds" /\ r.type = "rate"
      <3>1. R(U) = R(T) \cup {r}
        BY <2>2 DEF RulesOf, Kinds
      <3>2. Costed(R(T))
        BY PricedCosts DEF RulesOf
      <3>3. Product(R(T) \cup {r}) = r.cost * Product(R(T))
        BY <1>3, <2>1, <3>2, ProductWith
      <3>4. u.rate = e.rate * r.cost
        BY <1>4, <2>2
      <3> HIDE DEF R
      <3>5. \A i, j \in Int : i * j = j * i
        OBVIOUS
      <3> QED
        BY <1>3, <2>1, <3>1, <3>3, <3>4, <3>5
    <2>3. CASE ~(r.kind # "thresholds" /\ r.type = "rate")
      <3>1. R(U) = R(T)
        BY <2>3 DEF RulesOf
      <3> QED
        BY <1>4, <2>1, <2>3, <3>1
    <2> QED
      BY <2>2, <2>3
  <1>7. HoldsHighest(u, U)
    <2>1. HoldsHighest(e, T)
      BY DEF Describes
    <2>2. CASE r.kind = "thresholds"
      <3>1. IF r.key > e.level
            THEN /\ u.level = r.key /\ u.cost = r.cost
                 /\ u.type = r.type /\ u.scope = ScopeOf(r)
            ELSE /\ u.level = e.level /\ u.cost = e.cost
                 /\ u.type = e.type /\ u.scope = e.scope
        BY <1>4, <2>2
      <3>2. \A q \in T : q.kind = "thresholds" /\ q.key = r.key => IsField(r.parent)
        BY <2>2
      <3> QED
        BY <1>3, <1>4, <2>1, <2>2, <3>1, <3>2, HighestOn
    <2>3. CASE r.kind # "thresholds"
      <3>1. /\ u.level = e.level /\ u.cost = e.cost
            /\ u.type = e.type /\ u.scope = e.scope
        BY <1>4, <2>3
      <3>2. Highest(U) = Highest(T)
        BY <2>3 DEF Highest
      <3> QED
        BY <2>1, <2>3, <3>1, <3>2 DEF HoldsHighest
    <2> QED
      BY <2>2, <2>3
  <1> QED
    BY <1>4, <1>5, <1>6, <1>7 DEF Describes, m, u

(* Of two thresholds for one level one is of a field, one of the service.  *)
Distinct(T) ==
  \A r, q \in T : /\ r.kind = "thresholds" /\ q.kind = "thresholds" /\ r.key = q.key
                  /\ IsField(r.parent) <=> IsField(q.parent)
                  => r = q

(* There is at most one highest threshold.                                 *)
LEMMA OneHighest ==
  ASSUME NEW T, ArePriced(T), Distinct(T), NEW b \in Highest(T)
  PROVE  Highest(T) = {b}
  <1> SUFFICES ASSUME NEW r \in Highest(T)
               PROVE  r = b
    OBVIOUS
  <1>1. /\ r \in T /\ b \in T /\ r.kind = "thresholds" /\ b.kind = "thresholds"
        /\ r.key \in Nat /\ b.key \in Nat
    BY DEF Highest, ArePriced, Valued
  <1>2. \/ b.key < r.key
        \/ b.key = r.key /\ (IsField(b.parent) \/ b = r)
    BY <1>1 DEF Highest
  <1>3. \/ r.key < b.key
        \/ r.key = b.key /\ (IsField(r.parent) \/ r = b)
    BY <1>1 DEF Highest
  <1>4. r.key = b.key /\ (IsField(b.parent) \/ b = r) /\ (IsField(r.parent) \/ r = b)
    BY <1>1, <1>2, <1>3
  <1> QED
    BY <1>1, <1>4 DEF Distinct

(* The highest of the thresholds when it is of the type and scope.         *)
TopOf(T, type, onField) ==
  {r \in Highest(T) : r.type = type /\ (IsField(r.parent) <=> onField)}

(* The price of a group, with its local definitions spelled out.           *)
LEMMA BookPriceIs ==
  ASSUME NEW T, NEW point
  PROVE  BookPriceOfGroup(T, point) =
           (Dearest(RulesOf(T, "mappings", "flat")) + Costs(TopOf(T, "flat", TRUE)))
           * Product(RulesOf(T, "mappings", "rate") \cup TopOf(T, "rate", TRUE))
           * point.qty
           * Product(TopOf(T, "rate", FALSE)) + Costs(TopOf(T, "flat", FALSE))
  <1> DEFINE onField(type) == {r \in Highest(T) : r.type = type /\ IsField(r.parent)}
             onService(type) == {r \in Highest(T) : r.type = type /\ ~IsField(r.parent)}
  <1>1. \A type : onField(type) = TopOf(T, type, TRUE)
    BY DEF TopOf
  <1>2. \A type : onService(type) = TopOf(T, type, FALSE)
    BY DEF TopOf
  <1>3. BookPriceOfGroup(T, point) =
           (Dearest(RulesOf(T, "mappings", "flat")) + Costs(onField("flat")))
           * Product(RulesOf(T, "mappings", "rate") \cup onField("rate"))
           * point.qty
           * Product(onService("rate")) + Costs(onService("flat"))
    BY DEF BookPriceOfGroup
  <1> HIDE DEF onField, onService
  <1> QED
    BY <1>1, <1>2, <1>3

(* The product of one cost, and of none.                                   *)
LEMMA ProductOfOne ==
  ASSUME NEW b, b.cost \in Int
  PROVE  Product({b}) = b.cost /\ Product({}) = 1
  <1>1. Costed({})
    BY FS_EmptySet DEF Costed
  <1>2. Product({}) = 1
    BY <1>1, ProductOfFirst
  <1>3. Product({} \cup {b}) = b.cost * Product({})
    BY <1>1, ProductWith
  <1>4. {} \cup {b} = {b}
    OBVIOUS
  <1> QED
    BY <1>2, <1>3, <1>4

(* What GroupPrice and BookPriceOfGroup compute in each case, factors in   *)
(* their order.                                                            *)
LEMMA Products ==
  ASSUME NEW f \in Int, NEW r \in Int, NEW q \in Int, NEW c \in Int
  PROVE  /\ r * f * q = (f + 0) * r * q * 1 + 0
         /\ r * (f + c) * q = (f + c) * r * q * 1 + 0
         /\ (r * c) * f * q = (f + 0) * (c * r) * q * 1 + 0
         /\ r * f * q + c = (f + 0) * r * q * 1 + c
         /\ (r * f * q) * c = (f + 0) * r * q * c + 0
  <1>1. \A i, j \in Int : i * j \in Int /\ i * j = j * i
    OBVIOUS
  <1> DEFINE s == f + c
             p == f * r
             t == c * r
  <1>2. s \in Int /\ p \in Int /\ t \in Int /\ r * f = p /\ r * c = t /\ r * s = s * r
    BY <1>1
  <1>3. t * f = f * t
    BY <1>1, <1>2
  <1> HIDE DEF s, t
  <1>4. (s * r) * q \in Int /\ (f * t) * q \in Int /\ (f * r) * q \in Int
        /\ ((f * r) * q) * c \in Int
    BY <1>1, <1>2
  <1> QED
    BY <1>2, <1>3, <1>4 DEF s, t

(* The price that an entry gives is the one of the rows it describes.      *)
LEMMA GroupPriced ==
  ASSUME NEW T, ArePriced(T), Distinct(T), NEW e, Describes(e, T),
         NEW point, point.qty \in Int
  PROVE  GroupPrice(e, point.qty) = BookPriceOfGroup(T, point)
  <1> DEFINE R == RulesOf(T, "mappings", "rate")
             qty == point.qty
             f == e.flat
             rate == e.rate
             ff == TopOf(T, "flat", TRUE)
             fr == TopOf(T, "rate", TRUE)
             sf == TopOf(T, "flat", FALSE)
             sr == TopOf(T, "rate", FALSE)
  <1>1. f \in Int /\ rate \in Int /\ qty \in Int
    BY DEF Describes, Entries
  <1>2. Dearest(RulesOf(T, "mappings", "flat")) = f
    <2>1. Flats(T) \in SUBSET Int
      BY DEF Flats, RulesOf, ArePriced, Valued
    <2>2. Max(Flats(T)) = f
      BY <2>1, MaxIs DEF Describes
    <2> QED
      BY <2>2 DEF Dearest, Flats
  <1>3. Costed(R) /\ Product(R) = rate
    BY PricedCosts DEF Describes, RulesOf
  <1>4. BookPriceOfGroup(T, point) =
          (f + Costs(ff)) * Product(R \cup fr) * qty * Product(sr) + Costs(sf)
    BY <1>2, BookPriceIs
  <1> HIDE DEF R
  <1>5. Costs({}) = 0 /\ Product({}) = 1 /\ Product(R \cup {}) = rate
    <2>1. R \cup {} = R
      OBVIOUS
    <2>2. Costed({})
      BY FS_EmptySet DEF Costed
    <2>3. Product({}) = 1
      BY <2>2, ProductOfFirst
    <2> QED
      BY <1>3, <2>1, <2>3, CostOfNone
  <1>6. CASE \A r \in T : r.kind # "thresholds"
    <2>1. Highest(T) = {}
      BY <1>6 DEF Highest
    <2>2. ff = {} /\ fr = {} /\ sf = {} /\ sr = {}
      BY <2>1 DEF TopOf
    <2>3. BookPriceOfGroup(T, point) = (f + 0) * rate * qty * 1 + 0
      BY <1>4, <1>5, <2>2
    <2>4. e.cost = 0 /\ e.type = "flat" /\ e.scope = "field"
      BY <1>6 DEF Describes, HoldsHighest
    <2>5. GroupPrice(e, qty) = rate * (f + 0) * qty
      BY <2>4 DEF GroupPrice
    <2> HIDE DEF f, rate, qty
    <2>6. f + 0 = f
      BY <1>1
    <2> QED
      BY <1>1, <2>3, <2>5, <2>6, Products DEF qty
  <1>7. CASE ~(\A r \in T : r.kind # "thresholds")
    <2>1. PICK b \in Highest(T) : /\ e.cost = b.cost
                                  /\ e.type = b.type /\ e.scope = ScopeOf(b)
      BY <1>7 DEF Describes, HoldsHighest
    <2> DEFINE c == b.cost
    <2>2. /\ Highest(T) = {b} /\ b \notin R /\ b \in T /\ c \in Int
          /\ b.type \in {"flat", "rate"}
      BY OneHighest DEF Highest, R, RulesOf, ArePriced, Valued
    <2>3. /\ Costs({b}) = c /\ Product({b}) = c /\ Product(R \cup {b}) = c * rate
      BY <1>3, <2>2, CostOfOne, ProductOfOne, ProductWith
    <2>4. CASE b.type = "flat" /\ IsField(b.parent)
      <3>1. ff = {b} /\ fr = {} /\ sf = {} /\ sr = {}
        BY <2>2, <2>4 DEF TopOf
      <3>2. BookPriceOfGroup(T, point) = (f + c) * rate * qty * 1 + 0
        BY <1>4, <1>5, <2>3, <3>1
      <3>3. GroupPrice(e, qty) = rate * (f + c) * qty
        BY <2>1, <2>4 DEF GroupPrice, ScopeOf
      <3> HIDE DEF f, rate, qty, c
      <3> QED
        BY <1>1, <2>2, <3>2, <3>3, Products DEF qty
    <2>5. CASE b.type = "rate" /\ IsField(b.parent)
      <3>1. ff = {} /\ fr = {b} /\ sf = {} /\ sr = {}
        BY <2>2, <2>5 DEF TopOf
      <3>2. BookPriceOfGroup(T, point) = (f + 0) * (c * rate) * qty * 1 + 0
        BY <1>4, <1>5, <2>3, <3>1
      <3>3. GroupPrice(e, qty) = (rate * c) * f * qty
        BY <2>1, <2>5 DEF GroupPrice, ScopeOf
      <3> HIDE DEF f, rate, qty, c
      <3> QED
        BY <1>1, <2>2, <3>2, <3>3, Products DEF qty
    <2>6. CASE b.type = "flat" /\ ~IsField(b.parent)
      <3>1. ff = {} /\ fr = {} /\ sf = {b} /\ sr = {}
        BY <2>2, <2>6 DEF TopOf
      <3>2. BookPriceOfGroup(T, point) = (f + 0) * rate * qty * 1 + c
        BY <1>4, <1>5, <2>3, <3>1
      <3>3. GroupPrice(e, qty) = rate * f * qty + c
        BY <2>1, <2>6 DEF GroupPrice, ScopeOf
      <3> HIDE DEF f, rate, qty, c
      <3> QED
        BY <1>1, <2>2, <3>2, <3>3, Products DEF qty
    <2>7. CASE b.type = "rate" /\ ~IsField(b.parent)
      <3>1. ff = {} /\ fr = {} /\ sf = {} /\ sr = {b}
        BY <2>2, <2>7 DEF TopOf
      <3>2. BookPriceOfGroup(T, point) = (f + 0) * rate * qty * c + 0
        BY <1>4, <1>5, <2>3, <3>1
      <3>3. GroupPrice(e, qty) = (rate * f * qty) * c
        BY <2>1, <2>7 DEF GroupPrice, ScopeOf
      <3> HIDE DEF f, rate, qty, c
      <3> QED
        BY <1>1, <2>2, <3>2, <3>3, Products DEF qty
    <2> QED
      BY <2>2, <2>4, <2>5, <2>6, <2>7
  <1> QED
    BY <1>6, <1>7

-----------------------------------------------------------------------------
(***************************************************************************)
(* The matches of a point are the rows that concern it, in some order: the *)
(* rows of the service first.                                              *)
(***************************************************************************)
AnyMatch == {MatchOf(r) : r \in rows}

(* An order of the rows of T.                                              *)
IsOrder(order, n, T) ==
  /\ order \in [1..n -> T]
  /\ \A i, j \in 1..n : order[i] = order[j] => i = j
  /\ \A r \in T : \E i \in 1..n : order[i] = r
  /\ \A i, j \in 1..n : i < j /\ IsField(order[i].parent) => IsField(order[j].parent)

IsListing(ms, T) ==
  /\ ms \in Seq(AnyMatch)
  /\ \E order : /\ IsOrder(order, Len(ms), T)
                /\ \A i \in 1..Len(ms) : ms[i] = MatchOf(order[i])

(* A set made a sequence: all of it, each once.                            *)
LEMMA SetToSeqIs ==
  ASSUME NEW X, IsFiniteSet(X)
  PROVE  LET seq == SetToSeq(X)
         IN  /\ seq \in Seq(X)
             /\ \A i, j \in 1..Len(seq) : seq[i] = seq[j] => i = j
             /\ \A x \in X : \E i \in 1..Len(seq) : seq[i] = x
  <1> DEFINE D == 1..Cardinality(X)
             seq == SetToSeq(X)
  <1>1. Cardinality(X) \in Nat /\ IsFiniteSet(D) /\ Cardinality(D) = Cardinality(X)
    BY FS_CardinalityType, FS_Interval
  <1>2. ExistsBijection(D, X)
    BY <1>1, FS_SameCardinalityBij
  <1>3. \E f \in [D -> X] : IsInjective(f)
    BY <1>2 DEF ExistsBijection, Bijection, Injection
  <1>4. seq \in [D -> X] /\ IsInjective(seq)
    BY <1>3 DEF SetToSeq
  <1> HIDE DEF seq
  <1>5. seq \in Injection(D, X)
    BY <1>4 DEF Injection
  <1>6. seq \in Surjection(D, X)
    BY <1>1, <1>5, FS_Injection
  <1>7. seq \in Seq(X) /\ Len(seq) = Cardinality(X)
    BY <1>1, <1>4
  <1>8. \A i, j \in D : seq[i] = seq[j] => i = j
    BY <1>4 DEF IsInjective
  <1>9. \A x \in X : \E i \in D : seq[i] = x
    BY <1>6 DEF Surjection
  <1> QED
    BY <1>7, <1>8, <1>9 DEF seq

(* Matches lists the rows whose rules it is given.                         *)
LEMMA MatchesListed ==
  ASSUME NEW T \in SUBSET rows, IsFiniteSet(T), NEW rules, NEW kind, NEW scope,
         rules = {Rule(r) : r \in T},
         \A r, q \in T : Rule(r) = Rule(q) => r = q,
         \A r \in T : r.kind = kind /\ ScopeOf(r) = scope
  PROVE  IsListing(Matches(rules, kind, scope), T)
  <1> DEFINE X == {[rule |-> r, kind |-> kind, scope |-> scope] : r \in rules}
             f == [r \in T |-> MatchOf(r)]
             seq == SetToSeq(X)
             row(m) == CHOOSE r \in T : MatchOf(r) = m
             order == [i \in 1..Len(seq) |-> row(seq[i])]
  <1>1. \A r \in T : MatchOf(r) = [rule |-> Rule(r), kind |-> kind, scope |-> scope]
    BY DEF MatchOf
  <1>2. X = {MatchOf(r) : r \in T}
    BY <1>1
  <1>3. Matches(rules, kind, scope) = seq
    BY DEF Matches
  <1> HIDE DEF X
  <1>4. f \in Surjection(T, X)
    BY <1>2 DEF Surjection
  <1>5. IsFiniteSet(X) /\ X \in SUBSET AnyMatch
    BY <1>2, <1>4, FS_Surjection DEF AnyMatch
  <1>6. \A r, q \in T : MatchOf(r) = MatchOf(q) => r = q
    BY DEF MatchOf
  <1>7. /\ seq \in Seq(X)
        /\ \A i, j \in 1..Len(seq) : seq[i] = seq[j] => i = j
        /\ \A x \in X : \E i \in 1..Len(seq) : seq[i] = x
    BY <1>5, SetToSeqIs
  <1> HIDE DEF seq
  <1>8. \A m \in X : row(m) \in T /\ MatchOf(row(m)) = m
    BY <1>2
  <1>9. \A i \in 1..Len(seq) : seq[i] \in X
    BY <1>7
  <1>10. \A r \in T : row(MatchOf(r)) = r
    BY <1>6
  <1> HIDE DEF row
  <1>11. order \in [1..Len(seq) -> T] /\ \A i \in 1..Len(seq) : seq[i] = MatchOf(order[i])
    BY <1>8, <1>9
  <1>12. \A i, j \in 1..Len(seq) : order[i] = order[j] => i = j
    BY <1>7, <1>11
  <1>13. \A r \in T : \E i \in 1..Len(seq) : order[i] = r
    <2> SUFFICES ASSUME NEW r \in T
                 PROVE  \E i \in 1..Len(seq) : order[i] = r
      OBVIOUS
    <2>1. PICK i \in 1..Len(seq) : seq[i] = MatchOf(r)
      BY <1>2, <1>7
    <2> QED
      BY <1>10, <2>1
  <1> HIDE DEF order
  <1>14. \A i, j \in 1..Len(seq) : IsField(order[i].parent) => IsField(order[j].parent)
    BY <1>11 DEF ScopeOf
  <1>15. seq \in Seq(AnyMatch)
    BY <1>5, <1>7
  <1> QED
    BY <1>3, <1>11, <1>12, <1>13, <1>14, <1>15 DEF IsListing, IsOrder

(* An order of rows followed by one of other rows is one of both.          *)
LEMMA OrdersJoined ==
  ASSUME NEW k \in Nat, NEW n \in Nat, NEW S, NEW T, S \cap T = {},
         NEW a, IsOrder(a, k, S), NEW b, IsOrder(b, n, T),
         \A r \in S, q \in T : IsField(r.parent) => IsField(q.parent)
  PROVE  IsOrder([i \in 1..(k + n) |-> IF i <= k THEN a[i] ELSE b[i - k]], k + n, S \cup T)
  <1> DEFINE o == [i \in 1..(k + n) |-> IF i <= k THEN a[i] ELSE b[i - k]]
             D == 1..(k + n)
  <1>1. \A i \in D : IF i <= k THEN i \in 1..k /\ o[i] = a[i] /\ o[i] \in S
                     ELSE i - k \in 1..n /\ o[i] = b[i - k] /\ o[i] \in T
    BY DEF IsOrder
  <1>2. o \in [D -> S \cup T]
    BY <1>1
  <1>3. \A i \in 1..k : i \in D /\ o[i] = a[i]
    OBVIOUS
  <1>4. \A i \in 1..n : i + k \in D /\ o[i + k] = b[i]
    OBVIOUS
  <1> HIDE DEF o
  <1>5. ASSUME NEW i \in D, NEW j \in D, o[i] = o[j]
        PROVE  i = j
    <2>1. CASE i <= k /\ j <= k
      BY <1>1, <1>5, <2>1 DEF IsOrder
    <2>2. CASE ~(i <= k) /\ ~(j <= k)
      <3>1. i - k = j - k
        BY <1>1, <1>5, <2>2 DEF IsOrder
      <3> QED
        BY <3>1
    <2>3. (i <= k) <=> (j <= k)
      <3>1. (i <= k => o[i] \in S) /\ (~(i <= k) => o[i] \in T)
        BY <1>1
      <3>2. (j <= k => o[j] \in S) /\ (~(j <= k) => o[j] \in T)
        BY <1>1
      <3> QED
        BY <1>5, <3>1, <3>2
    <2> QED
      BY <2>1, <2>2, <2>3
  <1>6. ASSUME NEW r \in S \cup T
        PROVE  \E i \in D : o[i] = r
    <2>1. CASE r \in S
      BY <1>3, <2>1 DEF IsOrder
    <2>2. CASE r \in T
      BY <1>4, <2>2 DEF IsOrder
    <2> QED
      BY <2>1, <2>2
  <1>7. ASSUME NEW i \in D, NEW j \in D, i < j, IsField(o[i].parent)
        PROVE  IsField(o[j].parent)
    <2>1. CASE j <= k
      <3>1. i <= k
        BY <1>7, <2>1
      <3> QED
        BY <1>1, <1>7, <2>1, <3>1 DEF IsOrder
    <2>2. CASE ~(j <= k) /\ i <= k
      BY <1>1, <1>7, <2>2
    <2>3. CASE ~(j <= k) /\ ~(i <= k)
      <3>1. i - k < j - k
        BY <1>7
      <3> QED
        BY <1>1, <1>7, <2>3, <3>1 DEF IsOrder
    <2> QED
      BY <2>1, <2>2, <2>3
  <1>8. IsOrder(o, k + n, S \cup T)
    BY <1>2, <1>5, <1>6, <1>7 DEF IsOrder
  <1> QED
    BY <1>8 DEF o

(* And so are their matches.                                               *)
LEMMA ListingsJoined ==
  ASSUME NEW S, NEW T, S \cap T = {}, NEW a, IsListing(a, S), NEW b, IsListing(b, T),
         \A r \in S, q \in T : IsField(r.parent) => IsField(q.parent)
  PROVE  IsListing(a \o b, S \cup T)
  <1>1. /\ a \in Seq(AnyMatch) /\ b \in Seq(AnyMatch) /\ Len(a) \in Nat /\ Len(b) \in Nat
    BY DEF IsListing
  <1>2. PICK oa : /\ IsOrder(oa, Len(a), S)
                  /\ \A i \in 1..Len(a) : a[i] = MatchOf(oa[i])
    BY DEF IsListing
  <1>3. PICK ob : /\ IsOrder(ob, Len(b), T)
                  /\ \A i \in 1..Len(b) : b[i] = MatchOf(ob[i])
    BY DEF IsListing
  <1> DEFINE n == Len(a) + Len(b)
             o == [i \in 1..n |-> IF i <= Len(a) THEN oa[i] ELSE ob[i - Len(a)]]
  <1>4. IsOrder(o, n, S \cup T)
    <2> DEFINE k == Len(a)
               l == Len(b)
    <2>1. k \in Nat /\ l \in Nat /\ IsOrder(oa, k, S) /\ IsOrder(ob, l, T)
      BY <1>1, <1>2, <1>3
    <2> HIDE DEF k, l
    <2>2. IsOrder([i \in 1..(k + l) |-> IF i <= k THEN oa[i] ELSE ob[i - k]], k + l, S \cup T)
      BY <2>1, OrdersJoined
    <2> QED
      BY <2>2 DEF k, l
  <1>5. /\ a \o b \in Seq(AnyMatch) /\ Len(a \o b) = n
        /\ \A i \in 1..n : (a \o b)[i] = IF i <= Len(a) THEN a[i] ELSE b[i - Len(a)]
    BY <1>1
  <1>6. \A i \in 1..n : IF i <= Len(a) THEN i \in 1..Len(a) ELSE i - Len(a) \in 1..Len(b)
    BY <1>1
  <1>7. \A i \in 1..n : (a \o b)[i] = MatchOf(o[i])
    BY <1>2, <1>3, <1>5, <1>6
  <1> HIDE DEF o
  <1> QED
    BY <1>4, <1>5, <1>7 DEF IsListing

(* No matches list no rows.                                                *)
LEMMA NoneListed == IsListing(<<>>, {})
  <1>1. <<>> \in Seq(AnyMatch) /\ Len(<<>>) = 0 /\ 1..0 = {}
    OBVIOUS
  <1>2. IsOrder(<<>>, 0, {})
    BY <1>1 DEF IsOrder
  <1> QED
    BY <1>1, <1>2 DEF IsListing

IsPoint(point) ==
  point.service \in Services /\ point.qty \in Nat /\ DOMAIN point.desc \subseteq Fields

Concerned(point) == {r \in Effective : Concerns(r, point)}

(* Those of the rows that concern a point which belong to one of P.        *)
OfParents(point, P) == {r \in Concerned(point) : r.parent \in P}

(* The rows or rules of S whose key is one of keys.                        *)
Keyed(S, keys) == {r \in S : r.key \in keys}

RulesIn(R) == {Rule(r) : r \in R}

(* Rules with certain keys are those of the rows with these keys.          *)
LEMMA RulesAmong ==
  ASSUME NEW R, NEW keys
  PROVE  Keyed(RulesIn(R), keys) = RulesIn(Keyed(R, keys))
  <1>1. \A r : Rule(r).key = r.key
    BY DEF Rule
  <1> QED
    BY <1>1 DEF Keyed, RulesIn

(* The rows of a parent that have the keys of their kind.                  *)
RowsKeyed(p, keys, levels) ==
  {r \in Effective : /\ r.parent = p
                     /\ r.key \in IF r.kind = "mappings" THEN keys ELSE levels}

(* The matches with the mappings and thresholds of those keys.             *)
KeyedMatches(p, scope, keys, levels) ==
  Matches(Keyed(entries[<<p, "mappings">>], keys), "mappings", scope)
  \o Matches(Keyed(entries[<<p, "thresholds">>], levels), "thresholds", scope)

(* The rows of one parent and kind, and what is loaded of them.            *)
LEMMA RowsAtAre ==
  ASSUME PriceInv, Undisturbed, NEW p \in Parents, NEW kind \in Kinds
  PROVE  LET R == RowsAt(<<p, kind>>)
         IN  /\ R \in SUBSET rows /\ IsFiniteSet(R)
             /\ R = {r \in Effective : r.parent = p /\ r.kind = kind}
             /\ \A r \in R : r.parent = p /\ r.kind = kind /\ r.kind \in Kinds
             /\ \A r, q \in R : Rule(r) = Rule(q) => r = q
             /\ entries[<<p, kind>>] = RulesIn(R)
  <1>1. <<p, kind>> \in Parents \X Kinds
    OBVIOUS
  <1>2. RowsAt(<<p, kind>>) = {r \in Effective : r.parent = p /\ r.kind = kind}
    BY DEF RowsAt
  <1>3. RowsAt(<<p, kind>>) \in SUBSET rows
    BY <1>2 DEF Effective
  <1> QED
    BY <1>1, <1>2, <1>3, RulesApart, EntriesAreRules DEF RulesIn

(* The matches with the mappings and thresholds of one parent.             *)
LEMMA ParentMatches ==
  ASSUME PriceInv, Undisturbed, NEW p \in Parents, NEW scope,
         scope = IF IsField(p) THEN "field" ELSE "service", NEW keys, NEW levels
  PROVE  IsListing(KeyedMatches(p, scope, keys, levels), RowsKeyed(p, keys, levels))
  <1> DEFINE M == RowsAt(<<p, "mappings">>)
             H == RowsAt(<<p, "thresholds">>)
             MK == Keyed(M, keys)
             HK == Keyed(H, levels)
             mk == Keyed(entries[<<p, "mappings">>], keys)
             hk == Keyed(entries[<<p, "thresholds">>], levels)
  <1>1. "mappings" \in Kinds /\ "thresholds" \in Kinds
    BY DEF Kinds
  <1>2. /\ M \in SUBSET rows /\ IsFiniteSet(M)
        /\ M = {r \in Effective : r.parent = p /\ r.kind = "mappings"}
        /\ \A r \in M : r.parent = p /\ r.kind = "mappings"
        /\ \A r, q \in M : Rule(r) = Rule(q) => r = q
        /\ entries[<<p, "mappings">>] = RulesIn(M)
    BY <1>1, RowsAtAre
  <1>3. /\ H \in SUBSET rows /\ IsFiniteSet(H)
        /\ H = {r \in Effective : r.parent = p /\ r.kind = "thresholds"}
        /\ \A r \in H : r.parent = p /\ r.kind = "thresholds"
        /\ \A r, q \in H : Rule(r) = Rule(q) => r = q
        /\ entries[<<p, "thresholds">>] = RulesIn(H)
    BY <1>1, RowsAtAre
  <1> HIDE DEF M, H
  <1>4. mk = RulesIn(MK) /\ hk = RulesIn(HK)
    BY <1>2, <1>3, RulesAmong
  <1>5. MK \in SUBSET rows /\ IsFiniteSet(MK) /\ HK \in SUBSET rows /\ IsFiniteSet(HK)
    <2>1. MK \in SUBSET M /\ HK \in SUBSET H
      BY DEF Keyed
    <2> QED
      BY <1>2, <1>3, <2>1, FS_Subset
  <1>6. /\ \A r, q \in MK : Rule(r) = Rule(q) => r = q
        /\ \A r, q \in HK : Rule(r) = Rule(q) => r = q
    BY <1>2, <1>3 DEF Keyed
  <1>7. /\ \A r \in MK : r.kind = "mappings" /\ ScopeOf(r) = scope
        /\ \A r \in HK : r.kind = "thresholds" /\ ScopeOf(r) = scope
    BY <1>2, <1>3 DEF ScopeOf, Keyed
  <1>8. MK \cap HK = {}
    BY <1>2, <1>3 DEF Keyed
  <1>9. \A r \in MK, q \in HK : IsField(r.parent) => IsField(q.parent)
    BY <1>2, <1>3 DEF Keyed
  <1>10. MK \cup HK = RowsKeyed(p, keys, levels)
    <2>1. \A r \in Effective : r.kind \in {"mappings", "thresholds"}
      BY RowsAreKnown DEF Effective, IsRow, Kinds
    <2> QED
      BY <1>2, <1>3, <2>1 DEF Keyed, RowsKeyed
  <1> HIDE DEF MK, HK, mk, hk
  <1>11. IsListing(Matches(mk, "mappings", scope), MK)
    BY <1>4, <1>5, <1>6, <1>7, MatchesListed DEF RulesIn
  <1>12. IsListing(Matches(hk, "thresholds", scope), HK)
    BY <1>4, <1>5, <1>6, <1>7, MatchesListed DEF RulesIn
  <1>13. IsListing(Matches(mk, "mappings", scope) \o Matches(hk, "thresholds", scope), MK \cup HK)
    BY <1>8, <1>9, <1>11, <1>12, ListingsJoined
  <1> QED
    BY <1>10, <1>13 DEF mk, hk, KeyedMatches

(* ProcessServices finds the rows of the service that concern the point.   *)
LEMMA ServiceMatches ==
  ASSUME PriceInv, Undisturbed, NEW point, IsPoint(point)
  PROVE  IsListing(ProcessServices(point), OfParents(point, {<<point.service>>}))
  <1> DEFINE p == <<point.service>>
             levels == {k \in Nat : k <= point.qty}
             keys == {r.key : r \in Effective}
  <1>1. p \in Parents /\ ~IsField(p) /\ p[1] = point.service /\ p \in ServiceParents
    BY ParentShape DEF IsPoint, ServiceParents
  <1>2. <<p, "mappings">> \in Parents \X Kinds /\ <<p, "thresholds">> \in Parents \X Kinds
    BY <1>1 DEF Kinds
  <1>3. /\ entries[<<p, "mappings">>] = {Rule(r) : r \in RowsAt(<<p, "mappings">>)}
        /\ entries[<<p, "thresholds">>] = {Rule(r) : r \in RowsAt(<<p, "thresholds">>)}
    BY <1>2, EntriesAreRules
  <1>4. \A r \in Effective : /\ r.kind \in {"mappings", "thresholds"}
                             /\ r.kind = "thresholds" => r.key \in Nat
    BY RowsAreKnown DEF Effective, IsRow, Kinds, Valued
  <1>5. entries[<<p, "mappings">>] = Keyed(entries[<<p, "mappings">>], keys)
    BY <1>3 DEF RowsAt, Rule, Keyed
  <1>6. {r \in entries[<<p, "thresholds">>] : point.qty >= r.key}
          = Keyed(entries[<<p, "thresholds">>], levels)
    <2>1. point.qty \in Nat
      BY DEF IsPoint
    <2>2. \A r \in entries[<<p, "thresholds">>] : r.key \in Nat
      BY <1>3, <1>4 DEF RowsAt, Rule
    <2>3. \A r \in entries[<<p, "thresholds">>] : point.qty >= r.key <=> r.key \in levels
      BY <2>1, <2>2
    <2> HIDE DEF levels
    <2> QED
      BY <2>3 DEF Keyed
  <1>7. OfParents(point, {p}) = RowsKeyed(p, keys, levels)
    <2>1. ASSUME NEW r \in Effective, r.parent = p
          PROVE  Concerns(r, point) <=> r.key \in IF r.kind = "mappings" THEN keys ELSE levels
      BY <1>1, <1>4, <2>1 DEF Concerns
    <2> HIDE DEF keys, levels, p
    <2> QED
      BY <2>1 DEF OfParents, Concerned, RowsKeyed
  <1> HIDE DEF keys, levels
  <1>8. IsListing(KeyedMatches(p, "service", keys, levels), RowsKeyed(p, keys, levels))
    BY <1>1, ParentMatches
  <1>9. ProcessServices(point) =
          Matches(entries[<<p, "mappings">>], "mappings", "service")
          \o Matches({r \in entries[<<p, "thresholds">>] : point.qty >= r.key},
                     "thresholds", "service")
    BY DEF ProcessServices
  <1> HIDE DEF p
  <1>10. ProcessServices(point) = KeyedMatches(p, "service", keys, levels)
    BY <1>5, <1>6, <1>9 DEF KeyedMatches
  <1>11. IsListing(ProcessServices(point), OfParents(point, {p}))
    BY <1>7, <1>8, <1>10
  <1> QED
    BY <1>11 DEF p

(* ProcessField finds those of one field, the mappings of the point's      *)
(* value or the thresholds that it reaches.                                *)
LEMMA FieldMatches ==
  ASSUME PriceInv, Undisturbed, NEW point, IsPoint(point), NEW p \in FieldParents
  PROVE  IsListing(ProcessField(point, p), OfParents(point, {p}))
  <1>1. p \in Parents /\ IsField(p)
    BY ParentShape
  <1>2. CASE p[1] # point.service \/ p[2] \notin DOMAIN point.desc
    <2>1. ProcessField(point, p) = <<>>
      BY <1>2 DEF ProcessField
    <2>2. OfParents(point, {p}) = {}
      BY <1>1, <1>2 DEF OfParents, Concerned, Concerns
    <2> QED
      BY <2>1, <2>2, NoneListed
  <1>3. CASE ~(p[1] # point.service \/ p[2] \notin DOMAIN point.desc)
    <2> DEFINE value == point.desc[p[2]]
               keys == {value}
               levels == {r.key : r \in {q \in Effective : q.key <= value}}
               mk == Keyed(entries[<<p, "mappings">>], keys)
               hk == Keyed(entries[<<p, "thresholds">>], levels)
               mv == {r \in entries[<<p, "mappings">>] : value = r.key}
               hv == {r \in entries[<<p, "thresholds">>] : value >= r.key}
    <2>1. <<p, "thresholds">> \in Parents \X Kinds
      BY <1>1 DEF Kinds
    <2>2. entries[<<p, "thresholds">>] = {Rule(r) : r \in RowsAt(<<p, "thresholds">>)}
      BY <2>1, EntriesAreRules
    <2>3. mk = mv
      BY DEF Keyed
    <2>4. \A r \in Effective : r.key \in levels <=> r.key <= value
      OBVIOUS
    <2>5. hk = hv
      <3>1. \A k : value >= k <=> k <= value
        OBVIOUS
      <3>2. \A r \in entries[<<p, "thresholds">>] : \E q \in Effective : r.key = q.key
        BY <2>2 DEF RowsAt, Rule
      <3>3. \A r \in entries[<<p, "thresholds">>] : r.key \in levels <=> value >= r.key
        <4> HIDE DEF levels, value
        <4> QED
          BY <2>4, <3>1, <3>2
      <3> HIDE DEF levels, value
      <3> QED
        BY <3>3 DEF Keyed
    <2>6. OfParents(point, {p}) = RowsKeyed(p, keys, levels)
      <3>1. ASSUME NEW r \in Effective, r.parent = p
            PROVE  Concerns(r, point) <=> r.key \in IF r.kind = "mappings" THEN keys ELSE levels
        <4>1. Concerns(r, point) <=> IF r.kind = "mappings" THEN r.key = value
                                                            ELSE r.key <= value
          BY <1>1, <1>3, <3>1 DEF Concerns
        <4> HIDE DEF levels, value
        <4> QED
          BY <2>4, <4>1
      <3> HIDE DEF keys, levels
      <3> QED
        BY <3>1 DEF OfParents, Concerned, RowsKeyed
    <2>7. ProcessField(point, p) =
            Matches(mv, "mappings", "field") \o Matches(hv, "thresholds", "field")
      BY <1>3 DEF ProcessField
    <2> HIDE DEF mv, hv, value, keys, levels
    <2>8. IsListing(KeyedMatches(p, "field", keys, levels), RowsKeyed(p, keys, levels))
      BY <1>1, ParentMatches
    <2> HIDE DEF mk, hk
    <2>9. ProcessField(point, p) = KeyedMatches(p, "field", keys, levels)
      BY <2>3, <2>5, <2>7 DEF KeyedMatches, mk, hk
    <2> QED
      BY <2>6, <2>8, <2>9
  <1> QED
    BY <1>2, <1>3

IsFound(r, point) ==
  r = [s \in SUBSET DOMAIN fields |->
         IF s = {} THEN <<>>
         ELSE r[s \ {Max(s)}] \o ProcessField(point, fields[Max(s)])]

(* The function that FoldLeft chooses in ProcessFields exists.             *)
LEMMA FoundExists ==
  ASSUME NEW point, NEW n \in Nat, DOMAIN fields = 1..n,
         \A i \in 1..n : ProcessField(point, fields[i]) \in Seq(AnyMatch)
  PROVE  \E r \in [SUBSET (1..n) -> Seq(AnyMatch)] : IsFound(r, point)
  <1> DEFINE D == 1..n
             V == Seq(AnyMatch)
             step == [p \in D \X V |-> p[2] \o ProcessField(point, fields[p[1]])]
             pick == [s \in SUBSET D |-> Max(s)]
  <1>1. IsFiniteSet(D)
    BY FS_Interval
  <1>2. <<>> \in V
    OBVIOUS
  <1>3. \A i \in D, v \in V : v \o ProcessField(point, fields[i]) \in V
    OBVIOUS
  <1>4. step \in [D \X V -> V]
    BY <1>3
  <1>5. \A s \in SUBSET D : s # {} => pick[s] \in s /\ pick[s] = Max(s)
    BY LastNumber
  <1>6. \A i \in D, v \in V : step[<<i, v>>] = v \o ProcessField(point, fields[i])
    OBVIOUS
  <1> HIDE DEF D, V, step, pick
  <1>7. PICK r \in [SUBSET D -> V] : IsFold(r, pick, step, <<>>, D)
    BY <1>1, <1>2, <1>4, <1>5, FoldExists
  <1>8. \A s \in SUBSET D :
          r[s] = IF s = {} THEN <<>>
                 ELSE r[s \ {Max(s)}] \o ProcessField(point, fields[Max(s)])
    <2> SUFFICES ASSUME NEW s \in SUBSET D, s # {}
                 PROVE  r[s] = r[s \ {Max(s)}] \o ProcessField(point, fields[Max(s)])
      BY <1>7 DEF IsFold, FoldStep
    <2> DEFINE t == s \ {pick[s]}
    <2>1. t \in SUBSET D /\ pick[s] \in D /\ pick[s] = Max(s)
      BY <1>5
    <2>2. r[s] = step[<<pick[s], r[t]>>]
      BY <1>7 DEF IsFold, FoldStep
    <2> HIDE DEF t
    <2>3. r[t] \in V
      BY <1>7, <2>1
    <2>4. r[s] = r[t] \o ProcessField(point, fields[pick[s]])
      BY <1>6, <2>1, <2>2, <2>3
    <2> QED
      BY <2>1, <2>4 DEF t
  <1>9. IsFound(r, point)
    BY <1>7, <1>8 DEF IsFound, D
  <1> QED
    BY <1>7, <1>9 DEF D, V

(* The fields loaded last, and those before it.                            *)
LoadedFields(k) == {fields[i] : i \in 1..k}

(* Each field loaded is another one.                                       *)
LEMMA FieldsOneByOne ==
  ASSUME PriceInv, NEW k \in Nat, k + 1 \in DOMAIN fields
  PROVE  /\ fields[k + 1] \in FieldParents /\ fields[k + 1] \notin LoadedFields(k)
         /\ LoadedFields(k + 1) = LoadedFields(k) \cup {fields[k + 1]}
  <1>1. fields \in Seq(FieldParents) /\ \A i, j \in DOMAIN fields : fields[i] = fields[j] => i = j
    BY DEF PriceInv, FieldsOK
  <1>2. 1..k \in SUBSET DOMAIN fields /\ k + 1 \notin 1..k
    BY <1>1
  <1>3. 1..(k + 1) = (1..k) \cup {k + 1}
    OBVIOUS
  <1>4. LoadedFields(k + 1) = LoadedFields(k) \cup {fields[k + 1]}
    BY <1>3 DEF LoadedFields
  <1>5. fields[k + 1] \notin LoadedFields(k)
    BY <1>1, <1>2 DEF LoadedFields
  <1> QED
    BY <1>1, <1>4, <1>5

(* ProcessFields finds the rows of all fields that concern the point: the  *)
(* fields loaded are those with rules.                                     *)
LEMMA FieldsMatches ==
  ASSUME PriceInv, Undisturbed, NEW point, IsPoint(point)
  PROVE  IsListing(ProcessFields(point), OfParents(point, FieldParents))
  <1> DEFINE r == CHOOSE r : IsFound(r, point)
             n == Len(fields)
             L(k) == IsListing(r[1..k], OfParents(point, LoadedFields(k)))
             N == {k \in Nat : k <= n => L(k)}
  <1>1. ProcessFields(point) = r[DOMAIN fields]
    BY DEF ProcessFields, FoldLeft, MapThenFoldSet, IsFound
  <1>2. fields \in Seq(FieldParents) /\ n \in Nat /\ DOMAIN fields = 1..n
    BY DEF PriceInv, FieldsOK
  <1>3. \A i \in 1..n : /\ fields[i] \in FieldParents
                        /\ IsListing(ProcessField(point, fields[i]), OfParents(point, {fields[i]}))
    BY <1>2, FieldMatches
  <1>4. IsFound(r, point)
    <2>1. \A i \in 1..n : ProcessField(point, fields[i]) \in Seq(AnyMatch)
      BY <1>3 DEF IsListing
    <2>2. \E f : IsFound(f, point)
      BY <1>2, <2>1, FoundExists
    <2> QED
      BY <2>2
  <1> HIDE DEF r, n
  <1>5. \A s \in SUBSET (1..n) :
          r[s] = IF s = {} THEN <<>>
                 ELSE r[s \ {Max(s)}] \o ProcessField(point, fields[Max(s)])
    BY <1>2, <1>4 DEF IsFound
  <1>6. 0 \in N
    <2>1. 1..0 = {} /\ {} \in SUBSET (1..n)
      OBVIOUS
    <2>2. r[1..0] = <<>>
      BY <1>5, <2>1
    <2>3. OfParents(point, LoadedFields(0)) = {}
      BY <2>1 DEF LoadedFields, OfParents
    <2> QED
      BY <2>2, <2>3, NoneListed
  <1>7. ASSUME NEW k \in Nat, k \in N
        PROVE  k + 1 \in N
    <2> SUFFICES ASSUME k + 1 <= n
                 PROVE  L(k + 1)
      OBVIOUS
    <2> DEFINE p == fields[k + 1]
    <2>1. k + 1 \in DOMAIN fields /\ k + 1 \in 1..n /\ L(k) /\ 1..(k + 1) \in SUBSET (1..n)
      BY <1>2, <1>7
    <2>2. /\ 1..(k + 1) # {} /\ Max(1..(k + 1)) = k + 1
          /\ (1..(k + 1)) \ {k + 1} = 1..k
      BY FirstNumbers
    <2>3. r[1..(k + 1)] = r[1..k] \o ProcessField(point, p)
      BY <1>5, <2>1, <2>2
    <2>4. /\ p \in FieldParents /\ p \notin LoadedFields(k)
          /\ LoadedFields(k + 1) = LoadedFields(k) \cup {p}
      BY <2>1, FieldsOneByOne
    <2>5. IsListing(ProcessField(point, p), OfParents(point, {p}))
      BY <1>3, <2>1
    <2> HIDE DEF p
    <2>6. OfParents(point, LoadedFields(k)) \cap OfParents(point, {p}) = {}
      BY <2>4 DEF OfParents
    <2>7. OfParents(point, LoadedFields(k)) \cup OfParents(point, {p})
            = OfParents(point, LoadedFields(k + 1))
      BY <2>4 DEF OfParents
    <2>8. \A x \in OfParents(point, {p}) : IsField(x.parent)
      BY <2>4, ParentShape DEF OfParents
    <2>9. IsListing(r[1..k] \o ProcessField(point, p),
                    OfParents(point, LoadedFields(k)) \cup OfParents(point, {p}))
      BY <2>1, <2>5, <2>6, <2>8, ListingsJoined
    <2> QED
      BY <2>3, <2>7, <2>9
  <1>8. L(n)
    <2> HIDE DEF N, L
    <2>1. Nat \subseteq N
      BY <1>6, <1>7, Induction
    <2> QED
      BY <1>2, <2>1 DEF N
  <1>9. OfParents(point, LoadedFields(n)) = OfParents(point, FieldParents)
    <2>1. \A p \in LoadedFields(n) : p \in FieldParents
      BY <1>3 DEF LoadedFields
    <2>2. ASSUME NEW x \in Effective, x.parent \in FieldParents
          PROVE  x.parent \in LoadedFields(n)
      <3>1. x.kind \in Kinds
        BY RowsAreKnown DEF Effective, IsRow
      <3>2. <<x.parent, x.kind>> \in Parents \X Kinds
        BY <2>2, <3>1, ParentShape
      <3>3. Rule(x) \in entries[<<x.parent, x.kind>>]
        BY <3>2, EntriesAreRules DEF RowsAt
      <3>4. IsLoaded(x.parent)
        BY <2>2, <3>1, <3>3 DEF PriceInv, FieldsOK, FieldOnce
      <3> QED
        BY <1>2, <3>4 DEF IsLoaded, LoadedFields
    <2> QED
      BY <2>1, <2>2 DEF OfParents, Concerned
  <1> QED
    BY <1>1, <1>2, <1>8, <1>9

(* The matches of a point are the rows that concern it, those of the       *)
(* service first.                                                          *)
LEMMA AllMatches ==
  ASSUME PriceInv, Undisturbed, NEW point, IsPoint(point)
  PROVE  IsListing(ProcessServices(point) \o ProcessFields(point), Concerned(point))
  <1> DEFINE S == OfParents(point, {<<point.service>>})
             F == OfParents(point, FieldParents)
  <1>1. IsListing(ProcessServices(point), S) /\ IsListing(ProcessFields(point), F)
    BY ServiceMatches, FieldsMatches
  <1>2. <<point.service>> \in ServiceParents
    BY DEF IsPoint, ServiceParents
  <1>3. /\ \A r \in S : ~IsField(r.parent)
        /\ \A r \in F : IsField(r.parent)
    BY <1>2, ParentShape DEF OfParents
  <1>4. S \cup F = Concerned(point)
    <2>1. \A r \in Concerned(point) : r.parent \in ServiceParents \cup FieldParents
      BY RowsAreKnown, ParentShape DEF Concerned, Effective, IsRow
    <2>2. \A r \in Concerned(point) : r.parent[1] = point.service
      BY DEF Concerned, Concerns
    <2>3. \A p \in ServiceParents : p[1] = point.service => p = <<point.service>>
      BY DEF ServiceParents
    <2> QED
      BY <2>1, <2>2, <2>3 DEF OfParents
  <1> HIDE DEF S, F
  <1>5. S \cap F = {}
    BY <1>3
  <1>6. IsListing(ProcessServices(point) \o ProcessFields(point), S \cup F)
    BY <1>1, <1>3, <1>5, ListingsJoined
  <1> QED
    BY <1>4, <1>6

OfGroup(S, g) == {r \in S : r.group = g}

(* Rows that can be told apart: of two thresholds of one group and level   *)
(* one is of a field, one of the service.                                  *)
AreDistinct(S) == ArePriced(S) /\ \A g : Distinct(OfGroup(S, g))

(* The first rows of an order.                                             *)
Earlier(order, k) == {order[i] : i \in 1..k}

Described(res, S) ==
  /\ DOMAIN res = {r.group : r \in S}
  /\ \A g \in DOMAIN res : Describes(res[g], OfGroup(S, g))

(* One row more of an order.                                               *)
LEMMA EarlierRows ==
  ASSUME NEW S, NEW n \in Nat, NEW order, IsOrder(order, n, S), NEW k \in 0..(n - 1)
  PROVE  /\ order[k + 1] \in S /\ order[k + 1] \notin Earlier(order, k)
         /\ Earlier(order, k) \subseteq S
         /\ Earlier(order, k + 1) = Earlier(order, k) \cup {order[k + 1]}
         /\ \A q \in Earlier(order, k) : IsField(q.parent) => IsField(order[k + 1].parent)
  <1>1. k \in Nat /\ k + 1 \in 1..n /\ 1..k \in SUBSET (1..n) /\ k + 1 \notin 1..k
        /\ \A i \in 1..k : i < k + 1
    OBVIOUS
  <1>2. 1..(k + 1) = (1..k) \cup {k + 1}
    OBVIOUS
  <1>3. Earlier(order, k + 1) = Earlier(order, k) \cup {order[k + 1]}
    BY <1>2 DEF Earlier
  <1> QED
    BY <1>1, <1>3 DEF Earlier, IsOrder

(* One more match.                                                         *)
LEMMA DescribedOn ==
  ASSUME NEW S, AreDistinct(S), NEW T \in SUBSET S, NEW r \in S, r \notin T,
         \A q \in T : IsField(q.parent) => IsField(r.parent),
         NEW G, NEW res \in Results(G), Described(res, T), IsMatch(MatchOf(r), G)
  PROVE  Described(UpdateResult(res, MatchOf(r)), T \cup {r})
  <1> DEFINE m == MatchOf(r)
             g == r.group
             u == UpdateResult(res, m)
             U == OfGroup(T, g)
             e == EntryOf(res, g)
  <1>1. m.rule.group = g
    BY DEF MatchOf, Rule
  <1>2. /\ DOMAIN u = DOMAIN res \cup {g} /\ u[g] = UpdateEntry(e, m)
        /\ \A h \in DOMAIN res : h # g => u[h] = res[h]
    BY <1>1, ResultUpdated
  <1>3. ArePriced(U) /\ Valued(r) /\ r.kind \in Kinds /\ r \notin U
    <2>1. U \in SUBSET S
      BY DEF OfGroup
    <2> QED
      BY <2>1, PricedCosts DEF AreDistinct, ArePriced, OfGroup
  <1>4. Describes(e, U)
    <2>1. CASE g \in DOMAIN res
      BY <2>1 DEF Described, EntryOf
    <2>2. CASE g \notin DOMAIN res
      <3>1. U = {}
        BY <2>2 DEF Described, OfGroup
      <3>2. e = NewEntry
        BY <2>2 DEF EntryOf
      <3> QED
        BY <3>1, <3>2, NewEntryDescribes
    <2> QED
      BY <2>1, <2>2
  <1>5. \A q \in U : r.kind = "thresholds" /\ q.kind = "thresholds" /\ q.key = r.key
                       => IsField(r.parent)
    <2> SUFFICES ASSUME NEW q \in U, r.kind = "thresholds", q.kind = "thresholds",
                        q.key = r.key, ~IsField(r.parent)
                 PROVE  FALSE
      OBVIOUS
    <2>1. q \in T /\ q \in OfGroup(S, g) /\ r \in OfGroup(S, g) /\ ~IsField(q.parent)
      BY DEF OfGroup
    <2>2. Distinct(OfGroup(S, g))
      BY DEF AreDistinct
    <2>3. q = r
      BY <2>1, <2>2 DEF Distinct
    <2> QED
      BY <2>1, <2>3
  <1> HIDE DEF U, e, m, g, u
  <1>6. Describes(UpdateEntry(e, MatchOf(r)), U \cup {r})
    BY <1>3, <1>4, <1>5, DescribesOn
  <1>7. OfGroup(T \cup {r}, g) = U \cup {r}
    BY DEF OfGroup, U, g
  <1>8. \A h : h # g => OfGroup(T \cup {r}, h) = OfGroup(T, h)
    BY DEF OfGroup, g
  <1>9. DOMAIN u = {q.group : q \in T \cup {r}}
    BY <1>2 DEF Described, g
  <1>10. ASSUME NEW h \in DOMAIN u
         PROVE  Describes(u[h], OfGroup(T \cup {r}, h))
    <2>1. CASE h = g
      BY <1>2, <1>6, <1>7, <2>1 DEF m
    <2>2. CASE h # g
      BY <1>2, <1>8, <2>2 DEF Described
    <2> QED
      BY <2>1, <2>2
  <1> QED
    BY <1>9, <1>10 DEF Described, u, m

(* The entries after all the matches, in any order that has the rows of    *)
(* the service first.                                                      *)
LEMMA OrderedResult ==
  ASSUME NEW S, AreDistinct(S), NEW ms, IsListing(ms, S)
  PROVE  Described(ResultOf(ms), S)
  <1> DEFINE n == Len(ms)
             G == {r.group : r \in S}
  <1>1. ms \in Seq(AnyMatch) /\ n \in Nat /\ DOMAIN ms = 1..n
    BY DEF IsListing
  <1>2. PICK order : IsOrder(order, n, S) /\ \A i \in 1..n : ms[i] = MatchOf(order[i])
    BY DEF IsListing
  <1>3. \A r \in S : IsMatch(MatchOf(r), G)
    BY DEF AreDistinct, ArePriced, Valued, IsMatch, MatchOf, Rule, ScopeOf
  <1> HIDE DEF n, G
  <1>4. \A i \in 1..n : order[i] \in S
    BY <1>2 DEF IsOrder
  <1>5. \A i \in 1..n : IsMatch(ms[i], G)
    BY <1>2, <1>3, <1>4
  <1>6. PICK res \in [0..n -> Results(G)] : AreResults(res, n, ms)
    BY <1>1, <1>5, ResultsOfPrefixes
  <1> DEFINE D(k) == Described(res[k], Earlier(order, k))
             N == {k \in Nat : k <= n => D(k)}
  <1>7. 0 \in N
    <2>1. Earlier(order, 0) = {}
      BY DEF Earlier
    <2>2. DOMAIN <<>> = {}
      OBVIOUS
    <2>3. Described(<<>>, {})
      BY <2>2 DEF Described
    <2> QED
      BY <1>6, <2>1, <2>3 DEF AreResults
  <1>8. ASSUME NEW k \in Nat, k \in N
        PROVE  k + 1 \in N
    <2> SUFFICES ASSUME k + 1 <= n
                 PROVE  D(k + 1)
      OBVIOUS
    <2> DEFINE r == order[k + 1]
               T == Earlier(order, k)
    <2>1. k \in 0..(n - 1) /\ k + 1 \in 1..n /\ k \in 0..n /\ D(k)
      BY <1>1, <1>8
    <2>2. /\ r \in S /\ r \notin T /\ T \subseteq S
          /\ Earlier(order, k + 1) = T \cup {r}
          /\ \A q \in T : IsField(q.parent) => IsField(r.parent)
      BY <1>1, <1>2, <2>1, EarlierRows DEF n
    <2>3. res[k] \in Results(G) /\ res[k + 1] = UpdateResult(res[k], MatchOf(r))
      BY <1>2, <1>6, <2>1 DEF AreResults
    <2>4. IsMatch(MatchOf(r), G)
      BY <1>3, <2>2
    <2> HIDE DEF r, T
    <2>5. Described(UpdateResult(res[k], MatchOf(r)), T \cup {r})
      <3>1. Described(res[k], T)
        BY <2>1 DEF T
      <3> QED
        BY <2>2, <2>3, <2>4, <3>1, DescribedOn
    <2> QED
      BY <2>2, <2>3, <2>5
  <1>9. D(n)
    <2> HIDE DEF N, D
    <2>1. Nat \subseteq N
      BY <1>7, <1>8, Induction
    <2> QED
      BY <1>1, <2>1 DEF N, n
  <1>10. Earlier(order, n) = S
    BY <1>2 DEF Earlier, IsOrder
  <1> QED
    BY <1>6, <1>9, <1>10 DEF AreResults
-----------------------------------------------------------------------------
(* The rows that concern a point can be told apart: two field thresholds   *)
(* of one group and level by Unambiguous, two of the service since only    *)
(* one of a target counts.                                                 *)
LEMMA ConcernedRows ==
  ASSUME PriceInv, Undisturbed, NEW point
  PROVE  AreDistinct(Concerned(point))
  <1>1. /\ \A r \in rows : IsRow(r)
        /\ Concerned(point) \in SUBSET rows
    BY RowsAreKnown DEF Concerned, Effective
  <1>2. ArePriced(Concerned(point))
    BY <1>1, RowsFinite DEF ArePriced, IsRow
  <1>3. ASSUME NEW g, NEW r \in OfGroup(Concerned(point), g),
               NEW q \in OfGroup(Concerned(point), g),
               r.kind = "thresholds", q.kind = "thresholds", r.key = q.key,
               IsField(r.parent) <=> IsField(q.parent)
        PROVE  r = q
    <2>1. /\ r \in Effective /\ q \in Effective /\ r.group = q.group
          /\ r.parent[1] = q.parent[1] /\ r.parent \in Parents /\ q.parent \in Parents
      BY <1>1 DEF OfGroup, Concerned, Concerns, IsRow
    <2>2. CASE IsField(r.parent)
      BY <1>3, <2>1, <2>2 DEF Undisturbed, Unambiguous
    <2>3. CASE ~IsField(r.parent)
      <3>1. r.parent \in ServiceParents /\ q.parent \in ServiceParents
        BY <1>3, <2>1, <2>3, ParentShape
      <3>2. r.parent = q.parent
        BY <2>1, <3>1 DEF ServiceParents
      <3>3. SameRule(r, q)
        BY <1>3, <2>1, <3>2 DEF SameRule, Among
      <3> QED
        BY <1>1, <2>1, <3>3, OneCounts
    <2> QED
      BY <2>2, <2>3
  <1> QED
    BY <1>2, <1>3 DEF AreDistinct, Distinct

(* The price of a point is the sum, over its groups, of the prices by the  *)
(* book.                                                                   *)
LEMMA PointPriced ==
  ASSUME PriceInv, Undisturbed, NEW point, IsPoint(point)
  PROVE  Price(point) = BookPrice(point)
  <1> DEFINE S == Concerned(point)
             res == ResultOf(ProcessServices(point) \o ProcessFields(point))
             f == [g \in {r.group : r \in S} |-> BookPriceOfGroup(OfGroup(S, g), point)]
  <1>1. AreDistinct(S)
    BY ConcernedRows
  <1>2. IsListing(ProcessServices(point) \o ProcessFields(point), S)
    BY AllMatches
  <1>3. Described(res, S)
    <2> HIDE DEF S
    <2> QED
      BY <1>1, <1>2, OrderedResult
  <1>4. Price(point) = point.price + MapThenSumSet(LAMBDA g : GroupPrice(res[g], point.qty),
                                                   DOMAIN res)
    BY DEF Price, ResultOf
  <1>5. BookPrice(point) = point.price + SumFunction(f)
    BY DEF BookPrice, Concerned, OfGroup
  <1> HIDE DEF res, S
  <1>6. DOMAIN f = DOMAIN res
    BY <1>3 DEF Described
  <1>7. ASSUME NEW g \in DOMAIN res
        PROVE  f[g] = GroupPrice(res[g], point.qty)
    <2>1. f[g] = BookPriceOfGroup(OfGroup(S, g), point)
      BY <1>6
    <2>2. OfGroup(S, g) \in SUBSET S /\ ArePriced(S) /\ Distinct(OfGroup(S, g))
      BY <1>1 DEF OfGroup, AreDistinct
    <2>3. ArePriced(OfGroup(S, g)) /\ point.qty \in Int
      BY <2>2, PricedCosts DEF IsPoint
    <2>4. Describes(res[g], OfGroup(S, g))
      BY <1>3 DEF Described
    <2> QED
      BY <2>1, <2>2, <2>3, <2>4, GroupPriced
  <1> HIDE DEF f
  <1>8. MapThenSumSet(LAMBDA g : GroupPrice(res[g], point.qty), DOMAIN res) = SumFunction(f)
    BY <1>6, <1>7, PricesAreSums
  <1> QED
    BY <1>4, <1>5, <1>8

(* With no write since the loading began, and no two rules between which   *)
(* the order decides (Unambiguous), every data point with usable values    *)
(* gets the price that the rows of the tables give: in whatever order SQL  *)
(* answered the lists, _load_rates went through them and process combined  *)
(* the rules, and for any services, fields, groups, rules, data points and *)
(* number of periods.                                                      *)
THEOREM PricesAreByTheBook == Spec => []PricedByTheBook
  <1>1. Init => PriceInv
    BY PriceInit
  <1>2. PriceInv /\ [Next]_vars => PriceInv'
    BY PriceNext
  <1>3. PriceInv => PricedByTheBook
    <2> SUFFICES ASSUME PriceInv, Undisturbed, NEW i \in DOMAIN Usage
                 PROVE  Price(Usage[i]) = BookPrice(Usage[i])
      BY DEF PricedByTheBook, Undisturbed
    <2>1. IsPoint(Usage[i])
      BY HashMapRatingAssumption DEF IsPoint
    <2> QED
      BY <2>1, PointPriced
  <1> QED
    BY <1>1, <1>2, <1>3, PTL DEF Spec
=============================================================================
