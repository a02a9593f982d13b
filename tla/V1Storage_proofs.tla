--------------------------- MODULE V1Storage_proofs ---------------------------
(***************************************************************************)
(* What holds of the storage of version 1 for any scopes, workers, usage,  *)
(* number of periods and of failures, crashes and resets.                  *)
(***************************************************************************)
EXTENDS V1Storage, FiniteSetTheorems, TLAPS

Used(s, t) == Usage[<<s, t>>] # None

Indices(s, t) == IF Used(s, t) THEN DOMAIN Usage[<<s, t>>] ELSE {}

(* The resource that is made for a point of a scope.                       *)
MadeFor(s, point) ==
  [service |-> point.service, id |-> Desc(point)["id"], project |-> s,
   attributes |-> Described(point)]

Named(s, t) == {i \in Indices(s, t) : "id" \in DOMAIN Desc(Usage[<<s, t>>][i])}

Made(s) ==
  UNION {{MadeFor(s, Usage[<<s, t>>][i]) : i \in Named(s, t)} : t \in Periods}

Makeable == UNION {Made(s) : s \in Scopes}

Rows ==
  [scope : Scopes, begin : Periods \cup {Unset}, of : Periods, point : Nat,
   resource : Makeable \cup {None}]

BagsOfRows == UNION {[S -> Nat \ {0}] : S \in SUBSET Rows}

Pushing ==
  {"append", "dispatch", "create", "commit", "committed", "flush", "flushed",
   "save"}

(* The points of a period are on their way: its commit is still to come,   *)
Open == {"dispatch", "create", "commit"}

(* or is over.                                                             *)
Begun == Open \cup {"committed", "save"}

Jobs ==
  [pc : Pushing \cup {"idle", "next"}, scope : Scopes \cup {Free},
   time : Periods \cup {Unset}, next : Nat]

TypeOK ==
  /\ driver \in Drivers
  /\ mark \in [Scopes -> Periods \cup {Unset}]
  /\ lock \in [Scopes -> Processors \cup {Free}]
  /\ job \in [Processors -> Jobs]
  /\ start \in [Processors -> [Scopes -> Periods \cup {Unset}]]
  /\ hasData \in [Processors -> SUBSET Scopes]
  /\ held \in [Processors -> [Scopes -> BagsOfRows]]
  /\ table \in BagsOfRows
  /\ state \in [Scopes -> Periods \cup {Unset}]
  /\ resources \subseteq Makeable

Doing(p, s, t, pcs) ==
  job[p].scope = s /\ job[p].time = t /\ job[p].pc \in pcs

(* A worker has the lock of its scope, and pushes the period after the     *)
(* last one that counts as rated.                                          *)
JobOK(p) ==
  LET s == Scope(p)
      t == job[p].time
  IN  /\ IF At(p, "idle") THEN t = Unset ELSE s \in Scopes /\ lock[s] = p
      /\ job[p].pc \in Pushing => t = mark[s] + 1 /\ t \in Periods
      /\ job[p].pc \in Pushing \ {"save"} => Used(s, t)
      /\ job[p].pc \in Open \cup {"committed"} =>
           job[p].next \in 1 .. Len(Points(p)) + 1 /\ t <= start[p][s]
      /\ At(p, "create") =>
           /\ driver = "hybrid" /\ job[p].next <= Len(Points(p))
           /\ "id" \in DOMAIN Desc(Point(p))
      /\ job[p].pc \in {"append", "flush", "flushed"} => job[p].next = 1
      /\ job[p].pc \in {"commit", "committed"} => job[p].next = Len(Points(p)) + 1
      /\ job[p].pc \in {"flush", "flushed"} =>
           start[p][s] # Unset /\ start[p][s] < t

JobsOK == \A p \in Processors : JobOK(p)

(* What is in memory, and what is stored, is of points with usage.         *)
OfAPoint(r) == Used(r.scope, r.of) /\ r.point \in DOMAIN Usage[<<r.scope, r.of>>]

Suits(resource, point) ==
  /\ resource \in Makeable /\ resource.service = point.service
  /\ resource.id = Desc(point)["id"]

OfItsResource(r) ==
  LET point == Usage[<<r.scope, r.of>>][r.point]
  IN  r.resource \in Makeable /\ r.resource.service = point.service
      /\ r.resource.id = Desc(point)["id"]

RowsOK ==
  /\ \A p \in Processors, s \in Scopes : \A r \in DOMAIN held[p][s] :
       r.scope = s /\ r.begin = Unset /\ OfAPoint(r) /\ OfItsResource(r)
  /\ \A r \in DOMAIN table :
       /\ r.begin \in Periods
       /\ r.point # NoData => OfAPoint(r)
       /\ driver = "hybrid" => OfAPoint(r) /\ OfItsResource(r)

(* A period in memory has a state to be committed under; nothing is in     *)
(* memory but of a period there.                                           *)
MemoryOK ==
  \A p \in Processors, s \in Scopes :
    /\ driver = "hybrid" /\ start[p][s] # Unset => state[s] # Unset
    /\ start[p][s] = Unset => DOMAIN held[p][s] = {} /\ s \notin hasData[p]
    /\ Scope(p) = s /\ job[p].pc \in {"committed", "flushed"} =>
         DOMAIN held[p][s] = {}

(* SQLAlchemy has a row of a point, and Gnocchi a measure of its resource. *)
Rowed(s, t, i) ==
  \E r \in DOMAIN table :
    IF driver = "hybrid" THEN Suits(r.resource, Usage[<<s, t>>][i])
    ELSE r.scope = s /\ r.of = t /\ r.point = i /\ r.begin = t

Held(p, s, t, i) ==
  \E r \in DOMAIN held[p][s] : r.of = t /\ r.point = i

Secured(s, t) == \A i \in Indices(s, t) : Rowed(s, t, i)

(* What counts as rated is stored, as is all before a period in memory;    *)
(* of the period that is pushed, the points so far.                        *)
NothingMissing ==
  /\ \A s \in Scopes, t \in Periods : t <= mark[s] => Secured(s, t)
  /\ \A p \in Processors, s \in Scopes, t \in Periods :
       t < start[p][s] => Secured(s, t)
  /\ \A p \in Processors, s \in Scopes, t \in Periods :
       /\ Doing(p, s, t, Open) =>
            \A i \in Indices(s, t) : i < job[p].next =>
              IF driver = "hybrid" THEN Held(p, s, t, i) ELSE Rowed(s, t, i)
       /\ Doing(p, s, t, {"committed", "save"}) => Secured(s, t)

LostInv == TypeOK /\ JobsOK /\ RowsOK /\ MemoryOK /\ NothingMissing

Settled(s, t) == t <= mark[s] \/ <<s, t>> \in again

Reached(s, t) ==
  Settled(s, t) \/ \E p \in Processors : Doing(p, s, t, Begun)

(* A period in memory is being pushed, or will be pushed again; neither    *)
(* memory nor the state is ahead of what was reached.                      *)
StartsReached ==
  \A p \in Processors, s \in Scopes : start[p][s] # Unset =>
    /\ Used(s, start[p][s])
    /\ \/ <<s, start[p][s]>> \in again
       \/ Doing(p, s, start[p][s], Open \cup {"committed"})
    /\ \A t \in Periods : t <= start[p][s] => Reached(s, t)

MemoryReached ==
  \A p \in Processors, s \in Scopes : \A r \in DOMAIN held[p][s] :
    <<s, r.of>> \in again \/ Doing(p, s, r.of, Open)

TableReached == \A r \in DOMAIN table : Reached(r.scope, r.of)

StateReached ==
  driver = "hybrid" => \A s \in Scopes :
    /\ state[s] # Unset => Used(s, state[s])
    /\ \A t \in Periods : t <= state[s] => Reached(s, t)
    /\ \A t \in Periods : Used(s, t) =>
         /\ t <= mark[s] => t <= state[s]
         /\ \A p \in Processors : Doing(p, s, t, {"save"}) => t <= state[s]

HistoryOK == StartsReached /\ MemoryReached /\ TableReached /\ StateReached

(* A period that is pushed for the first time comes under its own time;    *)
(* its points are added one by one.                                        *)
KeptOnce(p, s, t) ==
  /\ state[s] \in Begins(s, t)
  /\ \A r \in DOMAIN table : ~(r.scope = s /\ r.of = t)
  /\ \A q, r \in DOMAIN held[p][s] : q.of = t /\ r.of = t =>
       /\ held[p][s][q] = 1 /\ q.point < job[p].next
       /\ q.point = r.point => q = r

WrittenOnce(p, s, t) ==
  /\ \A r \in DOMAIN table : r.scope = s /\ r.of = t =>
       r.point # NoData /\ r.point < job[p].next
  /\ s \in hasData[p] <=> job[p].next > 1

PushOK ==
  \A p \in Processors, s \in Scopes, t \in Periods :
    Doing(p, s, t, Open) /\ <<s, t>> \notin again =>
      /\ start[p][s] = t
      /\ IF driver = "hybrid" THEN KeptOnce(p, s, t) ELSE WrittenOnce(p, s, t)

(* The rows of a period: under a begin that it may have, and one of each   *)
(* point.                                                                  *)
Tidy(s, t) ==
  \A r \in DOMAIN table : r.scope = s /\ r.of = t =>
    /\ table[r] = 1 /\ r.begin \in Begins(s, t)
    /\ r.point = NoData => Indices(s, t) = {}
    /\ \A q \in DOMAIN table :
         q.scope = s /\ q.of = t /\ q.point = r.point => q = r

TableTidy == \A s \in Scopes, t \in Periods : <<s, t>> \notin again => Tidy(s, t)

(* A resource has a value under a time that a period may have which counts *)
(* as rated, or is committed.                                              *)
Placed(s, t) ==
  \A i \in Indices(s, t) : \E r \in DOMAIN table :
    Suits(r.resource, Usage[<<s, t>>][i]) /\ r.begin \in Begins(s, t)

Timely ==
  driver = "hybrid" => \A s \in Scopes, t \in Periods : <<s, t>> \notin again =>
    /\ t <= mark[s] => Placed(s, t)
    /\ \A p \in Processors : Doing(p, s, t, {"committed", "save"}) => Placed(s, t)

OnceInv == LostInv /\ HistoryOK /\ PushOK /\ TableTidy /\ Timely

-----------------------------------------------------------------------------
(***************************************************************************)
(* Bags, rows and the points of a period.                                  *)
(***************************************************************************)
LEMMA BagsAreBags ==
  \A B : B \in BagsOfRows <=>
           DOMAIN B \subseteq Rows /\ B \in [DOMAIN B -> Nat \ {0}]
  <1> TAKE B
  <1>1. ASSUME B \in BagsOfRows
        PROVE  DOMAIN B \subseteq Rows /\ B \in [DOMAIN B -> Nat \ {0}]
    BY <1>1 DEF BagsOfRows
  <1>2. ASSUME DOMAIN B \subseteq Rows, B \in [DOMAIN B -> Nat \ {0}]
        PROVE  B \in BagsOfRows
    BY <1>2 DEF BagsOfRows
  <1> QED
    BY <1>1, <1>2

LEMMA EmptyBagIsEmpty == EmptyBag \in BagsOfRows /\ DOMAIN EmptyBag = {}
  <1>1. DOMAIN EmptyBag = {} /\ EmptyBag \in [DOMAIN EmptyBag -> Nat \ {0}]
    BY DEF EmptyBag, SetToBag
  <1> QED
    BY <1>1, BagsAreBags

(* Adding a bag of rows.                                                   *)
LEMMA AddedBag ==
  ASSUME NEW B \in BagsOfRows, NEW C \in BagsOfRows
  PROVE  /\ B (+) C \in BagsOfRows
         /\ DOMAIN (B (+) C) = DOMAIN B \cup DOMAIN C
         /\ \A y \in DOMAIN B : y \notin DOMAIN C => (B (+) C)[y] = B[y]
         /\ \A y \in DOMAIN C : y \notin DOMAIN B => (B (+) C)[y] = C[y]
  <1> DEFINE D == B (+) C
  <1>1. /\ DOMAIN B \subseteq Rows /\ B \in [DOMAIN B -> Nat \ {0}]
        /\ DOMAIN C \subseteq Rows /\ C \in [DOMAIN C -> Nat \ {0}]
    BY BagsAreBags
  <1>2. D = [e \in DOMAIN B \cup DOMAIN C |->
               (IF e \in DOMAIN B THEN B[e] ELSE 0)
               + (IF e \in DOMAIN C THEN C[e] ELSE 0)]
    BY DEF (+)
  <1>3. DOMAIN D = DOMAIN B \cup DOMAIN C /\ D \in [DOMAIN D -> Nat \ {0}]
    BY <1>1, <1>2
  <1>4. D \in BagsOfRows
    BY <1>1, <1>3, BagsAreBags
  <1>5. /\ \A y \in DOMAIN B : y \notin DOMAIN C => D[y] = B[y]
        /\ \A y \in DOMAIN C : y \notin DOMAIN B => D[y] = C[y]
    BY <1>1, <1>2
  <1> QED
    BY <1>3, <1>4, <1>5

(* Adding a row.                                                           *)
LEMMA AddedRow ==
  ASSUME NEW B \in BagsOfRows, NEW x \in Rows
  PROVE  /\ Insert(B, x) \in BagsOfRows
         /\ DOMAIN Insert(B, x) = DOMAIN B \cup {x}
         /\ \A y \in DOMAIN B : y # x => Insert(B, x)[y] = B[y]
         /\ x \notin DOMAIN B => Insert(B, x)[x] = 1
  <1> DEFINE C == SetToBag({x})
  <1>1. DOMAIN C = {x} /\ C[x] = 1 /\ C \in [DOMAIN C -> Nat \ {0}]
    BY DEF SetToBag
  <1>2. C \in BagsOfRows
    BY <1>1, BagsAreBags
  <1> HIDE DEF C
  <1>3. /\ B (+) C \in BagsOfRows /\ DOMAIN (B (+) C) = DOMAIN B \cup {x}
        /\ \A y \in DOMAIN B : y # x => (B (+) C)[y] = B[y]
        /\ x \notin DOMAIN B => (B (+) C)[x] = 1
    BY <1>1, <1>2, AddedBag
  <1> QED
    BY <1>3 DEF C, Insert

(* The usage of a period is a sequence.                                    *)
LEMMA UsageIsSequence ==
  ASSUME NEW s \in Scopes, NEW t \in Periods, Used(s, t)
  PROVE  /\ Len(Usage[<<s, t>>]) \in Nat
         /\ DOMAIN Usage[<<s, t>>] = 1 .. Len(Usage[<<s, t>>])
         /\ Indices(s, t) = 1 .. Len(Usage[<<s, t>>])
  <1>1. Usage[<<s, t>>] \in Seq(Range(Usage[<<s, t>>]))
    BY V1Assumption DEF Used
  <1> QED
    BY <1>1 DEF Indices

LEMMA PeriodsAreNumbers == Periods \subseteq Nat /\ Unset \notin Periods
  BY V1Assumption DEF Periods, Unset

(* The resource of a point, and its row in memory.                         *)
LEMMA ResourcesMatch ==
  ASSUME NEW s \in Scopes, NEW t \in Periods, NEW i \in Indices(s, t),
         "id" \in DOMAIN Desc(Usage[<<s, t>>][i])
  PROVE  /\ MadeFor(s, Usage[<<s, t>>][i]) \in Makeable
         /\ MadeFor(s, Usage[<<s, t>>][i]).service = Usage[<<s, t>>][i].service
         /\ MadeFor(s, Usage[<<s, t>>][i]).id = Desc(Usage[<<s, t>>][i])["id"]
         /\ MadeFor(s, Usage[<<s, t>>][i]).project = s
  <1> DEFINE made == {MadeFor(s, Usage[<<s, t>>][k]) : k \in Named(s, t)}
  <1>1. MadeFor(s, Usage[<<s, t>>][i]) \in made
    BY DEF Named
  <1>2. made \subseteq Made(s)
    BY DEF Made
  <1>3. MadeFor(s, Usage[<<s, t>>][i]) \in Makeable
    BY <1>1, <1>2 DEF Makeable
  <1> QED
    BY <1>3 DEF MadeFor

LEMMA RowFields ==
  ASSUME NEW s, NEW b, NEW t, NEW i, NEW resource
  PROVE  /\ Row(s, b, t, i) = [scope |-> s, begin |-> b, of |-> t, point |-> i,
                               resource |-> None]
         /\ Measure(s, t, i, resource) =
              [scope |-> s, begin |-> Unset, of |-> t, point |-> i,
               resource |-> resource]
  BY DEF Row, Measure

-----------------------------------------------------------------------------
(***************************************************************************)
(* Types.                                                                  *)
(***************************************************************************)
LEMMA TypeInit == Init => TypeOK
  <1> SUFFICES ASSUME Init PROVE TypeOK
    OBVIOUS
  <1>1. Idle \in Jobs
    BY DEF Idle, Jobs, Pushing
  <1> QED
    BY <1>1, EmptyBagIsEmpty DEF Init, TypeOK

(* A worker pushes a period of its scope with usage.                       *)
LEMMA PushedPeriod ==
  ASSUME TypeOK, JobsOK, NEW p \in Processors, job[p].pc \in Pushing
  PROVE  /\ Scope(p) \in Scopes /\ lock[Scope(p)] = p
         /\ job[p].time \in Periods /\ job[p].time = mark[Scope(p)] + 1
         /\ job[p].pc # "save" =>
              /\ Used(Scope(p), job[p].time) /\ Len(Points(p)) \in Nat
              /\ DOMAIN Points(p) = 1 .. Len(Points(p))
              /\ Indices(Scope(p), job[p].time) = 1 .. Len(Points(p))
  <1>1. ~At(p, "idle")
    BY DEF At, Pushing
  <1>2. /\ Scope(p) \in Scopes /\ lock[Scope(p)] = p
        /\ job[p].time \in Periods /\ job[p].time = mark[Scope(p)] + 1
        /\ job[p].pc # "save" => Used(Scope(p), job[p].time)
    BY <1>1 DEF JobsOK, JobOK
  <1> QED
    BY <1>2, UsageIsSequence DEF Points

LEMMA UnderFacts ==
  ASSUME NEW r \in Rows, NEW b \in Periods \cup {Unset}
  PROVE  /\ Under(r, b) \in Rows
         /\ Under(r, b).begin = b /\ Under(r, b).scope = r.scope
         /\ Under(r, b).of = r.of /\ Under(r, b).point = r.point
         /\ Under(r, b).resource = r.resource
         /\ r.begin = Unset => Under(Under(r, b), Unset) = r
  BY DEF Under, Rows

(* The rows of a commit.                                                   *)
LEMMA MeasuresFacts ==
  ASSUME TypeOK, RowsOK, NEW p \in Processors, Scope(p) \in Scopes
  PROVE  LET s == Scope(p)
         IN  /\ Measures(p) \subseteq Rows
             /\ \A x \in DOMAIN held[p][s] :
                  /\ Under(x, state[s]) \in Measures(p)
                  /\ Under(x, state[s]).resource = x.resource
                  /\ Under(x, state[s]).begin = state[s]
             /\ \A r \in Measures(p) :
                  /\ r.begin = state[s]
                  /\ \E x \in DOMAIN held[p][s] :
                       /\ r = Under(x, state[s])
                       /\ r.scope = x.scope /\ r.of = x.of /\ r.point = x.point
                       /\ r.resource = x.resource
  <1> DEFINE s == Scope(p)
             h == held[p][s]
             v == state[s]
             M == Measures(p)
  <1>1. h \in BagsOfRows /\ v \in Periods \cup {Unset}
    BY DEF TypeOK
  <1>2. DOMAIN h \subseteq Rows
    BY <1>1, BagsAreBags
  <1>3. M = {Under(x, v) : x \in DOMAIN h}
    BY DEF Measures
  <1>4. \A x \in DOMAIN h :
          /\ Under(x, v) \in Rows /\ Under(x, v).begin = v
          /\ Under(x, v).scope = x.scope /\ Under(x, v).of = x.of
          /\ Under(x, v).point = x.point /\ Under(x, v).resource = x.resource
    BY <1>1, <1>2, UnderFacts
  <1> HIDE DEF M, h, v, s
  <1>5. /\ M \subseteq Rows
        /\ \A x \in DOMAIN h :
             /\ Under(x, v) \in M
             /\ Under(x, v).resource = x.resource /\ Under(x, v).begin = v
        /\ \A r \in M :
             /\ r.begin = v
             /\ \E x \in DOMAIN h :
                  /\ r = Under(x, v)
                  /\ r.scope = x.scope /\ r.of = x.of /\ r.point = x.point
                  /\ r.resource = x.resource
    BY <1>3, <1>4
  <1> QED
    BY <1>5 DEF M, h, v, s

LEMMA NoDataFacts ==
  ASSUME TypeOK, NEW p \in Processors, Scope(p) \in Scopes,
         start[p][Scope(p)] # Unset
  PROVE  LET s == Scope(p)
             row == Row(s, start[p][s], start[p][s], NoData)
         IN  /\ NoDataRow(p) \in BagsOfRows
             /\ DOMAIN NoDataRow(p) = IF s \in hasData[p] THEN {} ELSE {row}
             /\ \A r \in DOMAIN NoDataRow(p) : NoDataRow(p)[r] = 1
             /\ row \in Rows
  <1> DEFINE s == Scope(p)
             row == Row(s, start[p][s], start[p][s], NoData)
  <1>1. row \in Rows
    <2>1. start[p][s] \in Periods
      BY DEF TypeOK
    <2> HIDE DEF s
    <2>2. row = [scope |-> s, begin |-> start[p][s], of |-> start[p][s],
                 point |-> NoData, resource |-> None]
      BY RowFields
    <2> QED
      BY <2>1, <2>2 DEF Rows, NoData, s
  <1>2. CASE s \in hasData[p]
    <2>1. NoDataRow(p) = EmptyBag
      BY <1>2 DEF NoDataRow
    <2>2. NoDataRow(p) \in BagsOfRows /\ DOMAIN NoDataRow(p) = {}
      BY <2>1, EmptyBagIsEmpty
    <2> QED
      BY <1>1, <1>2, <2>2
  <1>3. CASE s \notin hasData[p]
    <2>1. NoDataRow(p) = [r \in {row} |-> 1]
      BY <1>3 DEF NoDataRow, SetToBag
    <2>2. DOMAIN NoDataRow(p) = {row} /\ NoDataRow(p)[row] = 1
      BY <2>1
    <2>3. NoDataRow(p) \in [{row} -> Nat \ {0}]
      BY <2>1
    <2> QED
      BY <1>1, <1>3, <2>2, <2>3, BagsAreBags
  <1> QED
    BY <1>1, <1>2, <1>3

(* What a commit adds to what is stored.                                   *)
Added(p) == IF driver = "hybrid" THEN Measures(p) ELSE DOMAIN NoDataRow(p)

LEMMA SetsAreBags ==
  ASSUME NEW S \in SUBSET Rows
  PROVE  /\ SetToBag(S) \in BagsOfRows /\ DOMAIN SetToBag(S) = S
         /\ \A r \in S : SetToBag(S)[r] = 1
  <1>1. SetToBag(S) = [r \in S |-> 1]
    BY DEF SetToBag
  <1>2. DOMAIN SetToBag(S) = S /\ SetToBag(S) \in [S -> Nat \ {0}]
    BY <1>1
  <1> QED
    BY <1>1, <1>2, BagsAreBags

(* Gnocchi keeps a row in each slot.                                       *)
LEMMA KeptFacts ==
  ASSUME NEW rows, NEW kept \in KeptOf(rows)
  PROVE  /\ kept \subseteq rows
         /\ \A r \in rows :
              \E k \in kept : k.resource = r.resource /\ k.begin = r.begin
  BY DEF KeptOf, Slot

LEMMA WrittenFacts ==
  ASSUME TypeOK, RowsOK, NEW p \in Processors, Scope(p) \in Scopes,
         start[p][Scope(p)] # Unset, NEW W \in Written(p)
  PROVE  /\ W \in BagsOfRows /\ DOMAIN W \subseteq DOMAIN table \cup Added(p)
         /\ driver = "hybrid" =>
              /\ \A r \in DOMAIN W : W[r] = 1
              /\ \A r \in DOMAIN table \cup Added(p) : \E k \in DOMAIN W :
                   k.resource = r.resource /\ k.begin = r.begin
         /\ driver # "hybrid" =>
              /\ DOMAIN W = DOMAIN table \cup Added(p)
              /\ \A r \in DOMAIN table : r \notin Added(p) => W[r] = table[r]
              /\ \A r \in Added(p) : r \notin DOMAIN table => W[r] = 1
  <1>1. table \in BagsOfRows /\ DOMAIN table \subseteq Rows
    BY BagsAreBags DEF TypeOK
  <1>2. CASE driver = "hybrid"
    <2> DEFINE rows == DOMAIN table \cup Measures(p)
    <2>1. rows \subseteq Rows
      BY <1>1, MeasuresFacts
    <2>2. PICK kept \in KeptOf(rows) : W = SetToBag(kept)
      BY <1>2 DEF Written
    <2>3. Added(p) = Measures(p)
      BY <1>2 DEF Added
    <2> HIDE DEF rows
    <2>4. /\ kept \subseteq rows
          /\ \A r \in rows :
               \E k \in kept : k.resource = r.resource /\ k.begin = r.begin
      BY KeptFacts
    <2>5. /\ W \in BagsOfRows /\ DOMAIN W = kept
          /\ \A r \in DOMAIN W : W[r] = 1
      <3>1. kept \in SUBSET Rows
        BY <2>1, <2>4
      <3> QED
        BY <2>2, <3>1, SetsAreBags
    <2> QED
      BY <1>2, <2>3, <2>4, <2>5 DEF rows
  <1>3. CASE driver # "hybrid"
    <2> DEFINE N == NoDataRow(p)
    <2>1. N \in BagsOfRows /\ \A r \in DOMAIN N : N[r] = 1
      BY NoDataFacts
    <2>2. W = table (+) N /\ Added(p) = DOMAIN N
      BY <1>3 DEF Written, Added
    <2> HIDE DEF N
    <2>3. /\ table (+) N \in BagsOfRows
          /\ DOMAIN (table (+) N) = DOMAIN table \cup DOMAIN N
          /\ \A r \in DOMAIN table : r \notin DOMAIN N => (table (+) N)[r] = table[r]
          /\ \A r \in DOMAIN N : r \notin DOMAIN table => (table (+) N)[r] = N[r]
      BY <1>1, <2>1, AddedBag
    <2> QED
      BY <1>3, <2>1, <2>2, <2>3
  <1> QED
    BY <1>2, <1>3

(* The next step of a worker.                                              *)
LEMMA GoneTo ==
  ASSUME TypeOK, NEW p \in Processors,
         NEW pc \in Pushing \cup {"idle", "next"}, Goto(p, pc)
  PROVE  /\ job' \in [Processors -> Jobs]
         /\ job'[p].pc = pc /\ job'[p].scope = job[p].scope
         /\ job'[p].time = job[p].time /\ job'[p].next = job[p].next
         /\ \A q \in Processors : q # p => job'[q] = job[q]
  <1>1. job \in [Processors -> Jobs] /\ job[p] \in Jobs
    BY DEF TypeOK
  <1>2. job' = [job EXCEPT ![p] = [job[p] EXCEPT !.pc = pc]]
    BY <1>1 DEF Goto
  <1>3. /\ [job[p] EXCEPT !.pc = pc] \in Jobs
        /\ [job[p] EXCEPT !.pc = pc].pc = pc
        /\ [job[p] EXCEPT !.pc = pc].scope = job[p].scope
        /\ [job[p] EXCEPT !.pc = pc].time = job[p].time
        /\ [job[p] EXCEPT !.pc = pc].next = job[p].next
    BY <1>1 DEF Jobs
  <1> QED
    BY <1>1, <1>2, <1>3

(* A worker has dealt with a point.                                        *)
LEMMA Advanced ==
  ASSUME TypeOK, NEW p \in Processors,
         \/ job' = [job EXCEPT ![p].next = @ + 1, ![p].pc = "dispatch"]
         \/ job' = [job EXCEPT ![p].next = @ + 1] /\ job[p].pc = "dispatch"
  PROVE  /\ job' \in [Processors -> Jobs]
         /\ job'[p].pc = "dispatch" /\ job'[p].scope = job[p].scope
         /\ job'[p].time = job[p].time /\ job'[p].next = job[p].next + 1
         /\ \A q \in Processors : q # p => job'[q] = job[q]
  <1> DEFINE new == [pc |-> "dispatch", scope |-> job[p].scope,
                     time |-> job[p].time, next |-> job[p].next + 1]
  <1>1. job \in [Processors -> Jobs] /\ job[p] \in Jobs
    BY DEF TypeOK
  <1>2. new \in Jobs
    BY <1>1 DEF Jobs, Pushing
  <1>3. job' = [job EXCEPT ![p] = new]
    <2>1. CASE job' = [job EXCEPT ![p].next = @ + 1, ![p].pc = "dispatch"]
      <3>1. job' = [job EXCEPT ![p] = [job[p] EXCEPT !.next = @ + 1, !.pc = "dispatch"]]
        BY <1>1, <2>1
      <3> DEFINE next == [job[p] EXCEPT !.next = @ + 1]
      <3>2. [job[p] EXCEPT !.next = @ + 1, !.pc = "dispatch"]
              = [next EXCEPT !.pc = "dispatch"]
        OBVIOUS
      <3>3. /\ next \in Jobs
            /\ next = [pc |-> job[p].pc, scope |-> job[p].scope,
                       time |-> job[p].time, next |-> job[p].next + 1]
        BY <1>1 DEF Jobs
      <3> HIDE DEF next
      <3>4. [next EXCEPT !.pc = "dispatch"] = new
        BY <3>3 DEF Jobs
      <3> QED
        BY <3>1, <3>2, <3>4
    <2>2. CASE job' = [job EXCEPT ![p].next = @ + 1] /\ job[p].pc = "dispatch"
      <3>1. job' = [job EXCEPT ![p] = [job[p] EXCEPT !.next = @ + 1]]
        BY <1>1, <2>2
      <3>2. [job[p] EXCEPT !.next = @ + 1] = new
        BY <1>1, <2>2 DEF Jobs
      <3> QED
        BY <3>1, <3>2
    <2> QED
      BY <2>1, <2>2
  <1> HIDE DEF new
  <1>4. /\ new.pc = "dispatch" /\ new.scope = job[p].scope
        /\ new.time = job[p].time /\ new.next = job[p].next + 1
    BY DEF new
  <1> QED
    BY <1>1, <1>2, <1>3, <1>4

(* A period that is committed is in memory.                                *)
LEMMA CommitsAPeriod ==
  ASSUME TypeOK, JobsOK, NEW p \in Processors,
         job[p].pc \in {"dispatch", "create", "commit", "committed", "flush",
                        "flushed"}
  PROVE  start[p][Scope(p)] # Unset /\ start[p][Scope(p)] \in Periods
  <1>1. Scope(p) \in Scopes /\ job[p].time \in Periods
    BY PushedPeriod DEF Pushing
  <1>2. start[p][Scope(p)] \in Periods \cup {Unset}
    BY <1>1 DEF TypeOK
  <1>3. CASE job[p].pc \in {"dispatch", "create", "commit", "committed"}
    <2>1. job[p].time <= start[p][Scope(p)]
      BY <1>3 DEF JobsOK, JobOK, Open
    <2>2. job[p].time \in Nat
      BY <1>1, PeriodsAreNumbers
    <2> QED
      BY <1>2, <2>1, <2>2 DEF Unset
  <1>4. CASE job[p].pc \in {"flush", "flushed"}
    <2>1. start[p][Scope(p)] # Unset
      BY <1>4 DEF JobsOK, JobOK
    <2> QED
      BY <1>2, <2>1
  <1> QED
    BY <1>3, <1>4

(* The resource made for the point of a worker.                            *)
LEMMA CreatedResource ==
  ASSUME TypeOK, JobsOK, NEW p \in Processors, job[p].pc = "create"
  PROVE  /\ MadeFor(Scope(p), Point(p)) \in Makeable
         /\ MadeFor(Scope(p), Point(p)).service = Point(p).service
         /\ MadeFor(Scope(p), Point(p)).id = Desc(Point(p))["id"]
         /\ MadeFor(Scope(p), Point(p)).project = Scope(p)
  <1>1. /\ Scope(p) \in Scopes /\ job[p].time \in Periods
        /\ Indices(Scope(p), job[p].time) = 1 .. Len(Points(p))
    BY PushedPeriod DEF Pushing
  <1>2. /\ job[p].next \in Indices(Scope(p), job[p].time)
        /\ "id" \in DOMAIN Desc(Point(p))
    BY <1>1 DEF JobsOK, JobOK, At, Open
  <1> QED
    BY <1>1, <1>2, ResourcesMatch DEF Point, Points

(* Types of what is kept in memory.                                        *)
LEMMA KeptTypes ==
  ASSUME TypeOK, JobsOK, NEW p \in Processors, job[p].pc \in {"dispatch", "create"},
         NEW r \in Makeable, Keep(p, r)
  PROVE  LET s == Scope(p)
             row == Measure(s, job[p].time, job[p].next, r)
         IN  /\ job' \in [Processors -> Jobs]
             /\ hasData' \in [Processors -> SUBSET Scopes]
             /\ held' \in [Processors -> [Scopes -> BagsOfRows]]
             /\ row \in Rows
             /\ held'[p][s] = Insert(held[p][s], row)
             /\ \A q \in Processors, u \in Scopes :
                  q # p \/ u # s => held'[q][u] = held[q][u]
  <1> DEFINE s == Scope(p)
             row == Measure(s, job[p].time, job[p].next, r)
  <1>1. s \in Scopes /\ job[p].time \in Periods /\ job[p].next \in Nat
    BY PushedPeriod DEF Pushing, TypeOK, Jobs
  <1> HIDE DEF s
  <1>2. row \in Rows
    BY <1>1, RowFields DEF Rows
  <1> HIDE DEF row
  <1>3. Insert(held[p][s], row) \in BagsOfRows
    BY <1>1, <1>2, AddedRow DEF TypeOK
  <1>4. held' = [held EXCEPT ![p][s] = Insert(@, row)]
    BY DEF Keep, s, row
  <1>5. /\ held' \in [Processors -> [Scopes -> BagsOfRows]]
        /\ held'[p][s] = Insert(held[p][s], row)
        /\ \A q \in Processors, u \in Scopes :
             q # p \/ u # s => held'[q][u] = held[q][u]
    BY <1>1, <1>3, <1>4 DEF TypeOK
  <1>6. job' \in [Processors -> Jobs]
    BY Advanced DEF Keep
  <1>7. hasData' \in [Processors -> SUBSET Scopes]
    BY <1>1 DEF Keep, TypeOK, s
  <1> QED
    BY <1>2, <1>5, <1>6, <1>7 DEF s, row

(* A write that fails has been done, or has not.                           *)
LEMMA FailedWrite ==
  ASSUME TypeOK, JobsOK, RowsOK, NEW p \in Processors, PushFails(p)
  PROVE  LET s == Scope(p)
             row == Row(s, start[p][s], job[p].time, job[p].next)
         IN  /\ table' \in BagsOfRows
             /\ \/ table' = table
                \/ /\ job[p].pc = "dispatch" /\ driver # "hybrid"
                   /\ job[p].next <= Len(Points(p))
                   /\ row \in Rows /\ table' = Insert(table, row)
                \/ job[p].pc \in {"commit", "flush"} /\ table' \in Written(p)
  <1> DEFINE s == Scope(p)
             row == Row(s, start[p][s], job[p].time, job[p].next)
  <1>1. table \in BagsOfRows
    BY DEF TypeOK
  <1>2. CASE job[p].pc = "dispatch" /\ driver # "hybrid"
    <2>1. s \in Scopes /\ job[p].time \in Periods
      BY <1>2, PushedPeriod DEF Pushing
    <2>2. start[p][s] \in Periods
      BY <1>2, CommitsAPeriod
    <2>3. job[p].next \in Nat
      BY DEF TypeOK, Jobs
    <2>4. row \in Rows
      <3> HIDE DEF s
      <3> QED
        BY <2>1, <2>2, <2>3, RowFields DEF Rows
    <2>5. Insert(table, row) \in BagsOfRows
      BY <1>1, <2>4, AddedRow
    <2>6. table' \in {table, Insert(table, row)} /\ job[p].next <= Len(Points(p))
      BY <1>2 DEF PushFails, At
    <2> QED
      BY <1>1, <1>2, <2>4, <2>5, <2>6
  <1>3. CASE job[p].pc \in {"commit", "flush"}
    <2>1. s \in Scopes /\ start[p][s] # Unset
      BY <1>3, PushedPeriod, CommitsAPeriod DEF Pushing
    <2>2. table' \in {table} \cup Written(p)
      BY <1>3 DEF PushFails, At
    <2>3. table' \in Written(p) => table' \in BagsOfRows
      BY <2>1, WrittenFacts
    <2> QED
      BY <1>1, <1>3, <2>2, <2>3
  <1>4. CASE /\ ~(job[p].pc = "dispatch" /\ driver # "hybrid")
             /\ job[p].pc \notin {"commit", "flush"}
    <2>1. table' = table
      BY <1>4 DEF PushFails, At
    <2> QED
      BY <1>1, <2>1
  <1> QED
    BY <1>2, <1>3, <1>4

LEMMA TypeStep ==
  TypeOK /\ JobsOK /\ RowsOK /\ MemoryOK /\ [Next]_vars => TypeOK'
  <1> SUFFICES ASSUME TypeOK, JobsOK, RowsOK, MemoryOK, [Next]_vars
               PROVE  TypeOK'
    OBVIOUS
  <1>1. ASSUME NEW p \in Processors, NextPeriod(p) PROVE TypeOK'
    <2>1. At(p, "next") /\ job[p].scope \in Scopes
      BY <1>1 DEF NextPeriod, JobsOK, JobOK, At, Scope
    <2>2. mark[Scope(p)] \in Periods \cup {Unset}
      BY <2>1 DEF TypeOK, Scope
    <2>3. mark[Scope(p)] < MaxPeriod => mark[Scope(p)] + 1 \in Periods
      BY <2>2, V1Assumption DEF Periods, Unset
    <2>4. mark[Scope(p)] < MaxPeriod => Begin(p, mark[Scope(p)] + 1) \in Jobs
      BY <2>3 DEF Begin, TypeOK, Jobs, Pushing
    <2>5. Idle \in Jobs
      BY DEF Idle, Jobs, Pushing
    <2>6. job' \in [Processors -> Jobs] /\ lock' \in [Scopes -> Processors \cup {Free}]
      BY <1>1, <2>4, <2>5 DEF TypeOK, NextPeriod
    <2> QED
      BY <1>1, <2>6 DEF TypeOK, NextPeriod, memory, gnocchi
  <1>2. ASSUME NEW p \in Processors, CheckCommit(p) PROVE TypeOK'
    <2> DEFINE s == Scope(p)
    <2>1. s \in Scopes /\ job[p].time \in Periods
      BY <1>2, PushedPeriod DEF CheckCommit, At, Pushing
    <2>2. job' \in [Processors -> Jobs]
      BY <1>2, GoneTo DEF CheckCommit, Pushing
    <2>3. start' \in [Processors -> [Scopes -> Periods \cup {Unset}]]
      <3> DEFINE begin == IF start[p][s] = Unset THEN job[p].time ELSE start[p][s]
      <3>1. begin \in Periods \cup {Unset}
        BY <2>1 DEF TypeOK
      <3>2. start' = start \/ start' = [start EXCEPT ![p][s] = begin]
        BY <1>2 DEF CheckCommit, UpdateStart
      <3> HIDE DEF begin, s
      <3>3. start \in [Processors -> [Scopes -> Periods \cup {Unset}]]
        BY DEF TypeOK
      <3> QED
        BY <2>1, <3>1, <3>2, <3>3
    <2>4. state' \in [Scopes -> Periods \cup {Unset}]
      BY <1>2, <2>1 DEF CheckCommit, TypeOK
    <2> QED
      BY <1>2, <2>2, <2>3, <2>4 DEF TypeOK, CheckCommit, gnocchi
  <1>3. ASSUME NEW p \in Processors, AppendRow(p) PROVE TypeOK'
    <2> DEFINE s == Scope(p)
    <2>1. job[p].pc = "dispatch" /\ s \in Scopes /\ job[p].time \in Periods
      BY <1>3, PushedPeriod DEF AppendRow, At, Pushing
    <2>2. start[p][s] \in Periods
      BY <2>1, CommitsAPeriod
    <2>3. job[p].next \in Nat
      BY DEF TypeOK, Jobs
    <2> HIDE DEF s
    <2>4. Row(s, start[p][s], job[p].time, job[p].next) \in Rows
      BY <2>1, <2>2, <2>3, RowFields DEF Rows
    <2>5. table' \in BagsOfRows
      BY <1>3, <2>4, AddedRow DEF AppendRow, TypeOK, s
    <2>6. job' \in [Processors -> Jobs]
      BY <1>3, <2>1, Advanced DEF AppendRow
    <2>7. hasData' \in [Processors -> SUBSET Scopes]
      BY <1>3, <2>1 DEF AppendRow, TypeOK, s
    <2> QED
      BY <1>3, <2>5, <2>6, <2>7 DEF TypeOK, AppendRow, gnocchi
  <1>4. ASSUME NEW p \in Processors, AppendMeasurements(p) PROVE TypeOK'
    <2>1. job[p].pc = "dispatch" /\ driver = "hybrid"
      BY <1>4 DEF AppendMeasurements, Identified, At
    <2>2. CASE FindResource(Point(p)) = {}
      <3>1. Goto(p, "create") /\ UNCHANGED <<hasData, held>>
        BY <1>4, <2>2 DEF AppendMeasurements
      <3>2. job' \in [Processors -> Jobs]
        BY <3>1, GoneTo DEF Pushing
      <3> QED
        BY <1>4, <3>1, <3>2 DEF AppendMeasurements, TypeOK, gnocchi
    <2>3. CASE FindResource(Point(p)) # {}
      <3>1. PICK r \in resources : Keep(p, r)
        BY <1>4, <2>3 DEF AppendMeasurements, FindResource
      <3>2. r \in Makeable
        BY DEF TypeOK
      <3>3. /\ job' \in [Processors -> Jobs] /\ hasData' \in [Processors -> SUBSET Scopes]
            /\ held' \in [Processors -> [Scopes -> BagsOfRows]]
        BY <2>1, <3>1, <3>2, KeptTypes
      <3> QED
        BY <1>4, <3>3 DEF AppendMeasurements, TypeOK, gnocchi
    <2> QED
      BY <2>2, <2>3
  <1>5. ASSUME NEW p \in Processors, CreateResource(p) PROVE TypeOK'
    <2> DEFINE new == MadeFor(Scope(p), Point(p))
    <2>1. job[p].pc = "create"
      BY <1>5 DEF CreateResource, At
    <2>2. new \in Makeable
      BY <2>1, CreatedResource
    <2>3. resources' = resources \cup {new} /\ Keep(p, new)
      BY <1>5 DEF CreateResource, MadeFor
    <2>4. /\ job' \in [Processors -> Jobs] /\ hasData' \in [Processors -> SUBSET Scopes]
          /\ held' \in [Processors -> [Scopes -> BagsOfRows]]
      BY <2>1, <2>2, <2>3, KeptTypes
    <2>5. resources' \subseteq Makeable
      BY <2>2, <2>3 DEF TypeOK
    <2> QED
      BY <1>5, <2>4, <2>5 DEF CreateResource, TypeOK
  <1>6. ASSUME NEW p \in Processors, CannotKeep(p) PROVE TypeOK'
    BY <1>6, EmptyBagIsEmpty
       DEF TypeOK, Jobs, Pushing, CannotKeep, Ends, At, Idle, Scope, memory, gnocchi
  <1>7. ASSUME NEW p \in Processors, EndDispatch(p) PROVE TypeOK'
    BY <1>7, EmptyBagIsEmpty
       DEF TypeOK, Jobs, Pushing, EndDispatch, At, Goto, memory, gnocchi
  <1>8. ASSUME NEW p \in Processors, Commit(p) PROVE TypeOK'
    <2> DEFINE s == Scope(p)
    <2>1. job[p].pc \in {"commit", "flush"} /\ s \in Scopes
      BY <1>8, PushedPeriod DEF Commit, At, Pushing
    <2>2. start[p][s] # Unset
      BY <2>1, CommitsAPeriod
    <2>3. table' \in BagsOfRows
      BY <1>8, <2>1, <2>2, WrittenFacts DEF Commit
    <2>4. held' \in [Processors -> [Scopes -> BagsOfRows]]
      BY <1>8, <2>1, EmptyBagIsEmpty DEF Commit, TypeOK
    <2>5. job' \in [Processors -> Jobs]
      BY <1>8, GoneTo DEF Commit, Pushing
    <2> QED
      BY <1>8, <2>3, <2>4, <2>5 DEF Commit, TypeOK, gnocchi
  <1>9. ASSUME NEW p \in Processors, PostCommit(p) PROVE TypeOK'
    <2> DEFINE s == Scope(p)
    <2>1. job[p].pc \in {"committed", "flushed"} /\ s \in Scopes
      BY <1>9, PushedPeriod DEF PostCommit, At, Pushing
    <2>2. start[p][s] \in Periods
      BY <2>1, CommitsAPeriod DEF TypeOK
    <2>3. state' \in [Scopes -> Periods \cup {Unset}]
      BY <1>9, <2>1, <2>2 DEF PostCommit, TypeOK
    <2>4. start' \in [Processors -> [Scopes -> Periods \cup {Unset}]]
      BY <1>9, <2>1 DEF PostCommit, ClearUsageInfo, TypeOK
    <2>5. hasData' \in [Processors -> SUBSET Scopes]
      BY <1>9 DEF PostCommit, TypeOK
    <2>6. job' \in [Processors -> Jobs]
      BY <1>9, GoneTo DEF PostCommit, Pushing
    <2> QED
      BY <1>9, <2>3, <2>4, <2>5, <2>6 DEF PostCommit, TypeOK, gnocchi
  <1>10. ASSUME NEW p \in Processors, SaveState(p) PROVE TypeOK'
    BY <1>10, EmptyBagIsEmpty
       DEF TypeOK, Jobs, Pushing, SaveState, At, Goto, Scope, memory, gnocchi
  <1>11. ASSUME NEW p \in Processors, PushFails(p) PROVE TypeOK'
    <2>1. Ends(p) /\ job[p].time # Unset
      BY <1>11 DEF PushFails, Ends
    <2>2. Idle \in Jobs
      BY DEF Idle, Jobs, Pushing
    <2>3. job' \in [Processors -> Jobs] /\ lock' \in [Scopes -> Processors \cup {Free}]
      BY <2>1, <2>2 DEF Ends, TypeOK
    <2>4. table' \in BagsOfRows
      BY <1>11, FailedWrite DEF TypeOK
    <2> QED
      BY <1>11, <2>3, <2>4 DEF PushFails, TypeOK, memory, gnocchi
  <1>12. ASSUME NEW p \in Processors, Crash(p) PROVE TypeOK'
    BY <1>12, EmptyBagIsEmpty
       DEF TypeOK, Jobs, Pushing, Crash, Ends, At, Idle, Scope, gnocchi
  <1>13. ASSUME NEW p \in Processors, NEW s \in Scopes, TakeScope(p, s) PROVE TypeOK'
    BY <1>13, EmptyBagIsEmpty
       DEF TypeOK, Jobs, Pushing, TakeScope, At, Idle, memory, gnocchi
  <1>14. ASSUME NEW s \in Scopes, NEW t \in Periods, Reset(s, t) PROVE TypeOK'
    BY <1>14, EmptyBagIsEmpty
       DEF TypeOK, Jobs, Pushing, Reset, memory, gnocchi
  <1>15. CASE InitStorage
    BY <1>15, EmptyBagIsEmpty
       DEF TypeOK, Jobs, Pushing, InitStorage, memory
  <1>16. CASE UNCHANGED vars
    BY <1>16, EmptyBagIsEmpty
       DEF TypeOK, Jobs, Pushing, vars, memory, gnocchi
  <1> QED
    BY <1>1, <1>2, <1>3, <1>4, <1>5, <1>6, <1>7, <1>8, <1>9, <1>10, <1>11, <1>12, <1>13, <1>14, <1>15, <1>16 DEF Next, Worker


-----------------------------------------------------------------------------
(***************************************************************************)
(* Steps of a worker.                                                      *)
(***************************************************************************)
Acts(p) ==
  Worker(p) \/ PushFails(p) \/ Crash(p) \/ \E s \in Scopes : TakeScope(p, s)

(* A worker changes its own job and its own memory only.                   *)
LEMMA OwnJobOnly ==
  ASSUME TypeOK, NEW p \in Processors, Acts(p)
  PROVE  /\ \A q \in Processors : q # p => job'[q] = job[q]
         /\ driver' = driver
         /\ (again' = again \/ Ends(p))
  <1>1. \A q \in Processors : q # p => job'[q] = job[q]
    BY DEF Acts, TypeOK, Goto, Keep, Ends, Identified,
           Worker, NextPeriod, CheckCommit, AppendRow, AppendMeasurements,
           CreateResource, CannotKeep, EndDispatch, Commit, PostCommit,
           SaveState, PushFails, Crash, TakeScope
  <1>2. driver' = driver
    BY DEF Acts, Worker, NextPeriod, CheckCommit, AppendRow, AppendMeasurements,
           CreateResource, CannotKeep, EndDispatch, Commit, PostCommit,
           SaveState, PushFails, Crash, TakeScope
  <1>3. again' = again \/ Ends(p)
    BY DEF Acts, Worker, NextPeriod, CheckCommit, AppendRow, AppendMeasurements,
           CreateResource, CannotKeep, EndDispatch, Commit, PostCommit,
           SaveState, PushFails, Crash, TakeScope
  <1> QED
    BY <1>1, <1>2, <1>3

LEMMA OwnMemoryOnly ==
  ASSUME TypeOK, NEW p \in Processors, Acts(p)
  PROVE  \A q \in Processors : q # p =>
           start'[q] = start[q] /\ hasData'[q] = hasData[q] /\ held'[q] = held[q]
  <1>1. \A q \in Processors : q # p => start'[q] = start[q]
    BY DEF Acts, TypeOK, memory, UpdateStart, ClearUsageInfo, Worker, NextPeriod, CheckCommit, AppendRow, AppendMeasurements,
           CreateResource, CannotKeep, EndDispatch, Commit, PostCommit,
           SaveState, PushFails, Crash, TakeScope
  <1>2. \A q \in Processors : q # p => hasData'[q] = hasData[q]
    BY DEF Acts, TypeOK, memory, Keep, Worker, NextPeriod, CheckCommit, AppendRow, AppendMeasurements,
           CreateResource, CannotKeep, EndDispatch, Commit, PostCommit,
           SaveState, PushFails, Crash, TakeScope
  <1>3. \A q \in Processors : q # p => held'[q] = held[q]
    BY DEF Acts, TypeOK, memory, Keep, Worker, NextPeriod, CheckCommit, AppendRow, AppendMeasurements,
           CreateResource, CannotKeep, EndDispatch, Commit, PostCommit,
           SaveState, PushFails, Crash, TakeScope
  <1> QED
    BY <1>1, <1>2, <1>3


(* Nor the scope of another.                                               *)
LEMMA OwnScopeOnly ==
  ASSUME TypeOK, JobsOK, NEW p \in Processors, Acts(p),
         NEW q \in Processors, q # p, NEW s \in Scopes, lock[s] = q
  PROVE  lock'[s] = q /\ mark'[s] = mark[s] /\ state'[s] = state[s]
  <1>1. ~At(p, "idle") => Scope(p) # s
    BY DEF JobsOK, JobOK
  <1>2. mark'[s] = mark[s]
    BY <1>1 DEF Acts, TypeOK, At, Worker, NextPeriod, CheckCommit, AppendRow,
               AppendMeasurements, CreateResource, CannotKeep, EndDispatch,
               Commit, PostCommit, SaveState, PushFails, Crash, TakeScope
  <1>3. state'[s] = state[s]
    BY <1>1 DEF Acts, TypeOK, At, gnocchi, Worker, NextPeriod, CheckCommit, AppendRow,
               AppendMeasurements, CreateResource, CannotKeep, EndDispatch,
               Commit, PostCommit, SaveState, PushFails, Crash, TakeScope
  <1>4. lock'[s] = q
    <2>1. CASE \E u \in Scopes : TakeScope(p, u)
      <3>1. PICK u \in Scopes : TakeScope(p, u)
        BY <2>1
      <3>2. u # s
        BY <3>1, V1Assumption DEF TakeScope
      <3> QED
        BY <3>1, <3>2 DEF TakeScope, TypeOK
    <2>2. CASE Worker(p) \/ PushFails(p) \/ Crash(p)
      <3>1. At(p, "idle") => lock' = lock
        BY <2>2 DEF JobsOK, JobOK, At, Ends, Identified, Worker, NextPeriod, CheckCommit, AppendRow,
               AppendMeasurements, CreateResource, CannotKeep, EndDispatch,
               Commit, PostCommit, SaveState, PushFails, Crash, TakeScope
      <3>2. lock' = lock \/ lock' = [lock EXCEPT ![Scope(p)] = Free]
        BY <2>2 DEF Ends, Worker, NextPeriod, CheckCommit, AppendRow,
               AppendMeasurements, CreateResource, CannotKeep, EndDispatch,
               Commit, PostCommit, SaveState, PushFails, Crash, TakeScope
      <3> QED
        BY <1>1, <3>1, <3>2 DEF TypeOK
    <2> QED
      BY <2>1, <2>2 DEF Acts
  <1> QED
    BY <1>2, <1>3, <1>4

LEMMA OtherJobsOK ==
  ASSUME TypeOK, JobsOK, NEW p \in Processors, Acts(p),
         NEW q \in Processors, q # p
  PROVE  JobOK(q)'
  <1>1. /\ job'[q] = job[q] /\ start'[q] = start[q] /\ driver' = driver
    BY OwnJobOnly, OwnMemoryOnly
  <1>2. ~At(q, "idle") => /\ Scope(q) \in Scopes /\ lock[Scope(q)] = q
                          /\ lock'[Scope(q)] = q /\ mark'[Scope(q)] = mark[Scope(q)]
    <2>1. ~At(q, "idle") => Scope(q) \in Scopes /\ lock[Scope(q)] = q
      BY DEF JobsOK, JobOK
    <2> QED
      BY <2>1, OwnScopeOnly
  <1>3. JobOK(q)
    BY DEF JobsOK
  <1> QED
    BY <1>1, <1>2, <1>3 DEF JobOK, At, Scope, Points, Point, Pushing, Open

LEMMA JobsStep ==
  TypeOK /\ JobsOK /\ [Next]_vars => JobsOK'
  <1> SUFFICES ASSUME TypeOK, JobsOK, [Next]_vars
               PROVE  JobsOK'
    OBVIOUS
  <1>1. ASSUME NEW p \in Processors, NextPeriod(p) PROVE JobsOK'
    <2>1. Scope(p) \in Scopes /\ lock[Scope(p)] = p
      BY <1>1 DEF NextPeriod, JobsOK, JobOK, At
    <2>2. ASSUME mark[Scope(p)] < MaxPeriod, lock' = lock,
                 job' = [job EXCEPT ![p] = Begin(p, mark[Scope(p)] + 1)]
          PROVE  JobOK(p)'
      <3>1. mark[Scope(p)] \in Int /\ mark[Scope(p)] + 1 \in Periods
        BY <2>1, <2>2, V1Assumption DEF TypeOK, Periods, Unset
      <3>2. job'[p] = Begin(p, mark[Scope(p)] + 1)
        BY <2>2 DEF TypeOK
      <3>3. /\ job'[p].scope = Scope(p) /\ job'[p].time = mark[Scope(p)] + 1
            /\ job'[p].next = 1 /\ job'[p].pc = IF Used(Scope(p), mark[Scope(p)] + 1) THEN "append" ELSE "save"
        BY <3>2 DEF Begin, Scope, TypeOK, Jobs, Used
      <3> QED
        BY <1>1, <2>1, <2>2, <3>1, <3>3 DEF NextPeriod, JobOK, At, Scope, Pushing, Open, Used
    <2>3. ASSUME job' = [job EXCEPT ![p] = Idle] PROVE JobOK(p)'
      <3>1. job'[p].pc = "idle" /\ job'[p].time = Unset
        BY <2>3 DEF TypeOK, Idle
      <3> QED
        BY <3>1 DEF JobOK, At, Pushing, Open
    <2>4. JobOK(p)'
      BY <1>1, <2>2, <2>3 DEF NextPeriod
    <2> QED
      BY <1>1, OtherJobsOK, <2>4 DEF Acts, Worker, JobsOK
  <1>2. ASSUME NEW p \in Processors, CheckCommit(p) PROVE JobsOK'
    <2> DEFINE s == Scope(p)
               t == job[p].time
    <2>1. /\ At(p, "append") /\ s \in Scopes /\ lock[s] = p /\ t = mark[s] + 1
          /\ t \in Periods /\ Used(s, t) /\ Len(Points(p)) \in Nat
      BY <1>2, PushedPeriod DEF CheckCommit, At, Pushing
    <2>2. t \in Nat /\ start[p][s] \in Nat \cup {Unset}
      BY <2>1, PeriodsAreNumbers DEF TypeOK
    <2>3. /\ job'[p].scope = job[p].scope /\ job'[p].time = job[p].time
          /\ job'[p].next = job[p].next
          /\ job'[p].pc = IF Stale(p) THEN "flush" ELSE "dispatch"
      BY <1>2, GoneTo DEF CheckCommit, Pushing
    <2>4. Scope(p)' = Scope(p) /\ Points(p)' = Points(p)
      BY <2>3 DEF Scope, Points
    <2>5. JobOK(p)
      BY DEF JobsOK
    <2>6. lock' = lock /\ mark' = mark /\ driver' = driver
      BY <1>2 DEF CheckCommit
    <2>7. ASSUME Stale(p) PROVE JobOK(p)'
      <3>1. start' = start
        BY <1>2, <2>7 DEF CheckCommit
      <3>2. start[p][s] # Unset /\ start[p][s] \in Nat /\ start[p][s] < t
        BY <2>2, <2>7, PeriodsAreNumbers DEF Stale, UsageEnd
      <3> QED
        BY <2>1, <2>4, <2>5, <2>3, <2>6, <2>7, <3>1, <3>2 DEF JobOK, At, Pushing, Open
    <2>8. ASSUME ~Stale(p) PROVE JobOK(p)'
      <3>1. start'[p][s] = IF start[p][s] = Unset THEN t ELSE start[p][s]
        BY <1>2, <2>1, <2>8 DEF CheckCommit, UpdateStart, TypeOK
      <3>2. t <= start'[p][s]
        BY <2>2, <2>8, <3>1, PeriodsAreNumbers DEF Stale, UsageEnd
      <3>3. job'[p].next = 1
        BY <1>2, <2>3 DEF CheckCommit, JobsOK, JobOK, At
      <3> QED
        BY <2>1, <2>4, <2>5, <2>3, <2>6, <2>8, <3>2, <3>3 DEF JobOK, At, Pushing, Open
    <2>9. JobOK(p)'
      BY <2>7, <2>8
    <2> QED
      BY <1>2, OtherJobsOK, <2>9 DEF Acts, Worker, JobsOK
  <1>3. ASSUME NEW p \in Processors, AppendRow(p) PROVE JobsOK'
    <2>1. /\ job'[p].pc = "dispatch" /\ job'[p].scope = job[p].scope
          /\ job'[p].time = job[p].time /\ job'[p].next = job[p].next + 1
      BY <1>3, Advanced DEF AppendRow, At
    <2>2. Scope(p)' = Scope(p) /\ Points(p)' = Points(p)
      BY <2>1 DEF Scope, Points
    <2>3. JobOK(p)
      BY DEF JobsOK
    <2>4. JobOK(p)'
      BY <1>3, PushedPeriod, <2>1, <2>2, <2>3 DEF AppendRow, JobOK, At, Pushing, Open
    <2> QED
      BY <1>3, OtherJobsOK, <2>4 DEF Acts, Worker, JobsOK
  <1>4. ASSUME NEW p \in Processors, AppendMeasurements(p) PROVE JobsOK'
    <2>1. ASSUME Goto(p, "create"), UNCHANGED <<hasData, held>> PROVE JobOK(p)'
      <3>1. /\ job'[p].pc = "create" /\ job'[p].scope = job[p].scope
            /\ job'[p].time = job[p].time /\ job'[p].next = job[p].next
        BY <2>1, GoneTo DEF Pushing
      <3>2. Scope(p)' = Scope(p) /\ Points(p)' = Points(p)
        BY <3>1 DEF Scope, Points
      <3>3. JobOK(p)
        BY DEF JobsOK
      <3>4. Point(p)' = Point(p)
        BY <3>1, <3>2 DEF Point
      <3> QED
        BY <1>4, PushedPeriod, <2>1, <3>1, <3>2, <3>3, <3>4
           DEF AppendMeasurements, Identified, JobOK, At, Pushing, Open
    <2>2. ASSUME NEW r \in resources, Keep(p, r) PROVE JobOK(p)'
      <3>1. /\ job'[p].pc = "dispatch" /\ job'[p].scope = job[p].scope
            /\ job'[p].time = job[p].time /\ job'[p].next = job[p].next + 1
        BY <2>2, Advanced DEF Keep
      <3>2. Scope(p)' = Scope(p) /\ Points(p)' = Points(p)
        BY <3>1 DEF Scope, Points
      <3>3. JobOK(p)
        BY DEF JobsOK
      <3> QED
        BY <1>4, PushedPeriod, <3>1, <3>2, <3>3 DEF AppendMeasurements, Identified, JobOK, At, Pushing, Open
    <2>3. JobOK(p)'
      BY <1>4, <2>1, <2>2 DEF AppendMeasurements, FindResource
    <2> QED
      BY <1>4, OtherJobsOK, <2>3 DEF Acts, Worker, JobsOK
  <1>5. ASSUME NEW p \in Processors, CreateResource(p) PROVE JobsOK'
    <2>1. /\ job'[p].pc = "dispatch" /\ job'[p].scope = job[p].scope
          /\ job'[p].time = job[p].time /\ job'[p].next = job[p].next + 1
      BY <1>5, Advanced DEF CreateResource, Keep
    <2>2. Scope(p)' = Scope(p) /\ Points(p)' = Points(p)
      BY <2>1 DEF Scope, Points
    <2>3. JobOK(p)
      BY DEF JobsOK
    <2>4. JobOK(p)'
      BY <1>5, PushedPeriod, <2>1, <2>2, <2>3 DEF CreateResource, JobOK, At, Pushing, Open
    <2> QED
      BY <1>5, OtherJobsOK, <2>4 DEF Acts, Worker, JobsOK
  <1>6. ASSUME NEW p \in Processors, CannotKeep(p) PROVE JobsOK'
    <2>1. JobOK(p)'
      BY <1>6 DEF CannotKeep, Ends, TypeOK, Idle, JobOK, At, Pushing, Open
    <2> QED
      BY <1>6, OtherJobsOK, <2>1 DEF Acts, Worker, JobsOK
  <1>7. ASSUME NEW p \in Processors, EndDispatch(p) PROVE JobsOK'
    <2>1. /\ job'[p].scope = job[p].scope /\ job'[p].time = job[p].time
          /\ job'[p].next = job[p].next
      BY <1>7, GoneTo DEF EndDispatch, Pushing
    <2>2. Scope(p)' = Scope(p) /\ Points(p)' = Points(p)
      BY <2>1 DEF Scope, Points
    <2>3. JobOK(p)
      BY DEF JobsOK
    <2>4. /\ lock' = lock /\ (~At(p, "save") => mark' = mark)
          /\ (job[p].pc \in {"dispatch", "commit"} => start' = start)
      BY <1>7 DEF EndDispatch, At, memory
    <2>5. job'[p].pc = "commit"
      BY <1>7, GoneTo DEF EndDispatch, Pushing, At
    <2>6. job[p].pc \in {"dispatch"}
      BY <1>7 DEF EndDispatch, At
    <2>7. JobOK(p)'
      BY <1>7, PushedPeriod, <2>1, <2>2, <2>3, <2>4, <2>5, <2>6
         DEF EndDispatch, JobOK, At, Pushing, Open
    <2> QED
      BY <1>7, OtherJobsOK, <2>7 DEF Acts, Worker, JobsOK
  <1>8. ASSUME NEW p \in Processors, Commit(p) PROVE JobsOK'
    <2>1. /\ job'[p].scope = job[p].scope /\ job'[p].time = job[p].time
          /\ job'[p].next = job[p].next
      BY <1>8, GoneTo DEF Commit, Pushing
    <2>2. Scope(p)' = Scope(p) /\ Points(p)' = Points(p)
      BY <2>1 DEF Scope, Points
    <2>3. JobOK(p)
      BY DEF JobsOK
    <2>4. /\ lock' = lock /\ (~At(p, "save") => mark' = mark)
          /\ (job[p].pc \in {"dispatch", "commit"} => start' = start)
      BY <1>8 DEF Commit, At
    <2>5. job'[p].pc = IF job[p].pc = "commit" THEN "committed" ELSE "flushed"
      BY <1>8, GoneTo DEF Commit, Pushing, At
    <2>6. job[p].pc \in {"commit", "flush"}
      BY <1>8 DEF Commit, At
    <2>7. JobOK(p)'
      BY <1>8, PushedPeriod, <2>1, <2>2, <2>3, <2>4, <2>5, <2>6
         DEF Commit, JobOK, At, Pushing, Open
    <2> QED
      BY <1>8, OtherJobsOK, <2>7 DEF Acts, Worker, JobsOK
  <1>9. ASSUME NEW p \in Processors, PostCommit(p) PROVE JobsOK'
    <2>1. /\ job'[p].scope = job[p].scope /\ job'[p].time = job[p].time
          /\ job'[p].next = job[p].next
      BY <1>9, GoneTo DEF PostCommit, Pushing
    <2>2. Scope(p)' = Scope(p) /\ Points(p)' = Points(p)
      BY <2>1 DEF Scope, Points
    <2>3. JobOK(p)
      BY DEF JobsOK
    <2>4. /\ lock' = lock /\ (~At(p, "save") => mark' = mark)
          /\ (job[p].pc \in {"dispatch", "commit"} => start' = start)
      BY <1>9 DEF PostCommit, At
    <2>5. job'[p].pc = IF job[p].pc = "committed" THEN "save" ELSE "append"
      BY <1>9, GoneTo DEF PostCommit, Pushing, At
    <2>6. job[p].pc \in {"committed", "flushed"}
      BY <1>9 DEF PostCommit, At
    <2>7. JobOK(p)'
      BY <1>9, PushedPeriod, <2>1, <2>2, <2>3, <2>4, <2>5, <2>6
         DEF PostCommit, JobOK, At, Pushing, Open
    <2> QED
      BY <1>9, OtherJobsOK, <2>7 DEF Acts, Worker, JobsOK
  <1>10. ASSUME NEW p \in Processors, SaveState(p) PROVE JobsOK'
    <2>1. /\ job'[p].scope = job[p].scope /\ job'[p].time = job[p].time
          /\ job'[p].next = job[p].next
      BY <1>10, GoneTo DEF SaveState, Pushing
    <2>2. Scope(p)' = Scope(p) /\ Points(p)' = Points(p)
      BY <2>1 DEF Scope, Points
    <2>3. JobOK(p)
      BY DEF JobsOK
    <2>4. /\ lock' = lock /\ (~At(p, "save") => mark' = mark)
          /\ (job[p].pc \in {"dispatch", "commit"} => start' = start)
      BY <1>10 DEF SaveState, At, memory
    <2>5. job'[p].pc = "next"
      BY <1>10, GoneTo DEF SaveState, Pushing, At
    <2>6. job[p].pc \in {"save"}
      BY <1>10 DEF SaveState, At
    <2>7. JobOK(p)'
      BY <1>10, PushedPeriod, <2>1, <2>2, <2>3, <2>4, <2>5, <2>6
         DEF SaveState, JobOK, At, Pushing, Open
    <2> QED
      BY <1>10, OtherJobsOK, <2>7 DEF Acts, Worker, JobsOK
  <1>11. ASSUME NEW p \in Processors, PushFails(p) PROVE JobsOK'
    <2>1. JobOK(p)'
      BY <1>11 DEF PushFails, Ends, TypeOK, Idle, JobOK, At, Pushing, Open
    <2> QED
      BY <1>11, OtherJobsOK, <2>1 DEF Acts, Worker, JobsOK
  <1>12. ASSUME NEW p \in Processors, Crash(p) PROVE JobsOK'
    <2>1. JobOK(p)'
      BY <1>12 DEF Crash, Ends, TypeOK, Idle, JobOK, At, Pushing, Open
    <2> QED
      BY <1>12, OtherJobsOK, <2>1 DEF Acts, Worker, JobsOK
  <1>13. ASSUME NEW p \in Processors, NEW s \in Scopes, TakeScope(p, s) PROVE JobsOK'
    <2>1. /\ job'[p].pc = "next" /\ job'[p].scope = s
          /\ lock'[s] = p
      BY <1>13 DEF TakeScope, TypeOK, Idle
    <2>2. Acts(p)
      BY <1>13 DEF Acts
    <2>3. JobOK(p)'
      BY <1>13, <2>1 DEF TakeScope, Scope, JobOK, At, Pushing, Open
    <2> QED
      BY <1>13, OtherJobsOK, <2>2, <2>3 DEF Acts, Worker, JobsOK
  <1>14. ASSUME NEW s \in Scopes, NEW t \in Periods, Reset(s, t) PROVE JobsOK'
    <2> SUFFICES ASSUME NEW q \in Processors PROVE JobOK(q)'
      BY DEF JobsOK
    <2>1. JobOK(q) /\ ~At(q, "idle") => Scope(q) # s
      BY <1>14, V1Assumption DEF JobsOK, JobOK, Reset
    <2> QED
      BY <1>14, <2>1 DEF JobsOK, Reset, TypeOK, memory, Scope, Points, Point, JobOK, At, Pushing, Open
  <1>15. CASE InitStorage
    BY <1>15 DEF InitStorage, memory, JobsOK, Scope, Points, Point, JobOK, At, Pushing, Open
  <1>16. CASE UNCHANGED vars
    BY <1>16 DEF vars, memory, JobsOK, Scope, Points, Point, JobOK, At, Pushing, Open
  <1> QED
    BY <1>1, <1>2, <1>3, <1>4, <1>5, <1>6, <1>7, <1>8, <1>9, <1>10, <1>11, <1>12, <1>13, <1>14, <1>15, <1>16 DEF Next, Worker


-----------------------------------------------------------------------------
(***************************************************************************)
(* What comes into memory, and what is stored.                             *)
(***************************************************************************)
(* The worker deals with a point for a resource.                           *)
Keeps(p, resource) ==
  /\ driver = "hybrid" /\ job[p].pc \in {"dispatch", "create"}
  /\ job[p].next <= Len(Points(p))
  /\ Suits(resource, Point(p)) /\ Keep(p, resource)

LEMMA KeepingAPoint ==
  ASSUME TypeOK, JobsOK, NEW p \in Processors,
         \/ AppendMeasurements(p) /\ FindResource(Point(p)) # {}
         \/ CreateResource(p)
  PROVE  \E resource \in Makeable : Keeps(p, resource)
  <1>1. CASE AppendMeasurements(p) /\ FindResource(Point(p)) # {}
    <2>1. PICK resource \in FindResource(Point(p)) : Keep(p, resource)
      BY <1>1 DEF AppendMeasurements
    <2>2. /\ resource \in Makeable /\ resource.service = Point(p).service
          /\ resource.id = Desc(Point(p))["id"]
      BY <2>1 DEF FindResource, TypeOK
    <2> QED
      BY <1>1, <2>1, <2>2 DEF AppendMeasurements, Identified, At, Keeps, Suits
  <1>2. CASE CreateResource(p)
    <2> DEFINE new == MadeFor(Scope(p), Point(p))
    <2>1. /\ job[p].pc = "create" /\ driver = "hybrid" /\ Keep(p, new)
          /\ job[p].next <= Len(Points(p))
      BY <1>2 DEF CreateResource, MadeFor, At, JobsOK, JobOK
    <2>2. Suits(new, Point(p))
      BY <2>1, CreatedResource DEF Suits
    <2> QED
      BY <2>1, <2>2 DEF Keeps, Suits
  <1> QED
    BY <1>1, <1>2

(* The row that it keeps.                                                  *)
LEMMA KeptRow ==
  ASSUME TypeOK, JobsOK, NEW p \in Processors, NEW resource \in Makeable,
         Keeps(p, resource)
  PROVE  LET s == Scope(p)
             t == job[p].time
             row == Measure(s, t, job[p].next, resource)
         IN  /\ s \in Scopes /\ t \in Periods /\ Used(s, t)
             /\ job[p].next \in Indices(s, t) /\ job[p].next \in Nat
             /\ Suits(resource, Point(p))
             /\ row \in Rows
             /\ row.scope = s /\ row.begin = Unset /\ row.of = t
             /\ row.point = job[p].next /\ row.resource = resource
             /\ held'[p][s] = Insert(held[p][s], row)
             /\ DOMAIN held'[p][s] = DOMAIN held[p][s] \cup {row}
             /\ \A u \in Scopes : u # s => held'[p][u] = held[p][u]
  <1> DEFINE s == Scope(p)
             t == job[p].time
             row == Measure(s, t, job[p].next, resource)
  <1>1. job[p].pc \in {"dispatch", "create"} /\ Keep(p, resource)
    BY DEF Keeps
  <1>2. /\ s \in Scopes /\ t \in Periods /\ Used(s, t)
        /\ Indices(s, t) = 1 .. Len(Points(p)) /\ Len(Points(p)) \in Nat
    BY <1>1, PushedPeriod DEF Pushing
  <1>3. /\ job[p].next \in Nat /\ job[p].next \in Indices(s, t)
        /\ Suits(resource, Point(p))
    BY <1>1, <1>2 DEF Keeps, TypeOK, Jobs, JobsOK, JobOK, Open
  <1>4. /\ row \in Rows /\ held'[p][s] = Insert(held[p][s], row)
        /\ \A u \in Scopes : u # s => held'[p][u] = held[p][u]
    BY <1>1, KeptTypes
  <1>5. DOMAIN held'[p][s] = DOMAIN held[p][s] \cup {row}
    <2>1. held[p][s] \in BagsOfRows
      BY <1>2 DEF TypeOK
    <2> HIDE DEF row, s
    <2> QED
      BY <1>4, <2>1, AddedRow
  <1>6. /\ row.scope = s /\ row.begin = Unset /\ row.of = t
        /\ row.point = job[p].next /\ row.resource = resource
    BY RowFields
  <1> QED
    BY <1>2, <1>3, <1>4, <1>5, <1>6

(* Memory only grows by such rows.                                         *)
LEMMA MemoryGrows ==
  ASSUME TypeOK, JobsOK, NEW p \in Processors, Acts(p)
  PROVE  \/ held' = held
         \/ \E resource \in Makeable : Keeps(p, resource)
         \/ Commit(p) /\ held' = [held EXCEPT ![p][Scope(p)] = EmptyBag]
         \/ Crash(p) /\ held' = [held EXCEPT ![p] = [s \in Scopes |-> EmptyBag]]
  <1>1. \/ held' = held
        \/ AppendMeasurements(p) /\ FindResource(Point(p)) # {}
        \/ CreateResource(p)
        \/ Commit(p) /\ held' = [held EXCEPT ![p][Scope(p)] = EmptyBag]
        \/ Crash(p) /\ held' = [held EXCEPT ![p] = [s \in Scopes |-> EmptyBag]]
    BY DEF Acts, memory, Worker, NextPeriod, CheckCommit, AppendRow,
                         AppendMeasurements, CreateResource, CannotKeep, EndDispatch,
                         Commit, PostCommit, SaveState, PushFails, Crash, TakeScope
  <1> QED
    BY <1>1, KeepingAPoint

(* Rows are added when a point is dispatched by SQLAlchemy, and by a       *)
(* commit.                                                                 *)
Appends(p) ==
  LET row == Row(Scope(p), start[p][Scope(p)], job[p].time, job[p].next)
  IN  /\ driver # "hybrid" /\ job[p].pc = "dispatch"
      /\ job[p].next <= Len(Points(p)) /\ table' = Insert(table, row)

Commits(p) == job[p].pc \in {"commit", "flush"} /\ table' \in Written(p)

LEMMA TableGrows ==
  ASSUME TypeOK, JobsOK, RowsOK, NEW p \in Processors, Acts(p)
  PROVE  table' = table \/ Appends(p) \/ Commits(p)
  <1>1. CASE PushFails(p)
    BY <1>1, FailedWrite DEF Appends, Commits
  <1>2. CASE AppendRow(p)
    BY <1>2 DEF AppendRow, At, Appends
  <1>3. CASE Commit(p)
    BY <1>3 DEF Commit, At, Commits
  <1>4. CASE /\ ~PushFails(p) /\ ~AppendRow(p) /\ ~Commit(p)
    BY <1>4 DEF Acts, Worker, NextPeriod, CheckCommit, AppendMeasurements,
                CreateResource, CannotKeep, EndDispatch, PostCommit, SaveState,
                Crash, TakeScope
  <1> QED
    BY <1>1, <1>2, <1>3, <1>4

LEMMA AppendedRow ==
  ASSUME TypeOK, JobsOK, NEW p \in Processors, Appends(p)
  PROVE  LET s == Scope(p)
             t == job[p].time
             row == Row(s, start[p][s], t, job[p].next)
         IN  /\ s \in Scopes /\ t \in Periods /\ Used(s, t)
             /\ job[p].next \in Indices(s, t) /\ start[p][s] \in Periods
             /\ row \in Rows
             /\ row.scope = s /\ row.begin = start[p][s] /\ row.of = t
             /\ row.point = job[p].next
             /\ DOMAIN table' = DOMAIN table \cup {row}
             /\ \A r \in DOMAIN table : r # row => table'[r] = table[r]
             /\ row \notin DOMAIN table => table'[row] = 1
  <1> DEFINE s == Scope(p)
             t == job[p].time
             b == start[p][s]
             row == Row(s, b, t, job[p].next)
  <1>1. job[p].pc = "dispatch" /\ table' = Insert(table, row)
    BY DEF Appends
  <1>2. /\ s \in Scopes /\ t \in Periods /\ Used(s, t)
        /\ Indices(s, t) = 1 .. Len(Points(p)) /\ Len(Points(p)) \in Nat
    BY <1>1, PushedPeriod DEF Pushing
  <1>3. job[p].next \in 1 .. Len(Points(p)) /\ job[p].next \in Nat
    BY <1>1, <1>2 DEF Appends, JobsOK, JobOK, Open
  <1>4. b \in Periods
    BY <1>1, CommitsAPeriod
  <1>5. row = [scope |-> s, begin |-> b, of |-> t, point |-> job[p].next,
               resource |-> None]
    BY RowFields
  <1> HIDE DEF row, b, s, t
  <1>6. row \in Rows
    BY <1>2, <1>3, <1>4, <1>5 DEF Rows
  <1>7. /\ DOMAIN table' = DOMAIN table \cup {row}
        /\ \A r \in DOMAIN table : r # row => table'[r] = table[r]
        /\ row \notin DOMAIN table => table'[row] = 1
    BY <1>1, <1>6, AddedRow DEF TypeOK
  <1>8. /\ row.scope = s /\ row.begin = b /\ row.of = t
        /\ row.point = job[p].next
    BY <1>5
  <1> QED
    BY <1>2, <1>3, <1>4, <1>6, <1>7, <1>8 DEF row, b, s, t

(* SQLAlchemy deletes nothing; a slot of Gnocchi once filled remains so.   *)
LEMMA NothingDeleted ==
  ASSUME TypeOK, JobsOK, RowsOK, NEW p \in Processors, Acts(p)
  PROVE  /\ driver # "hybrid" => DOMAIN table \subseteq DOMAIN table'
         /\ \A r \in DOMAIN table : \E k \in DOMAIN table' :
              driver = "hybrid" => k.resource = r.resource /\ k.begin = r.begin
  <1>1. CASE Commits(p)
    <2>1. Scope(p) \in Scopes /\ start[p][Scope(p)] # Unset
      BY <1>1, PushedPeriod, CommitsAPeriod DEF Commits, Pushing
    <2>2. /\ driver # "hybrid" => DOMAIN table' = DOMAIN table \cup Added(p)
          /\ driver = "hybrid" =>
               \A r \in DOMAIN table \cup Added(p) : \E k \in DOMAIN table' :
                 k.resource = r.resource /\ k.begin = r.begin
      BY <1>1, <2>1, WrittenFacts DEF Commits
    <2>3. CASE driver = "hybrid"
      BY <2>2, <2>3
    <2>4. CASE driver # "hybrid"
      BY <2>2, <2>4
    <2> QED
      BY <2>3, <2>4
  <1>2. CASE DOMAIN table \subseteq DOMAIN table'
    BY <1>2
  <1>3. table' = table \/ Appends(p) => DOMAIN table \subseteq DOMAIN table'
    BY AppendedRow
  <1> QED
    BY <1>1, <1>2, <1>3, TableGrows


(* All other steps leave jobs, memory and what is stored alone; a reset    *)
(* takes a scope back that no worker has.                                  *)
Aside ==
  /\ UNCHANGED <<driver, lock, job, start, hasData, held, table, state, resources>>
  /\ again \subseteq again'
  /\ \A s \in Scopes :
       \/ mark'[s] = mark[s]
       \/ /\ lock[s] = Free /\ mark'[s] \in Periods /\ mark'[s] < mark[s]
          /\ \A u \in (mark'[s] + 1) .. mark[s] : <<s, u>> \in again'

LEMMA StepKinds ==
  ASSUME TypeOK, [Next]_vars
  PROVE  (\E p \in Processors : Acts(p)) \/ Aside
  <1>1. ASSUME NEW s \in Scopes, NEW t \in Periods, Reset(s, t) PROVE Aside
    <2>1. /\ UNCHANGED <<driver, lock, job, start, hasData, held, table, state, resources>>
          /\ again \subseteq again' /\ lock[s] = Free /\ t < mark[s]
          /\ mark' = [mark EXCEPT ![s] = t]
          /\ again' = again \cup {<<s, u>> : u \in (t + 1) .. mark[s]}
      BY <1>1 DEF Reset, memory, gnocchi
    <2>2. mark'[s] = t /\ \A u \in Scopes : u # s => mark'[u] = mark[u]
      BY <2>1 DEF TypeOK
    <2>3. \A u \in (t + 1) .. mark[s] : <<s, u>> \in again'
      BY <2>1
    <2> QED
      BY <2>1, <2>2, <2>3 DEF Aside
  <1>2. CASE InitStorage \/ UNCHANGED vars
    BY <1>2 DEF InitStorage, Aside, vars, memory, gnocchi
  <1> QED
    BY <1>1, <1>2 DEF Next, Acts

LEMMA RowsInit == Init => RowsOK /\ JobsOK /\ MemoryOK
  <1> SUFFICES ASSUME Init PROVE RowsOK /\ JobsOK /\ MemoryOK
    OBVIOUS
  <1>1. \A p \in Processors : job[p].pc = "idle" /\ job[p].time = Unset
    BY DEF Init, Idle
  <1>2. JobsOK
    BY <1>1 DEF JobsOK, JobOK, At, Pushing, Open
  <1>3. \A p \in Processors, s \in Scopes : DOMAIN held[p][s] = {}
    BY EmptyBagIsEmpty DEF Init
  <1>4. DOMAIN table = {}
    BY EmptyBagIsEmpty DEF Init
  <1>5. RowsOK
    BY <1>3, <1>4 DEF RowsOK
  <1>6. MemoryOK
    BY <1>1, <1>3 DEF Init, MemoryOK
  <1> QED
    BY <1>2, <1>5, <1>6

LEMMA RowsStep ==
  TypeOK /\ JobsOK /\ RowsOK /\ MemoryOK /\ [Next]_vars => RowsOK'
  <1> SUFFICES ASSUME TypeOK, JobsOK, RowsOK, MemoryOK, [Next]_vars
               PROVE  RowsOK'
    OBVIOUS
  <1>1. CASE Aside
    BY <1>1 DEF Aside, RowsOK, OfAPoint, OfItsResource
  <1>2. ASSUME NEW p \in Processors, Acts(p) PROVE RowsOK'
    <2> DEFINE HeldOK(s, r) ==
                 r.scope = s /\ r.begin = Unset /\ OfAPoint(r) /\ OfItsResource(r)
               StoredOK(r) ==
                 /\ r.begin \in Periods
                 /\ r.point # NoData => OfAPoint(r)
                 /\ driver = "hybrid" => OfAPoint(r) /\ OfItsResource(r)
    <2>1. /\ \A q \in Processors, s \in Scopes : \A r \in DOMAIN held[q][s] : HeldOK(s, r)
          /\ \A r \in DOMAIN table : StoredOK(r)
      BY DEF RowsOK
    <2>2. ASSUME NEW q \in Processors, NEW s \in Scopes, NEW r \in DOMAIN held'[q][s]
          PROVE  HeldOK(s, r)
      <3>1. CASE q # p \/ held' = held
        BY <1>2, <2>1, <3>1, OwnMemoryOnly
      <3>2. ASSUME q = p, NEW resource \in Makeable, Keeps(p, resource)
            PROVE  HeldOK(s, r)
        <4> DEFINE row == Measure(Scope(p), job[p].time, job[p].next, resource)
        <4>1. CASE r \in DOMAIN held[p][s]
          BY <2>1, <4>1
        <4>2. CASE r \notin DOMAIN held[p][s]
          <5>1. s = Scope(p) /\ r = row
            BY <3>2, <4>2, KeptRow
          <5>2. /\ r.scope = s /\ r.begin = Unset /\ r.of = job[p].time
                /\ r.point = job[p].next /\ r.resource = resource
                /\ Used(s, job[p].time) /\ job[p].next \in Indices(s, job[p].time)
                /\ Suits(resource, Point(p))
            BY <3>2, <5>1, KeptRow
          <5>3. Usage[<<r.scope, r.of>>][r.point] = Point(p)
            BY <5>1, <5>2 DEF Point, Points
          <5>4. OfAPoint(r)
            BY <5>2 DEF OfAPoint, Indices
          <5>5. OfItsResource(r)
            BY <5>2, <5>3 DEF OfItsResource, Suits
          <5> QED
            BY <5>2, <5>4, <5>5
        <4> QED
          BY <4>1, <4>2
      <3>3. CASE Commit(p) /\ held' = [held EXCEPT ![p][Scope(p)] = EmptyBag]
        BY <2>1, <3>3, EmptyBagIsEmpty DEF TypeOK
      <3>4. CASE held' = [held EXCEPT ![p] = [u \in Scopes |-> EmptyBag]]
        BY <2>1, <3>4, EmptyBagIsEmpty DEF TypeOK
      <3> QED
        BY <1>2, <3>1, <3>2, <3>3, <3>4, MemoryGrows
    <2>3. ASSUME NEW r \in DOMAIN table', r \notin DOMAIN table PROVE StoredOK(r)
      <3>1. ASSUME Appends(p) PROVE StoredOK(r)
        <4>1. /\ r.begin \in Periods /\ driver # "hybrid"
              /\ Used(r.scope, r.of) /\ r.point \in Indices(r.scope, r.of)
          BY <2>3, <3>1, AppendedRow DEF Appends
        <4> QED
          BY <4>1 DEF OfAPoint, Indices
      <3>2. ASSUME Commits(p) PROVE StoredOK(r)
        <4> DEFINE s == Scope(p)
        <4>1. s \in Scopes /\ start[p][s] # Unset /\ start[p][s] \in Periods
          BY <3>2, PushedPeriod, CommitsAPeriod DEF Commits, Pushing
        <4>2. r \in Added(p)
          BY <2>3, <3>2, <4>1, WrittenFacts DEF Commits
        <4>3. ASSUME driver = "hybrid" PROVE StoredOK(r)
          <5>1. state[s] \in Periods
            BY <4>1, <4>3 DEF MemoryOK, TypeOK
          <5>2. r.begin = state[s] /\ \E x \in DOMAIN held[p][s] :
                  /\ r.scope = x.scope /\ r.of = x.of /\ r.point = x.point
                  /\ r.resource = x.resource
            BY <4>1, <4>2, <4>3, MeasuresFacts DEF Added
          <5>3. OfAPoint(r) /\ OfItsResource(r)
            BY <2>1, <4>1, <5>2 DEF OfAPoint, OfItsResource
          <5> QED
            BY <5>1, <5>2, <5>3
        <4>4. ASSUME driver # "hybrid" PROVE StoredOK(r)
          <5>1. r = Row(s, start[p][s], start[p][s], NoData)
            BY <4>1, <4>2, <4>4, NoDataFacts DEF Added
          <5>2. r.begin = start[p][s] /\ r.point = NoData
            BY <5>1, RowFields
          <5> QED
            BY <4>1, <4>4, <5>2
        <4> QED
          BY <4>3, <4>4
      <3> QED
        BY <1>2, <2>3, <3>1, <3>2, TableGrows
    <2>4. driver' = driver
      BY <1>2, OwnJobOnly
    <2> QED
      BY <2>1, <2>2, <2>3, <2>4 DEF RowsOK, OfAPoint, OfItsResource
  <1> QED
    BY <1>1, <1>2, StepKinds


(* The state of a scope is of a period in memory, and moves forward.       *)
LEMMA StateMoves ==
  ASSUME TypeOK, JobsOK, NEW p \in Processors, Acts(p), state' # state
  PROVE  LET s == Scope(p)
         IN  /\ driver = "hybrid" /\ s \in Scopes
             /\ \A u \in Scopes : u # s => state'[u] = state[u]
             /\ \/ /\ CheckCommit(p) /\ ~Stale(p) /\ state[s] = Unset
                   /\ state'[s] = start'[p][s] /\ start'[p][s] # Unset
                   /\ start'[p][s] =
                        IF start[p][s] = Unset THEN job[p].time ELSE start[p][s]
                \/ /\ PostCommit(p) /\ start[p][s] > state[s]
                   /\ state'[s] = start[p][s] /\ start[p][s] # Unset
  <1> DEFINE s == Scope(p)
             begin == IF start[p][s] = Unset THEN job[p].time ELSE start[p][s]
  <1>1. \/ /\ CheckCommit(p) /\ ~Stale(p) /\ driver = "hybrid" /\ state[s] = Unset
           /\ state' = [state EXCEPT ![s] = begin]
           /\ start' = [start EXCEPT ![p][s] = begin]
        \/ /\ PostCommit(p) /\ driver = "hybrid" /\ start[p][s] > state[s]
           /\ state' = [state EXCEPT ![s] = start[p][s]]
    BY DEF Acts, Worker, NextPeriod, CheckCommit, AppendRow, AppendMeasurements,
           CreateResource, CannotKeep, EndDispatch, Commit, PostCommit, SaveState,
           PushFails, Crash, TakeScope, UpdateStart
  <1>2. s \in Scopes
    BY <1>1, PushedPeriod DEF CheckCommit, PostCommit, At, Pushing
  <1>3. \A u \in Scopes : u # s => state'[u] = state[u]
    BY <1>1, <1>2 DEF TypeOK
  <1>4. CASE CheckCommit(p) /\ state' = [state EXCEPT ![s] = begin]
             /\ start' = [start EXCEPT ![p][s] = begin]
    <2>1. begin # Unset
      BY <1>4, PushedPeriod, PeriodsAreNumbers DEF CheckCommit, At, Pushing
    <2> HIDE DEF begin
    <2>2. state'[s] = begin /\ start'[p][s] = begin
      BY <1>2, <1>4 DEF TypeOK
    <2>3. ~PostCommit(p)
      BY <1>4 DEF CheckCommit, PostCommit, At
    <2> QED
      BY <1>1, <1>2, <1>3, <2>1, <2>2, <2>3 DEF begin
  <1>5. CASE PostCommit(p) /\ state' = [state EXCEPT ![s] = start[p][s]]
    <2>1. start[p][s] # Unset
      BY <1>5, CommitsAPeriod DEF PostCommit, At, Pushing
    <2>2. state'[s] = start[p][s]
      BY <1>2, <1>5 DEF TypeOK
    <2>3. ~CheckCommit(p)
      BY <1>5 DEF CheckCommit, PostCommit, At
    <2> QED
      BY <1>1, <1>2, <1>3, <1>5, <2>1, <2>2, <2>3
  <1> QED
    BY <1>1, <1>4, <1>5

(* The start of a period in memory is set by a commit that checks it, and  *)
(* is forgotten after a commit or in a crash.                              *)
LEMMA StartMoves ==
  ASSUME TypeOK, JobsOK, NEW p \in Processors, Acts(p)
  PROVE  LET s == Scope(p)
         IN  \/ start'[p] = start[p]
             \/ /\ CheckCommit(p) /\ ~Stale(p) /\ s \in Scopes
                /\ \A u \in Scopes : u # s => start'[p][u] = start[p][u]
                /\ start'[p][s] =
                     IF start[p][s] = Unset THEN job[p].time ELSE start[p][s]
             \/ /\ PostCommit(p) /\ s \in Scopes
                /\ \A u \in Scopes : u # s => start'[p][u] = start[p][u]
                /\ start'[p][s] = Unset
             \/ Crash(p) /\ \A u \in Scopes : start'[p][u] = Unset
  <1> DEFINE s == Scope(p)
             begin == IF start[p][s] = Unset THEN job[p].time ELSE start[p][s]
  <1>1. \/ start' = start
        \/ CheckCommit(p) /\ ~Stale(p) /\ start' = [start EXCEPT ![p][s] = begin]
        \/ PostCommit(p) /\ start' = [start EXCEPT ![p][s] = Unset]
        \/ Crash(p) /\ start' = [start EXCEPT ![p] = [u \in Scopes |-> Unset]]
    BY DEF Acts, Worker, NextPeriod, CheckCommit, AppendRow, AppendMeasurements,
           CreateResource, CannotKeep, EndDispatch, Commit, PostCommit, SaveState,
           PushFails, Crash, TakeScope, UpdateStart, ClearUsageInfo, memory
  <1>2. CheckCommit(p) \/ PostCommit(p) => s \in Scopes
    BY PushedPeriod DEF CheckCommit, PostCommit, At, Pushing
  <1> HIDE DEF s, begin
  <1>3. CASE CheckCommit(p) /\ ~Stale(p) /\ start' = [start EXCEPT ![p][s] = begin]
    BY <1>2, <1>3 DEF TypeOK, begin, s
  <1>4. CASE PostCommit(p) /\ start' = [start EXCEPT ![p][s] = Unset]
    BY <1>2, <1>4 DEF TypeOK, s
  <1>5. CASE Crash(p) /\ start' = [start EXCEPT ![p] = [u \in Scopes |-> Unset]]
    BY <1>5 DEF TypeOK
  <1> QED
    BY <1>1, <1>3, <1>4, <1>5

LEMMA MemoryStep ==
  TypeOK /\ JobsOK /\ MemoryOK /\ [Next]_vars => MemoryOK'
  <1> SUFFICES ASSUME TypeOK, JobsOK, MemoryOK, [Next]_vars
               PROVE  MemoryOK'
    OBVIOUS
  <1>1. CASE Aside
    BY <1>1 DEF Aside, MemoryOK, Scope
  <1>2. ASSUME NEW p \in Processors, Acts(p) PROVE MemoryOK'
    <2>1. \A s \in Scopes : state[s] # Unset => state'[s] # Unset
      BY <1>2, StateMoves
    <2>2. driver' = driver
      BY <1>2, OwnJobOnly
    <2>3. ASSUME NEW q \in Processors, q # p, NEW s \in Scopes
          PROVE  /\ driver = "hybrid" /\ start'[q][s] # Unset => state'[s] # Unset
                 /\ start'[q][s] = Unset =>
                      DOMAIN held'[q][s] = {} /\ s \notin hasData'[q]
                 /\ job'[q].scope = s /\ job'[q].pc \in {"committed", "flushed"} =>
                      DOMAIN held'[q][s] = {}
      <3>1. /\ start'[q] = start[q] /\ hasData'[q] = hasData[q]
            /\ held'[q] = held[q] /\ job'[q] = job[q]
        BY <1>2, <2>3, OwnJobOnly, OwnMemoryOnly
      <3> QED
        BY <2>1, <3>1 DEF MemoryOK, Scope
    <2>4. ASSUME NEW s \in Scopes, driver = "hybrid", start'[p][s] # Unset
          PROVE  state'[s] # Unset
      <3>1. CASE start'[p][s] = start[p][s]
        BY <2>1, <2>4, <3>1 DEF MemoryOK
      <3>2. CASE CheckCommit(p) /\ ~Stale(p) /\ s = Scope(p)
        <4>1. state[s] = Unset => state'[s] # Unset
          <5> SUFFICES ASSUME state[s] = Unset PROVE state'[s] # Unset
            OBVIOUS
          <5> DEFINE begin == IF start[p][s] = Unset THEN job[p].time ELSE start[p][s]
          <5>1. state' = [state EXCEPT ![s] = begin]
            BY <2>4, <3>2 DEF CheckCommit
          <5>2. begin # Unset
            BY <3>2, PushedPeriod, PeriodsAreNumbers DEF CheckCommit, At, Pushing
          <5> QED
            BY <5>1, <5>2 DEF TypeOK
        <4> QED
          BY <2>1, <4>1
      <3> QED
        BY <1>2, <2>4, <3>1, <3>2, StartMoves
    <2>5. ASSUME NEW s \in Scopes, start'[p][s] = Unset
          PROVE  DOMAIN held'[p][s] = {} /\ s \notin hasData'[p]
      <3>1. CASE Crash(p)
        BY <3>1, EmptyBagIsEmpty DEF Crash, TypeOK
      <3>2. CASE PostCommit(p) /\ s = Scope(p)
        <4>1. job[p].pc \in {"committed", "flushed"} /\ held' = held
          BY <3>2 DEF PostCommit, At
        <4>2. DOMAIN held[p][s] = {}
          BY <3>2, <4>1 DEF MemoryOK
        <4>3. s \notin hasData'[p]
          BY <3>2 DEF PostCommit, TypeOK
        <4> QED
          BY <4>1, <4>2, <4>3
      <3>3. CASE ~Crash(p) /\ ~(PostCommit(p) /\ s = Scope(p))
        <4>1. start[p][s] = Unset
          <5>1. CheckCommit(p) /\ s = Scope(p) => job[p].time # Unset
            BY PushedPeriod, PeriodsAreNumbers DEF CheckCommit, At, Pushing
          <5> QED
            BY <1>2, <2>5, <3>3, <5>1, StartMoves
        <4>2. DOMAIN held[p][s] = {} /\ s \notin hasData[p]
          BY <4>1 DEF MemoryOK
        <4>3. job[p].pc \in {"dispatch", "create", "commit", "flush"} => s # Scope(p)
          BY <4>1, CommitsAPeriod DEF Pushing
        <4>4. DOMAIN held'[p][s] = {}
          <5>1. ASSUME NEW resource \in Makeable, Keeps(p, resource)
                PROVE  held'[p][s] = held[p][s]
            BY <4>3, <5>1, KeptRow DEF Keeps
          <5>2. CASE held' = [held EXCEPT ![p][Scope(p)] = EmptyBag]
            BY <4>2, <5>2, EmptyBagIsEmpty DEF TypeOK
          <5> QED
            BY <1>2, <3>3, <4>2, <5>1, <5>2, MemoryGrows
        <4>5. s \notin hasData'[p]
          <5>1. \/ hasData' = hasData
                \/ hasData' = [hasData EXCEPT ![p] = @ \ {Scope(p)}]
                \/ /\ job[p].pc \in {"dispatch", "create"}
                   /\ hasData' = [hasData EXCEPT ![p] = @ \cup {Scope(p)}]
            BY <1>2, <3>3
               DEF Acts, Worker, NextPeriod, CheckCommit, AppendRow, AppendMeasurements,
                   CreateResource, CannotKeep, EndDispatch, Commit, PostCommit,
                   SaveState, PushFails, TakeScope, memory, Keep, At, Identified
          <5>2. CASE hasData' = [hasData EXCEPT ![p] = @ \ {Scope(p)}]
            BY <4>2, <5>2 DEF TypeOK
          <5>3. CASE /\ job[p].pc \in {"dispatch", "create"}
                     /\ hasData' = [hasData EXCEPT ![p] = @ \cup {Scope(p)}]
            BY <4>2, <4>3, <5>3 DEF TypeOK
          <5> QED
            BY <4>2, <5>1, <5>2, <5>3
        <4> QED
          BY <4>4, <4>5
      <3> QED
        BY <3>1, <3>2, <3>3
    <2>6. ASSUME NEW s \in Scopes, job'[p].scope = s,
                 job'[p].pc \in {"committed", "flushed"}
          PROVE  DOMAIN held'[p][s] = {}
      <3>1. Commit(p)
        <4>1. Commit(p) \/ Ends(p) \/ (\E u \in Scopes : TakeScope(p, u))
              \/ (\E pc \in Pushing \cup {"next"} :
                    pc \notin {"committed", "flushed"} /\ Goto(p, pc))
              \/ NextPeriod(p)
              \/ job' = [job EXCEPT ![p].next = @ + 1, ![p].pc = "dispatch"]
              \/ (job' = [job EXCEPT ![p].next = @ + 1] /\ job[p].pc = "dispatch")
          BY <1>2
             DEF Acts, Worker, CheckCommit, AppendRow, AppendMeasurements,
                 CreateResource, CannotKeep, EndDispatch, PostCommit,
                 SaveState, PushFails, Crash, Keep, At, Pushing
        <4>2. ~Ends(p)
          BY <2>6 DEF Ends, TypeOK, Idle
        <4>3. ~(\E u \in Scopes : TakeScope(p, u))
          <5> SUFFICES ASSUME NEW u \in Scopes, TakeScope(p, u) PROVE FALSE
            OBVIOUS
          <5>1. job'[p].pc = "next"
            BY DEF TakeScope, TypeOK, Idle
          <5> QED
            BY <2>6, <5>1
        <4>4. ~NextPeriod(p)
          <5> SUFFICES ASSUME NextPeriod(p) PROVE FALSE
            OBVIOUS
          <5>1. job'[p] \in {Idle, Begin(p, mark[Scope(p)] + 1)}
            BY DEF NextPeriod, TypeOK
          <5>2. Begin(p, mark[Scope(p)] + 1).pc \in {"append", "save"}
            BY DEF Begin, TypeOK, Jobs
          <5> QED
            BY <2>6, <5>1, <5>2 DEF Idle
        <4> QED
          BY <2>6, <4>1, <4>2, <4>3, <4>4, GoneTo, Advanced
      <3>2. s = Scope(p)
        BY <2>6, <3>1, GoneTo DEF Commit, Scope, Pushing
      <3> QED
        BY <3>1, <3>2, EmptyBagIsEmpty DEF Commit, TypeOK
    <2> QED
      BY <2>2, <2>3, <2>4, <2>5, <2>6 DEF MemoryOK, Scope
  <1> QED
    BY <1>1, <1>2, StepKinds


-----------------------------------------------------------------------------
(***************************************************************************)
(* What counts as rated is stored.                                         *)
(***************************************************************************)
LEMMA StillRowed ==
  ASSUME TypeOK, JobsOK, RowsOK, NEW p \in Processors, Acts(p),
         NEW s \in Scopes, NEW t \in Periods
  PROVE  /\ \A i : Rowed(s, t, i) => Rowed(s, t, i)'
         /\ Secured(s, t) => Secured(s, t)'
  <1>1. driver' = driver
    BY OwnJobOnly
  <1>2. ASSUME NEW i, Rowed(s, t, i) PROVE Rowed(s, t, i)'
    <2>1. CASE driver = "hybrid"
      <3>1. PICK r \in DOMAIN table : Suits(r.resource, Usage[<<s, t>>][i])
        BY <1>2, <2>1 DEF Rowed
      <3>2. PICK k \in DOMAIN table' : k.resource = r.resource
        BY <2>1, NothingDeleted
      <3> QED
        BY <1>1, <2>1, <3>1, <3>2 DEF Rowed
    <2>2. CASE driver # "hybrid"
      <3>1. DOMAIN table \subseteq DOMAIN table'
        BY <2>2, NothingDeleted
      <3> QED
        BY <1>1, <1>2, <2>2, <3>1 DEF Rowed
    <2> QED
      BY <2>1, <2>2
  <1> QED
    BY <1>2 DEF Secured, Indices, Used

(* How a worker comes to a step of a push: what it was at before.          *)
LEMMA ComingTo ==
  ASSUME TypeOK, JobsOK, NEW p \in Processors, Acts(p),
         NEW s \in Scopes, NEW t \in Periods, Doing(p, s, t, Begun)'
  PROVE  \/ /\ NextPeriod(p) /\ job'[p].pc = "save" /\ ~Used(s, t)
            /\ Scope(p) = s /\ t = mark[s] + 1
         \/ /\ job[p].scope = s /\ job[p].time = t
            /\ \/ /\ CheckCommit(p) /\ ~Stale(p) /\ job'[p].pc = "dispatch"
                  /\ job'[p].next = 1
               \/ /\ AppendRow(p) /\ Appends(p) /\ job'[p].pc = "dispatch"
                  /\ job'[p].next = job[p].next + 1
               \/ /\ AppendMeasurements(p) \/ CreateResource(p)
                  /\ \E resource \in Makeable : Keeps(p, resource)
                  /\ job'[p].pc = "dispatch" /\ job'[p].next = job[p].next + 1
               \/ /\ AppendMeasurements(p) /\ held' = held /\ table' = table
                  /\ job[p].pc = "dispatch" /\ job'[p].pc = "create"
                  /\ job'[p].next = job[p].next
               \/ /\ EndDispatch(p) /\ job[p].pc = "dispatch" /\ job'[p].pc = "commit"
                  /\ job'[p].next = job[p].next
               \/ /\ Commit(p) /\ job[p].pc = "commit" /\ job'[p].pc = "committed"
               \/ /\ PostCommit(p) /\ job[p].pc = "committed" /\ job'[p].pc = "save"
  <1>1. /\ job'[p].scope = s /\ job'[p].time = t
        /\ job'[p].pc \in {"dispatch", "create", "commit", "committed", "save"}
    BY DEF Doing, Begun, Open
  <1>2. ~Ends(p)
    BY <1>1 DEF Ends, TypeOK, Idle
  <1>3. ~(\E u \in Scopes : TakeScope(p, u))
    <2> SUFFICES ASSUME NEW u \in Scopes, TakeScope(p, u) PROVE FALSE
      OBVIOUS
    <2>1. job'[p].pc = "next"
      BY DEF TakeScope, TypeOK, Idle
    <2> QED
      BY <1>1, <2>1
  <1>4. Worker(p) /\ ~CannotKeep(p) /\ ~SaveState(p)
    <2>1. ~SaveState(p)
      BY <1>1, GoneTo DEF SaveState, Pushing
    <2> QED
      BY <1>2, <1>3, <2>1 DEF Acts, CannotKeep, PushFails, Crash
  <1>5. CASE NextPeriod(p)
    <2>1. job'[p] \in {Idle, Begin(p, mark[Scope(p)] + 1)}
      BY <1>5 DEF NextPeriod, TypeOK
    <2>2. /\ Begin(p, mark[Scope(p)] + 1).pc =
               IF Used(Scope(p), mark[Scope(p)] + 1) THEN "append" ELSE "save"
          /\ Begin(p, mark[Scope(p)] + 1).scope = Scope(p)
          /\ Begin(p, mark[Scope(p)] + 1).time = mark[Scope(p)] + 1
      BY DEF Begin, TypeOK, Jobs, Used, Scope
    <2> QED
      BY <1>1, <1>5, <2>1, <2>2 DEF Idle
  <1>6. CASE CheckCommit(p)
    BY <1>1, <1>6, GoneTo DEF CheckCommit, Pushing, JobsOK, JobOK, At
  <1>7. CASE AppendRow(p)
    <2>1. /\ job'[p].pc = "dispatch" /\ job'[p].scope = job[p].scope
          /\ job'[p].time = job[p].time /\ job'[p].next = job[p].next + 1
      BY <1>7, Advanced DEF AppendRow, At
    <2>2. driver # "hybrid"
      BY <1>7 DEF AppendRow
    <2> QED
      BY <1>1, <1>7, <2>1, <2>2 DEF AppendRow, Appends, At
  <1>8. CASE \/ CreateResource(p)
             \/ AppendMeasurements(p) /\ FindResource(Point(p)) # {}
    <2>1. PICK resource \in Makeable : Keeps(p, resource)
      BY <1>8, KeepingAPoint
    <2>2. /\ job'[p].pc = "dispatch" /\ job'[p].scope = job[p].scope
          /\ job'[p].time = job[p].time /\ job'[p].next = job[p].next + 1
      BY <2>1, Advanced DEF Keeps, Keep
    <2> QED
      BY <1>1, <1>8, <2>1, <2>2
  <1>9. CASE AppendMeasurements(p) /\ FindResource(Point(p)) = {}
    <2>1. Goto(p, "create") /\ held' = held /\ table' = table /\ job[p].pc = "dispatch"
      BY <1>9 DEF AppendMeasurements, Identified, At
    <2> QED
      BY <1>1, <1>9, <2>1, GoneTo DEF Pushing
  <1>10. CASE EndDispatch(p)
    BY <1>1, <1>10, GoneTo DEF EndDispatch, Pushing, At
  <1>11. CASE Commit(p)
    BY <1>1, <1>11, GoneTo DEF Commit, Pushing, At
  <1>12. CASE PostCommit(p)
    BY <1>1, <1>12, GoneTo DEF PostCommit, Pushing, At
  <1> QED
    BY <1>4, <1>5, <1>6, <1>7, <1>8, <1>9, <1>10, <1>11, <1>12 DEF Worker


LEMMA PeriodsAreIntegers == \A t \in Periods \cup {Unset} : t \in Int
  BY V1Assumption DEF Periods, Unset

LEMMA MissingInit == Init => NothingMissing
  <1> SUFFICES ASSUME Init PROVE NothingMissing
    OBVIOUS
  <1>1. \A p \in Processors : job[p].pc = "idle"
    BY DEF Init, Idle
  <1>2. \A t \in Periods : t \in Nat
    BY PeriodsAreNumbers
  <1> QED
    BY <1>1, <1>2 DEF Init, NothingMissing, Doing, Open, Unset

(* A scope counts as rated up to the period that is saved.                 *)
LEMMA MarkMoves ==
  ASSUME TypeOK, JobsOK, NEW p \in Processors, Acts(p), NEW s \in Scopes
  PROVE  \/ mark'[s] = mark[s]
         \/ /\ SaveState(p) /\ s = Scope(p) /\ job[p].pc = "save"
            /\ mark'[s] = job[p].time /\ job[p].time \in Periods
            /\ job[p].time = mark[s] + 1
  <1>1. CASE SaveState(p)
    <2>1. job[p].pc = "save" /\ mark' = [mark EXCEPT ![Scope(p)] = job[p].time]
      BY <1>1 DEF SaveState, At
    <2>2. /\ Scope(p) \in Scopes /\ job[p].time \in Periods
          /\ job[p].time = mark[Scope(p)] + 1
      BY <2>1, PushedPeriod DEF Pushing
    <2> QED
      BY <1>1, <2>1, <2>2 DEF TypeOK
  <1>2. CASE ~SaveState(p)
    BY <1>2
       DEF Acts, Worker, NextPeriod, CheckCommit, AppendRow, AppendMeasurements,
           CreateResource, CannotKeep, EndDispatch, Commit, PostCommit, PushFails,
           Crash, TakeScope
  <1> QED
    BY <1>1, <1>2

(* For the rows in memory of a period, a commit stores one of the same     *)
(* resource under the state of the scope.                                  *)
LEMMA HeldIsStored ==
  ASSUME TypeOK, JobsOK, RowsOK, NEW p \in Processors, NEW s \in Scopes,
         NEW t \in Periods, NEW i, Commits(p), Scope(p) = s,
         driver = "hybrid", Held(p, s, t, i)
  PROVE  \E k \in DOMAIN table' :
           Suits(k.resource, Usage[<<s, t>>][i]) /\ k.begin = state[s]
  <1>1. start[p][s] # Unset
    BY CommitsAPeriod DEF Commits
  <1>2. PICK x \in DOMAIN held[p][s] : x.of = t /\ x.point = i
    BY DEF Held
  <1>3. Suits(x.resource, Usage[<<s, t>>][i])
    BY <1>2 DEF RowsOK, OfItsResource, Suits
  <1>4. /\ Under(x, state[s]) \in Added(p)
        /\ Under(x, state[s]).resource = x.resource
        /\ Under(x, state[s]).begin = state[s]
    BY MeasuresFacts DEF Added
  <1>5. PICK k \in DOMAIN table' : k.resource = x.resource /\ k.begin = state[s]
    BY <1>1, <1>4, WrittenFacts DEF Commits
  <1> QED
    BY <1>3, <1>5

LEMMA MissingStep ==
  TypeOK /\ JobsOK /\ RowsOK /\ MemoryOK /\ NothingMissing /\ [Next]_vars => NothingMissing'
  <1> SUFFICES ASSUME TypeOK, JobsOK, RowsOK, MemoryOK, NothingMissing, [Next]_vars
               PROVE  NothingMissing'
    OBVIOUS
  <1>1. CASE Aside
    <2>1. /\ \A s \in Scopes : mark'[s] = mark[s] \/ mark'[s] < mark[s]
          /\ UNCHANGED <<driver, job, start, held, table>>
      BY <1>1 DEF Aside
    <2>2. \A s \in Scopes, t \in Periods : t <= mark'[s] => t <= mark[s]
      <3> SUFFICES ASSUME NEW s \in Scopes, NEW t \in Periods, t <= mark'[s]
                   PROVE  t <= mark[s]
        OBVIOUS
      <3>1. t \in Int /\ mark[s] \in Int /\ mark'[s] \in Int
        <4>1. mark'[s] \in Periods \cup {Unset} /\ mark[s] \in Periods \cup {Unset}
          BY TypeStep DEF TypeOK
        <4> QED
          BY <4>1, PeriodsAreIntegers
      <3> QED
        BY <2>1, <3>1
    <2> QED
      BY <2>1, <2>2 DEF NothingMissing, Secured, Indices, Used, Rowed, Held, Doing
  <1>2. ASSUME NEW p \in Processors, Acts(p) PROVE NothingMissing'
    <2>1. driver' = driver
      BY <1>2, OwnJobOnly
    <2>2. ASSUME NEW s \in Scopes, NEW t \in Periods, t <= mark'[s]
          PROVE  Secured(s, t)'
      <3>1. CASE mark'[s] = mark[s]
        <4>1. Secured(s, t)
          BY <2>2, <3>1 DEF NothingMissing
        <4> QED
          BY <1>2, <4>1, StillRowed
      <3>2. CASE /\ s = Scope(p) /\ job[p].pc = "save" /\ mark'[s] = job[p].time
                 /\ job[p].time \in Periods /\ job[p].time = mark[s] + 1
        <4>1. t \in Int /\ job[p].time \in Int /\ mark[s] \in Int
          <5>1. mark[s] \in Periods \cup {Unset}
            BY DEF TypeOK
          <5> QED
            BY <3>2, <5>1, PeriodsAreIntegers
        <4>2. t <= mark[s] \/ t = job[p].time
          BY <2>2, <3>2, <4>1
        <4>3. t = job[p].time => Doing(p, s, t, {"committed", "save"})
          BY <3>2 DEF Doing, Scope
        <4>4. Secured(s, t)
          BY <4>2, <4>3 DEF NothingMissing
        <4> QED
          BY <1>2, <4>4, StillRowed
      <3> QED
        BY <1>2, <3>1, <3>2, MarkMoves
    <2>3. ASSUME NEW q \in Processors, NEW s \in Scopes, NEW t \in Periods,
                 t < start'[q][s]
          PROVE  Secured(s, t)'
      <3>1. t \in Nat
        BY PeriodsAreNumbers
      <3>2. t < start[q][s] \/ t <= mark[s]
        <4>1. CASE start'[q][s] = start[q][s]
          BY <2>3, <4>1
        <4>2. CASE start'[q][s] = Unset
          BY <2>3, <3>1, <4>2 DEF Unset
        <4>3. CASE /\ q = p /\ CheckCommit(p) /\ s = Scope(p)
                   /\ start'[p][s] = IF start[p][s] = Unset THEN job[p].time
                                     ELSE start[p][s]
          <5>1. job[p].time = mark[s] + 1 /\ mark[s] \in Int
            BY <4>3, PushedPeriod DEF CheckCommit, At, Pushing, TypeOK, Unset, Periods
          <5> QED
            BY <2>3, <3>1, <4>3, <5>1
        <4> QED
          BY <1>2, <4>1, <4>2, <4>3, OwnMemoryOnly, StartMoves
      <3>3. Secured(s, t)
        BY <3>2 DEF NothingMissing
      <3> QED
        BY <1>2, <3>3, StillRowed
    <2>4. ASSUME NEW q \in Processors, q # p, NEW s \in Scopes, NEW t \in Periods
          PROVE  /\ Doing(q, s, t, Open)' =>
                      \A i \in Indices(s, t) : i < job'[q].next =>
                        IF driver = "hybrid" THEN Held(q, s, t, i)' ELSE Rowed(s, t, i)'
                 /\ Doing(q, s, t, {"committed", "save"})' => Secured(s, t)'
      <3>1. job'[q] = job[q] /\ held'[q] = held[q]
        BY <1>2, <2>4, OwnJobOnly, OwnMemoryOnly
      <3>2. \A i : Rowed(s, t, i) => Rowed(s, t, i)'
        BY <1>2, StillRowed
      <3>3. \A i : Held(q, s, t, i) => Held(q, s, t, i)'
        BY <3>1 DEF Held
      <3>4. Doing(q, s, t, Open)' => Doing(q, s, t, Open)
        BY <3>1 DEF Doing, Open
      <3>5. Doing(q, s, t, {"committed", "save"})' => Secured(s, t)'
        BY <1>2, <3>1, StillRowed DEF NothingMissing, Doing
      <3>6. Doing(q, s, t, Open)' =>
              \A i \in Indices(s, t) : i < job[q].next =>
                IF driver = "hybrid" THEN Held(q, s, t, i) ELSE Rowed(s, t, i)
        BY <3>4 DEF NothingMissing
      <3> QED
        BY <3>1, <3>2, <3>3, <3>5, <3>6
    <2>5. ASSUME NEW s \in Scopes, NEW t \in Periods, Doing(p, s, t, Open)',
                 NEW i \in Indices(s, t), i < job'[p].next
          PROVE  IF driver = "hybrid" THEN Held(p, s, t, i)' ELSE Rowed(s, t, i)'
      <3>1. Doing(p, s, t, Begun)'
        BY <2>5 DEF Doing, Begun
      <3>2. job'[p].pc \in Open /\ i \in Nat /\ i >= 1
        <4>1. Used(s, t)
          BY DEF Indices
        <4>2. Len(Usage[<<s, t>>]) \in Nat /\ i \in 1 .. Len(Usage[<<s, t>>])
          BY <4>1, UsageIsSequence
        <4> QED
          BY <2>5, <4>2 DEF Doing
      <3>3. \A k : Rowed(s, t, k) => Rowed(s, t, k)'
        BY <1>2, StillRowed
      <3>4. CASE CheckCommit(p) /\ job'[p].next = 1
        BY <2>5, <3>2, <3>4
      <3>5. ASSUME job[p].scope = s, job[p].time = t, job[p].pc \in Open
            PROVE  /\ job[p].next \in Nat
                   /\ i < job[p].next =>
                        IF driver = "hybrid" THEN Held(p, s, t, i) ELSE Rowed(s, t, i)
        <4>1. Doing(p, s, t, Open)
          BY <3>5 DEF Doing
        <4> QED
          BY <4>1 DEF NothingMissing, TypeOK, Jobs
      <3>6. ASSUME job[p].scope = s, job[p].time = t, Appends(p),
                   AppendRow(p), job'[p].next = job[p].next + 1
            PROVE  driver # "hybrid" /\ Rowed(s, t, i)'
        <4>1. driver # "hybrid" /\ job[p].pc = "dispatch"
          BY <3>6 DEF Appends
        <4>2. /\ job[p].next \in Nat
              /\ i < job[p].next => Rowed(s, t, i)
          BY <3>5, <3>6, <4>1 DEF Open
        <4>3. CASE i < job[p].next
          BY <3>3, <4>1, <4>2, <4>3
        <4>4. CASE i = job[p].next
          <5>1. t <= start[p][s] /\ t \in Int /\ start[p][s] \in Int
            <6>1. Scope(p) = s /\ start[p][s] \in Periods
              BY <3>6, <4>1, CommitsAPeriod DEF Scope
            <6>2. t <= start[p][s]
              BY <3>6, <4>1, <6>1 DEF JobsOK, JobOK, Open
            <6> QED
              BY <6>1, <6>2, PeriodsAreIntegers
          <5>2. CASE t < start[p][s]
            <6>1. Secured(s, t)
              BY <5>2 DEF NothingMissing
            <6> QED
              BY <3>3, <4>1, <6>1 DEF Secured
          <5>3. CASE t = start[p][s]
            <6> DEFINE row == Row(s, start[p][s], t, job[p].next)
            <6>1. /\ row \in DOMAIN table' /\ row.scope = s /\ row.of = t
                  /\ row.begin = start[p][s] /\ row.point = job[p].next
              BY <3>6, AppendedRow DEF Scope
            <6>2. Rowed(s, t, i)'
              <7> HIDE DEF row
              <7> QED
                BY <2>1, <4>1, <4>4, <5>3, <6>1 DEF Rowed
            <6> QED
              BY <4>1, <6>2
          <5> QED
            BY <5>1, <5>2, <5>3
        <4>5. i < job[p].next \/ i = job[p].next
          BY <2>5, <3>2, <3>6, <4>2
        <4> QED
          BY <4>3, <4>4, <4>5
      <3>7. ASSUME job[p].scope = s, job[p].time = t,
                   NEW resource \in Makeable, Keeps(p, resource),
                   job'[p].next = job[p].next + 1
            PROVE  driver = "hybrid" /\ Held(p, s, t, i)'
        <4> DEFINE row == Measure(s, t, job[p].next, resource)
        <4>1. driver = "hybrid" /\ job[p].pc \in Open
          BY <3>7 DEF Keeps, Open
        <4>2. /\ DOMAIN held'[p][s] = DOMAIN held[p][s] \cup {row}
              /\ row.of = t /\ row.point = job[p].next
          BY <3>7, KeptRow DEF Scope
        <4>3. job[p].next \in Nat /\ (i < job[p].next => Held(p, s, t, i))
          BY <3>5, <3>7, <4>1
        <4>4. CASE i < job[p].next
          BY <4>1, <4>2, <4>3, <4>4 DEF Held
        <4>5. CASE i = job[p].next
          BY <4>1, <4>2, <4>5 DEF Held
        <4> QED
          BY <2>5, <3>2, <3>7, <4>3, <4>4, <4>5
      <3>8. CASE /\ job[p].scope = s /\ job[p].time = t /\ job[p].pc = "dispatch"
                 /\ AppendMeasurements(p) \/ EndDispatch(p)
                 /\ held' = held /\ job'[p].next = job[p].next
        <4>1. i < job[p].next => IF driver = "hybrid" THEN Held(p, s, t, i) ELSE Rowed(s, t, i)
          BY <3>5, <3>8 DEF Open
        <4>2. Held(p, s, t, i) => Held(p, s, t, i)'
          BY <3>8 DEF Held
        <4> QED
          BY <2>5, <3>3, <3>8, <4>1, <4>2
      <3>9. EndDispatch(p) => held' = held
        BY DEF EndDispatch, memory
      <3> QED
        BY <1>2, <3>1, <3>2, <3>4, <3>6, <3>7, <3>8, <3>9, ComingTo DEF Open
    <2>6. ASSUME NEW s \in Scopes, NEW t \in Periods,
                 Doing(p, s, t, {"committed", "save"})'
          PROVE  Secured(s, t)'
      <3>1. Doing(p, s, t, Begun)' /\ job'[p].pc \in {"committed", "save"}
        BY <2>6 DEF Doing, Begun
      <3>2. CASE ~Used(s, t)
        BY <3>2 DEF Secured, Indices, Used
      <3>3. CASE /\ job[p].scope = s /\ job[p].time = t
                 /\ Commit(p) /\ job[p].pc = "commit"
        <4> SUFFICES ASSUME NEW i \in Indices(s, t) PROVE Rowed(s, t, i)'
          BY DEF Secured, Indices, Used
        <4>1. Doing(p, s, t, Open)
          BY <3>3 DEF Doing, Open
        <4>2. i < job[p].next
          BY <3>3, PushedPeriod DEF JobsOK, JobOK, Pushing, Scope
        <4>3. IF driver = "hybrid" THEN Held(p, s, t, i) ELSE Rowed(s, t, i)
          BY <4>1, <4>2 DEF NothingMissing
        <4>4. Commits(p)
          BY <3>3 DEF Commit, Commits
        <4>5. CASE driver = "hybrid"
          BY <2>1, <3>3, <4>3, <4>4, <4>5, HeldIsStored DEF Scope, Rowed
        <4>6. CASE driver # "hybrid"
          BY <1>2, <4>3, <4>6, StillRowed
        <4> QED
          BY <4>5, <4>6
      <3>4. CASE /\ job[p].scope = s /\ job[p].time = t /\ job[p].pc = "committed"
        <4>1. Secured(s, t)
          BY <3>4 DEF NothingMissing, Doing
        <4> QED
          BY <1>2, <4>1, StillRowed
      <3> QED
        BY <1>2, <3>1, <3>2, <3>3, <3>4, ComingTo
    <2>7. ASSUME NEW q \in Processors, NEW s \in Scopes, NEW t \in Periods
          PROVE  /\ Doing(q, s, t, Open)' =>
                      \A i \in Indices(s, t) : i < job'[q].next =>
                        IF driver = "hybrid" THEN Held(q, s, t, i)' ELSE Rowed(s, t, i)'
                 /\ Doing(q, s, t, {"committed", "save"})' => Secured(s, t)'
      BY <2>4, <2>5, <2>6
    <2> QED
      BY <2>1, <2>2, <2>3, <2>7 DEF NothingMissing, Indices, Used
  <1> QED
    BY <1>1, <1>2, StepKinds


(* The owner of a measure has used its resource.                           *)
LEMMA OwnersAreUsers ==
  ASSUME TypeOK, RowsOK, driver = "hybrid", NEW r \in DOMAIN table
  PROVE  Owner(r) \in UsersOf(r)
  <1> DEFINE point == Usage[<<r.scope, r.of>>][r.point]
  <1>1. /\ r.resource \in Makeable /\ r.resource.service = point.service
        /\ r.resource.id = Desc(point)["id"]
    BY DEF RowsOK, OfItsResource
  <1>2. PICK s \in Scopes : r.resource \in Made(s)
    BY <1>1 DEF Makeable
  <1>3. PICK t \in Periods :
          r.resource \in {MadeFor(s, Usage[<<s, t>>][i]) : i \in Named(s, t)}
    BY <1>2 DEF Made
  <1>4. PICK i \in Named(s, t) : r.resource = MadeFor(s, Usage[<<s, t>>][i])
    BY <1>3
  <1>5. /\ i \in DOMAIN Usage[<<s, t>>] /\ Usage[<<s, t>>] # None
    BY DEF Named, Indices, Used
  <1>6. /\ r.resource.project = s
        /\ r.resource.service = Usage[<<s, t>>][i].service
        /\ r.resource.id = Desc(Usage[<<s, t>>][i])["id"]
    BY <1>4 DEF MadeFor
  <1>7. s \in UsersOf(r)
    BY <1>1, <1>5, <1>6 DEF UsersOf, SameResource
  <1> QED
    BY <1>6, <1>7 DEF Owner

LEMMA LostInit == Init => LostInv
  BY TypeInit, RowsInit, MissingInit DEF LostInv

LEMMA LostStep == LostInv /\ [Next]_vars => LostInv'
  BY TypeStep, JobsStep, RowsStep, MemoryStep, MissingStep DEF LostInv

-----------------------------------------------------------------------------
(***************************************************************************)
(* What was reached.                                                       *)
(***************************************************************************)
LEMMA AgainGrows ==
  ASSUME TypeOK, [Next]_vars
  PROVE  again \subseteq again'
  <1>1. ASSUME NEW p \in Processors, Acts(p) PROVE again \subseteq again'
    BY <1>1, OwnJobOnly DEF Ends
  <1> QED
    BY <1>1, StepKinds DEF Aside

(* How a worker leaves a step of a push: to the next one, or it fails, or  *)
(* the period counts as rated.                                             *)
LEMMA Leaving ==
  ASSUME TypeOK, JobsOK, NEW p \in Processors, Acts(p),
         NEW s \in Scopes, NEW t \in Periods, Doing(p, s, t, Begun)
  PROVE  \/ <<s, t>> \in again'
         \/ /\ job'[p].scope = s /\ job'[p].time = t
            /\ \/ job[p].pc \in Open /\ job'[p].pc \in Open
               \/ Commit(p) /\ job[p].pc = "commit" /\ job'[p].pc = "committed"
               \/ PostCommit(p) /\ job[p].pc = "committed" /\ job'[p].pc = "save"
         \/ SaveState(p) /\ job[p].pc = "save" /\ mark'[s] = t
  <1>1. /\ job[p].scope = s /\ job[p].time = t
        /\ job[p].pc \in {"dispatch", "create", "commit", "committed", "save"}
    BY DEF Doing, Begun, Open
  <1>2. CASE Ends(p)
    <2>1. again' = again \cup {<<s, t>>} \/ again' = again
      BY <1>1, OwnJobOnly DEF Ends, Scope
    <2> QED
      BY <1>1, <1>2 DEF Ends, Scope
  <1>3. CASE \E u \in Scopes : TakeScope(p, u)
    BY <1>1, <1>3 DEF TakeScope, At
  <1>4. CASE NextPeriod(p) \/ CheckCommit(p)
    BY <1>1, <1>4 DEF NextPeriod, CheckCommit, At
  <1>5. CASE AppendRow(p)
    <2>1. /\ job'[p].pc = "dispatch" /\ job'[p].scope = job[p].scope
          /\ job'[p].time = job[p].time /\ job[p].pc = "dispatch"
      BY <1>5, Advanced DEF AppendRow, At
    <2> QED
      BY <1>1, <2>1 DEF Open
  <1>6. CASE \/ CreateResource(p)
             \/ AppendMeasurements(p) /\ FindResource(Point(p)) # {}
    <2>1. PICK resource \in Makeable : Keeps(p, resource)
      BY <1>6, KeepingAPoint
    <2>2. /\ job'[p].pc = "dispatch" /\ job'[p].scope = job[p].scope
          /\ job'[p].time = job[p].time /\ job[p].pc \in Open
      BY <2>1, Advanced DEF Keeps, Keep, Open
    <2> QED
      BY <1>1, <2>2 DEF Open
  <1>7. CASE AppendMeasurements(p) /\ FindResource(Point(p)) = {}
    <2>1. Goto(p, "create") /\ job[p].pc = "dispatch"
      BY <1>7 DEF AppendMeasurements, Identified, At
    <2> QED
      BY <1>1, <2>1, GoneTo DEF Pushing, Open
  <1>8. CASE EndDispatch(p)
    BY <1>1, <1>8, GoneTo DEF EndDispatch, Pushing, At, Open
  <1>9. CASE Commit(p)
    BY <1>1, <1>9, GoneTo DEF Commit, Pushing, At
  <1>10. CASE PostCommit(p)
    BY <1>1, <1>10, GoneTo DEF PostCommit, Pushing, At
  <1>11. CASE SaveState(p)
    BY <1>1, <1>11, MarkMoves DEF SaveState, At, Scope, TypeOK
  <1>12. CASE CannotKeep(p) \/ PushFails(p) \/ Crash(p)
    BY <1>2, <1>12 DEF CannotKeep, PushFails, Crash
  <1> QED
    BY <1>3, <1>4, <1>5, <1>6, <1>7, <1>8, <1>9, <1>10, <1>11, <1>12 DEF Acts, Worker

LEMMA StillReached ==
  ASSUME TypeOK, JobsOK, [Next]_vars, NEW s \in Scopes, NEW t \in Periods,
         Reached(s, t)
  PROVE  Reached(s, t)'
  <1>1. again \subseteq again'
    BY AgainGrows
  <1>2. t \in Int /\ mark[s] \in Int
    BY PeriodsAreIntegers DEF TypeOK
  <1>3. CASE <<s, t>> \in again
    BY <1>1, <1>3 DEF Reached, Settled
  <1>4. CASE t <= mark[s]
    <2>1. CASE Aside
      <3>1. CASE mark'[s] = mark[s]
        BY <1>4, <3>1 DEF Reached, Settled
      <3>2. CASE /\ mark'[s] \in Periods /\ mark'[s] < mark[s]
                 /\ \A u \in (mark'[s] + 1) .. mark[s] : <<s, u>> \in again'
        <4>1. mark'[s] \in Int
          BY <3>2, PeriodsAreIntegers
        <4>2. t <= mark'[s] \/ t \in (mark'[s] + 1) .. mark[s]
          BY <1>2, <1>4, <4>1
        <4> QED
          BY <3>2, <4>2 DEF Reached, Settled
      <3> QED
        BY <2>1, <3>1, <3>2 DEF Aside
    <2>2. ASSUME NEW p \in Processors, Acts(p) PROVE Reached(s, t)'
      <3>1. t <= mark'[s]
        BY <1>2, <1>4, <2>2, MarkMoves
      <3> QED
        BY <3>1 DEF Reached, Settled
    <2> QED
      BY <2>1, <2>2, StepKinds
  <1>5. ASSUME NEW q \in Processors, Doing(q, s, t, Begun) PROVE Reached(s, t)'
    <2>1. CASE Aside
      BY <1>5, <2>1 DEF Aside, Reached, Doing
    <2>2. ASSUME NEW p \in Processors, p # q, Acts(p) PROVE Reached(s, t)'
      BY <1>5, <2>2, OwnJobOnly DEF Reached, Doing
    <2>3. CASE Acts(q)
      <3>1. CASE <<s, t>> \in again'
        BY <3>1 DEF Reached, Settled
      <3>2. CASE /\ job'[q].scope = s /\ job'[q].time = t
                 /\ job'[q].pc \in Open \cup {"committed", "save"}
        BY <3>2 DEF Reached, Doing, Begun
      <3>3. CASE mark'[s] = t
        BY <1>2, <3>3 DEF Reached, Settled
      <3> QED
        BY <1>5, <2>3, <3>1, <3>2, <3>3, Leaving
    <2> QED
      BY <2>1, <2>2, <2>3, StepKinds
  <1> QED
    BY <1>3, <1>4, <1>5 DEF Reached, Settled

(* What a worker has yet to begin was not reached, but for what is pushed  *)
(* again.                                                                  *)
LEMMA NotReached ==
  ASSUME TypeOK, JobsOK, NEW p \in Processors,
         job[p].pc \in {"append", "flush", "flushed"},
         <<Scope(p), job[p].time>> \notin again
  PROVE  ~Reached(Scope(p), job[p].time)
  <1> DEFINE s == Scope(p)
             t == job[p].time
  <1>1. s \in Scopes /\ t \in Periods /\ t = mark[s] + 1 /\ lock[s] = p
    BY PushedPeriod DEF Pushing
  <1>2. mark[s] \in Int
    BY <1>1, PeriodsAreIntegers DEF TypeOK
  <1>3. ~(t <= mark[s])
    BY <1>1, <1>2
  <1>4. ASSUME NEW q \in Processors, Doing(q, s, t, Begun) PROVE FALSE
    <2>1. job[q].scope = s /\ job[q].pc # "idle" /\ q # p
      BY <1>4 DEF Doing, Begun, Open
    <2>2. lock[s] = q
      BY <2>1 DEF JobsOK, JobOK, At, Scope
    <2> QED
      BY <1>1, <2>1, <2>2
  <1> QED
    BY <1>3, <1>4 DEF Reached, Settled


LEMMA HistoryInit == Init => HistoryOK
  <1> SUFFICES ASSUME Init PROVE HistoryOK
    OBVIOUS
  <1>1. \A p \in Processors : job[p].pc = "idle"
    BY DEF Init, Idle
  <1>2. \A p \in Processors, s \in Scopes : DOMAIN held[p][s] = {}
    BY EmptyBagIsEmpty DEF Init
  <1>3. DOMAIN table = {}
    BY EmptyBagIsEmpty DEF Init
  <1>4. \A t \in Periods : t \in Nat
    BY PeriodsAreNumbers
  <1>5. StartsReached
    BY DEF Init, StartsReached
  <1>6. MemoryReached
    BY <1>2 DEF MemoryReached
  <1>7. TableReached
    BY <1>3 DEF TableReached
  <1>8. StateReached
    BY <1>1, <1>4 DEF Init, StateReached, Doing, Unset
  <1> QED
    BY <1>5, <1>6, <1>7, <1>8 DEF HistoryOK

LEMMA StartsStep ==
  TypeOK /\ JobsOK /\ StartsReached /\ [Next]_vars => StartsReached'
  <1> SUFFICES ASSUME TypeOK, JobsOK, StartsReached, [Next]_vars,
                      NEW q \in Processors, NEW s \in Scopes, start'[q][s] # Unset
               PROVE  /\ Used(s, start'[q][s])
                      /\ \/ <<s, start'[q][s]>> \in again'
                         \/ Doing(q, s, start[q][s], Open \cup {"committed"})'
                      /\ \A t \in Periods : t <= start'[q][s] => Reached(s, t)'
    BY DEF StartsReached, Used
  <1>1. again \subseteq again'
    BY AgainGrows
  <1>2. \A t \in Periods : Reached(s, t) => Reached(s, t)'
    BY StillReached
  <1>3. CASE /\ start'[q][s] = start[q][s]
             /\ \/ <<s, start[q][s]>> \in again'
                \/ Doing(q, s, start[q][s], Open \cup {"committed"})'
    <2>1. /\ Used(s, start[q][s])
          /\ \A t \in Periods : t <= start[q][s] => Reached(s, t)
      BY <1>3 DEF StartsReached
    <2> QED
      BY <1>2, <1>3, <2>1 DEF Doing
  <1>4. CASE Aside
    BY <1>1, <1>3, <1>4 DEF Aside, StartsReached, Doing
  <1>5. ASSUME NEW p \in Processors, p # q, Acts(p)
        PROVE  start'[q] = start[q] /\ job'[q] = job[q]
    BY <1>5, OwnJobOnly, OwnMemoryOnly
  <1>6. CASE start'[q] = start[q] /\ job'[q] = job[q]
    BY <1>1, <1>3, <1>6 DEF StartsReached, Doing
  <1>7. CASE Acts(q)
    <2>1. CASE start'[q][s] = start[q][s]
      <3>1. start[q][s] \in Periods
        BY <2>1 DEF TypeOK
      <3>2. CASE <<s, start[q][s]>> \in again
        BY <1>1, <1>3, <2>1, <3>2
      <3>3. CASE Doing(q, s, start[q][s], Open \cup {"committed"})
        <4>1. Doing(q, s, start[q][s], Begun) /\ job[q].pc \in Open \cup {"committed"}
          BY <3>3 DEF Doing, Begun
        <4>2. ~PostCommit(q)
          <5> SUFFICES ASSUME PostCommit(q) PROVE FALSE
            OBVIOUS
          <5>1. start'[q][s] = Unset
            BY <4>1 DEF PostCommit, ClearUsageInfo, TypeOK, Doing, Scope
          <5> QED
            BY <5>1
        <4>3. job[q].pc # "save"
          BY <4>1 DEF Open
        <4>4. \/ <<s, start[q][s]>> \in again'
              \/ /\ job'[q].scope = s /\ job'[q].time = start[q][s]
                 /\ job'[q].pc \in Open \cup {"committed"}
          BY <1>7, <3>1, <4>1, <4>2, <4>3, Leaving
        <4> QED
          BY <1>3, <2>1, <4>4 DEF Doing
      <3> QED
        BY <2>1, <3>2, <3>3 DEF StartsReached
    <2>2. CASE /\ CheckCommit(q) /\ ~Stale(q) /\ s = Scope(q)
               /\ start'[q][s] = job[q].time
      <3> DEFINE t == job[q].time
      <3>1. /\ t \in Periods /\ t = mark[s] + 1 /\ Used(s, t)
        BY <2>2, PushedPeriod DEF CheckCommit, At, Pushing
      <3>2. job'[q].pc = "dispatch" /\ job'[q].scope = s /\ job'[q].time = t
        BY <2>2, GoneTo DEF CheckCommit, Pushing, Scope
      <3>3. mark'[s] = mark[s]
        BY <2>2 DEF CheckCommit
      <3>4. mark[s] \in Int
        BY PeriodsAreIntegers DEF TypeOK
      <3>5. ASSUME NEW u \in Periods, u <= t PROVE Reached(s, u)'
        <4>1. u \in Int
          BY PeriodsAreIntegers
        <4>2. CASE u <= mark[s]
          BY <3>3, <4>2 DEF Reached, Settled
        <4>3. CASE u = t
          BY <3>2, <4>3 DEF Reached, Doing, Begun, Open
        <4> QED
          BY <3>1, <3>4, <3>5, <4>1, <4>2, <4>3
      <3>6. /\ job'[q].scope = s /\ job'[q].time = start'[q][s]
            /\ job'[q].pc \in Open \cup {"committed"}
        BY <2>2, <3>2 DEF Open
      <3> QED
        BY <2>2, <3>1, <3>5, <3>6 DEF Doing
    <2> QED
      BY <1>7, <2>1, <2>2, StartMoves
  <1> QED
    BY <1>4, <1>5, <1>6, <1>7, StepKinds


LEMMA MemoryReachedStep ==
  TypeOK /\ JobsOK /\ MemoryReached /\ [Next]_vars => MemoryReached'
  <1> SUFFICES ASSUME TypeOK, JobsOK, MemoryReached, [Next]_vars,
                      NEW q \in Processors, NEW s \in Scopes,
                      NEW r \in DOMAIN held'[q][s]
               PROVE  <<s, r.of>> \in again' \/ Doing(q, s, r.of, Open)'
    BY DEF MemoryReached
  <1>1. again \subseteq again'
    BY AgainGrows
  <1>2. CASE r \in DOMAIN held[q][s] /\ job'[q] = job[q]
    BY <1>1, <1>2 DEF MemoryReached, Doing
  <1>3. CASE Aside
    BY <1>2, <1>3 DEF Aside
  <1>4. ASSUME NEW p \in Processors, p # q, Acts(p)
        PROVE  held'[q] = held[q] /\ job'[q] = job[q]
    BY <1>4, OwnJobOnly, OwnMemoryOnly
  <1>5. ASSUME Acts(q), r \in DOMAIN held[q][s], ~(Commit(q) /\ s = Scope(q))
        PROVE  <<s, r.of>> \in again' \/ Doing(q, s, r.of, Open)'
    <2>1. CASE <<s, r.of>> \in again
      BY <1>1, <2>1
    <2>2. CASE Doing(q, s, r.of, Open)
      <3>1. /\ Doing(q, s, r.of, Begun) /\ job[q].pc \in Open
            /\ s = Scope(q) /\ r.of \in Periods
        BY <2>2, PushedPeriod DEF Doing, Begun, Open, Scope, Pushing
      <3>2. job[q].pc # "save" /\ job[q].pc # "committed"
        BY <3>1 DEF Open
      <3>3. \/ <<s, r.of>> \in again'
            \/ job'[q].scope = s /\ job'[q].time = r.of /\ job'[q].pc \in Open
        BY <1>5, <3>1, <3>2, Leaving
      <3> QED
        BY <3>3 DEF Doing
    <2> QED
      BY <1>5, <2>1, <2>2 DEF MemoryReached
  <1>6. CASE Acts(q)
    <2>1. CASE held' = held /\ ~Commit(q)
      BY <1>5, <1>6, <2>1
    <2>2. ASSUME NEW resource \in Makeable, Keeps(q, resource)
          PROVE  <<s, r.of>> \in again' \/ Doing(q, s, r.of, Open)'
      <3> DEFINE row == Measure(Scope(q), job[q].time, job[q].next, resource)
      <3>1. ~Commit(q)
        BY <2>2 DEF Keeps, Commit, At
      <3>2. CASE r \in DOMAIN held[q][s]
        BY <1>5, <1>6, <3>1, <3>2
      <3>3. CASE r \notin DOMAIN held[q][s]
        <4>1. s = Scope(q) /\ r = row /\ row.of = job[q].time
          BY <2>2, <3>3, KeptRow
        <4>2. /\ job'[q].scope = s /\ job'[q].time = r.of
              /\ job'[q].pc \in Open
          BY <2>2, <4>1, Advanced DEF Keeps, Keep, Scope, Open
        <4> QED
          BY <4>2 DEF Doing
      <3> QED
        BY <3>2, <3>3
    <2>3. CASE Commit(q)
      <3>1. held' = [held EXCEPT ![q][Scope(q)] = EmptyBag]
        BY <2>3 DEF Commit
      <3>2. s # Scope(q) /\ r \in DOMAIN held[q][s]
        <4>1. CASE s = Scope(q)
          BY <3>1, <4>1, EmptyBagIsEmpty DEF TypeOK
        <4>2. CASE s # Scope(q)
          BY <3>1, <4>2 DEF TypeOK
        <4> QED
          BY <4>1, <4>2
      <3> QED
        BY <1>5, <1>6, <3>2
    <2>4. CASE held' = [held EXCEPT ![q] = [u \in Scopes |-> EmptyBag]]
      BY <2>4, EmptyBagIsEmpty DEF TypeOK
    <2> QED
      BY <1>6, <2>1, <2>2, <2>3, <2>4, MemoryGrows
  <1> QED
    BY <1>2, <1>3, <1>4, <1>6, StepKinds

LEMMA TableReachedStep ==
  TypeOK /\ JobsOK /\ RowsOK /\ MemoryOK /\ StartsReached /\ MemoryReached /\ TableReached /\ [Next]_vars => TableReached'
  <1> SUFFICES ASSUME TypeOK, JobsOK, RowsOK, MemoryOK, StartsReached, MemoryReached, TableReached,
                      [Next]_vars, NEW r \in DOMAIN table'
               PROVE  Reached(r.scope, r.of)'
    BY DEF TableReached
  <1>1. r.scope \in Scopes /\ r.of \in Periods
    <2>1. table' \in BagsOfRows
      BY TypeStep DEF TypeOK
    <2> QED
      BY <2>1, BagsAreBags DEF Rows
  <1>2. Reached(r.scope, r.of) => Reached(r.scope, r.of)'
    BY <1>1, StillReached
  <1>3. CASE r \in DOMAIN table
    BY <1>2, <1>3 DEF TableReached
  <1>4. ASSUME r \notin DOMAIN table, NEW p \in Processors, Acts(p)
        PROVE  Reached(r.scope, r.of)
    <2>1. ASSUME Appends(p) PROVE Reached(r.scope, r.of)
      <3>1. r.scope = job[p].scope /\ r.of = job[p].time /\ job[p].pc = "dispatch"
        BY <1>4, <2>1, AppendedRow DEF Appends, Scope
      <3> QED
        BY <3>1 DEF Reached, Doing, Begun, Open
    <2>2. ASSUME Commits(p) PROVE Reached(r.scope, r.of)
      <3> DEFINE s == Scope(p)
      <3>1. s \in Scopes /\ start[p][s] # Unset /\ start[p][s] \in Periods
        BY <2>2, PushedPeriod, CommitsAPeriod DEF Commits, Pushing
      <3>2. r \in Added(p)
        BY <1>4, <2>2, <3>1, WrittenFacts DEF Commits
      <3>3. ASSUME driver = "hybrid" PROVE Reached(r.scope, r.of)
        <4>1. PICK x \in DOMAIN held[p][s] : r.scope = x.scope /\ r.of = x.of
          BY <3>1, <3>2, <3>3, MeasuresFacts DEF Added
        <4>2. x.scope = s
          BY <3>1, <4>1 DEF RowsOK
        <4>3. <<s, x.of>> \in again \/ Doing(p, s, x.of, Open)
          BY <3>1, <4>1 DEF MemoryReached
        <4> QED
          BY <4>1, <4>2, <4>3 DEF Reached, Settled, Doing, Begun
      <3>4. ASSUME driver # "hybrid" PROVE Reached(r.scope, r.of)
        <4>1. r = Row(s, start[p][s], start[p][s], NoData)
          BY <3>1, <3>2, <3>4, NoDataFacts DEF Added
        <4>2. r.scope = s /\ r.of = start[p][s]
          BY <4>1, RowFields
        <4>3. start[p][s] <= start[p][s]
          BY <3>1, PeriodsAreIntegers
        <4> QED
          BY <3>1, <4>2, <4>3 DEF StartsReached
      <3> QED
        BY <3>3, <3>4
    <2> QED
      BY <1>4, <2>1, <2>2, TableGrows
  <1>5. CASE Aside
    BY <1>3, <1>5 DEF Aside
  <1> QED
    BY <1>2, <1>3, <1>4, <1>5, StepKinds

LEMMA StateTyped ==
  ASSUME TypeOK, JobsOK, RowsOK, MemoryOK, [Next]_vars
  PROVE  \A s \in Scopes : state'[s] \in Periods \cup {Unset}
  BY TypeStep DEF TypeOK

LEMMA StateReachedStep ==
  TypeOK /\ JobsOK /\ RowsOK /\ MemoryOK /\ StartsReached /\ StateReached /\ [Next]_vars => StateReached'
  <1> SUFFICES ASSUME TypeOK, JobsOK, RowsOK, MemoryOK, StartsReached, StateReached, [Next]_vars,
                      driver' = "hybrid", NEW s \in Scopes
               PROVE  /\ state'[s] # Unset => Used(s, state'[s])
                      /\ \A t \in Periods : t <= state'[s] => Reached(s, t)'
                      /\ \A t \in Periods : Used(s, t) =>
                           /\ t <= mark'[s] => t <= state'[s]
                           /\ \A p \in Processors : Doing(p, s, t, {"save"})' => t <= state'[s]
    BY DEF StateReached, Used
  <1>1. driver = "hybrid"
    BY StepKinds, OwnJobOnly DEF Aside
  <1>2. \A t \in Periods : Reached(s, t) => Reached(s, t)'
    BY StillReached
  <1>3. /\ state[s] # Unset => Used(s, state[s])
        /\ \A t \in Periods : t <= state[s] => Reached(s, t)
        /\ \A t \in Periods : Used(s, t) =>
             /\ t <= mark[s] => t <= state[s]
             /\ \A p \in Processors : Doing(p, s, t, {"save"}) => t <= state[s]
    BY <1>1 DEF StateReached
  <1>4. CASE Aside
    <2>1. /\ state' = state /\ job' = job
          /\ mark'[s] = mark[s] \/ (mark'[s] < mark[s] /\ mark'[s] \in Periods)
      BY <1>4 DEF Aside
    <2>2. ASSUME NEW t \in Periods, t <= mark'[s] PROVE t <= mark[s]
      <3>1. /\ t \in Int /\ mark[s] \in Int
            /\ mark'[s] \in Periods => mark'[s] \in Int
        BY PeriodsAreIntegers DEF TypeOK
      <3> QED
        BY <2>1, <2>2, <3>1
    <2> QED
      BY <1>2, <1>3, <2>1, <2>2 DEF Doing
  <1>5. ASSUME NEW p \in Processors, Acts(p)
        PROVE  /\ state'[s] # Unset => Used(s, state'[s])
               /\ \A t \in Periods : t <= state'[s] => Reached(s, t)'
               /\ \A t \in Periods : Used(s, t) =>
                    /\ t <= mark'[s] => t <= state'[s]
                    /\ \A q \in Processors : Doing(q, s, t, {"save"})' => t <= state'[s]
    <2>1. /\ state'[s] \in Int /\ state[s] \in Int /\ mark[s] \in Int
      <3>1. state'[s] \in Periods \cup {Unset}
        BY StateTyped
      <3> QED
        BY <3>1, PeriodsAreIntegers DEF TypeOK
    <2>2. /\ state[s] <= state'[s]
          /\ state'[s] # Unset => Used(s, state'[s])
          /\ \A t \in Periods : t <= state'[s] => Reached(s, t)'
      <3>1. CASE state'[s] = state[s]
        BY <1>2, <1>3, <2>1, <3>1
      <3>2. CASE /\ CheckCommit(p) /\ s = Scope(p) /\ state[s] = Unset
                 /\ state'[s] = start'[p][s] /\ start'[p][s] # Unset
        <4>1. StartsReached'
          BY StartsStep
        <4>2. /\ Used(s, state'[s])
              /\ \A t \in Periods : t <= state'[s] => Reached(s, t)'
          BY <3>2, <4>1 DEF StartsReached, Used
        <4>3. state'[s] \in Nat
          BY <3>2, StateTyped, PeriodsAreNumbers
        <4> QED
          BY <3>2, <4>2, <4>3 DEF Unset
      <3>3. CASE /\ s = Scope(p) /\ start[p][s] > state[s]
                 /\ state'[s] = start[p][s] /\ start[p][s] # Unset
        <4>1. /\ Used(s, start[p][s])
              /\ \A t \in Periods : t <= start[p][s] => Reached(s, t)
          BY <3>3 DEF StartsReached
        <4> QED
          BY <1>2, <2>1, <3>3, <4>1
      <3> QED
        BY <1>5, <3>1, <3>2, <3>3, StateMoves
    <2>3. ASSUME NEW t \in Periods, Used(s, t), t <= mark'[s]
          PROVE  t <= state'[s]
      <3>1. t \in Int
        BY PeriodsAreIntegers
      <3>2. CASE mark'[s] = mark[s]
        BY <1>3, <2>1, <2>2, <2>3, <3>1, <3>2
      <3>3. CASE /\ s = Scope(p) /\ job[p].pc = "save" /\ mark'[s] = job[p].time
                 /\ job[p].time \in Periods /\ job[p].time = mark[s] + 1
        <4>1. t <= mark[s] \/ t = job[p].time
          BY <2>1, <2>3, <3>1, <3>3
        <4>2. t = job[p].time => Doing(p, s, t, {"save"})
          BY <3>3 DEF Doing, Scope
        <4>3. t <= state[s]
          BY <1>3, <2>3, <4>1, <4>2
        <4> QED
          BY <2>1, <2>2, <3>1, <4>3
      <3> QED
        BY <1>5, <3>2, <3>3, MarkMoves
    <2>4. ASSUME NEW t \in Periods, Used(s, t), NEW q \in Processors,
                 Doing(q, s, t, {"save"})'
          PROVE  t <= state'[s]
      <3>1. t \in Int
        BY PeriodsAreIntegers
      <3>2. CASE q # p
        <4>1. job'[q] = job[q]
          BY <1>5, <3>2, OwnJobOnly
        <4>2. t <= state[s]
          BY <1>3, <2>4, <4>1 DEF Doing
        <4> QED
          BY <2>1, <2>2, <3>1, <4>2
      <3>3. CASE q = p
        <4>1. Doing(p, s, t, Begun)' /\ job'[p].pc = "save"
          BY <2>4, <3>3 DEF Doing, Begun
        <4>2. /\ job[p].scope = s /\ job[p].time = t
              /\ PostCommit(p) /\ job[p].pc = "committed"
          BY <1>5, <2>4, <4>1, ComingTo
        <4>3. t <= start[p][s] /\ start[p][s] \in Int
          <5>1. Scope(p) = s /\ start[p][s] \in Periods
            BY <4>2, CommitsAPeriod DEF Scope
          <5>2. t <= start[p][s]
            BY <4>2, <5>1 DEF JobsOK, JobOK, Open
          <5> QED
            BY <5>1, <5>2, PeriodsAreIntegers
        <4>4. state'[s] >= start[p][s]
          <5>1. state' = IF start[p][s] > state[s]
                         THEN [state EXCEPT ![s] = start[p][s]] ELSE state
            BY <1>1, <4>2 DEF PostCommit, Scope
          <5> QED
            BY <2>1, <4>3, <5>1 DEF TypeOK
        <4> QED
          BY <2>1, <3>1, <4>3, <4>4
      <3> QED
        BY <3>2, <3>3
    <2> QED
      BY <2>2, <2>3, <2>4
  <1> QED
    BY <1>4, <1>5, StepKinds


-----------------------------------------------------------------------------
(***************************************************************************)
(* A period that is pushed for the first time.                             *)
(***************************************************************************)
LEMMA HistoryStep ==
  TypeOK /\ JobsOK /\ RowsOK /\ MemoryOK /\ HistoryOK /\ [Next]_vars => HistoryOK'
  BY StartsStep, MemoryReachedStep, TableReachedStep, StateReachedStep DEF HistoryOK

(* The periods before it that have points.                                 *)
LEMMA BeginsFacts ==
  ASSUME NEW s \in Scopes, NEW t \in Periods, driver = "hybrid",
         NEW v \in Periods \cup {Unset}, v # Unset => Used(s, v),
         \A u \in Periods : Used(s, u) /\ u < t => u <= v, v < t
  PROVE  (IF v = Unset THEN t ELSE v) \in Begins(s, t)
  <1> DEFINE before == {u \in Periods : u < t /\ Usage[<<s, u>>] # None}
  <1>1. Begins(s, t) = IF before = {} THEN {t} ELSE {Max(before)}
    BY DEF Begins
  <1>2. \A u \in Periods : u \in Nat
    BY PeriodsAreNumbers
  <1>3. CASE v = Unset
    <2>1. before = {}
      <3> SUFFICES ASSUME NEW u \in Periods, u < t, Used(s, u) PROVE FALSE
        BY DEF Used
      <3>1. u <= v /\ u \in Nat /\ v = -1
        BY <1>2, <1>3 DEF Unset
      <3> QED
        BY <3>1
    <2> QED
      BY <1>1, <1>3, <2>1
  <1>4. CASE v # Unset
    <2>1. v \in before /\ \A u \in before : u <= v
      BY <1>4 DEF Used
    <2>2. \A x \in before : (\A u \in before : x >= u) => x = v
      BY <1>2, <2>1
    <2>3. Max(before) = v
      <3>1. Max(before) = CHOOSE x \in before : \A u \in before : x >= u
        BY DEF Max
      <3>2. \E x \in before : \A u \in before : x >= u
        BY <1>2, <2>1
      <3> HIDE DEF before
      <3> QED
        BY <2>2, <3>1, <3>2
    <2> QED
      BY <1>1, <1>4, <2>1, <2>3
  <1> QED
    BY <1>3, <1>4

(* Another worker adds nothing of the period.                              *)
LEMMA RowsOfOthers ==
  ASSUME TypeOK, JobsOK, RowsOK, NEW p \in Processors, Acts(p),
         NEW s \in Scopes, Scope(p) # s \/ job[p].pc = "idle"
  PROVE  \A r \in DOMAIN table' : r.scope = s =>
           r \in DOMAIN table /\ table'[r] \in {table[r], 1}
  <1>1. CASE table' = table
    BY <1>1
  <1>2. CASE Appends(p)
    BY <1>2, AppendedRow DEF Appends
  <1>3. CASE Commits(p)
    <2> DEFINE u == Scope(p)
    <2>1. u \in Scopes /\ start[p][u] # Unset
      BY <1>3, PushedPeriod, CommitsAPeriod DEF Commits, Pushing
    <2>2. \A r \in Added(p) : r.scope = u
      <3>1. CASE driver = "hybrid"
        BY <2>1, <3>1, MeasuresFacts DEF Added, RowsOK
      <3>2. CASE driver # "hybrid"
        <4>1. Row(u, start[p][u], start[p][u], NoData).scope = u
          BY RowFields
        <4> QED
          BY <2>1, <3>2, <4>1, NoDataFacts DEF Added
      <3> QED
        BY <3>1, <3>2
    <2>3. u # s
      BY <1>3 DEF Commits
    <2> QED
      BY <1>3, <2>1, <2>2, <2>3, WrittenFacts DEF Commits
  <1> QED
    BY <1>1, <1>2, <1>3, TableGrows

(* Nor does a worker write but rows of the period that it pushes, or of    *)
(* its start in memory.                                                    *)
LEMMA PushBegins ==
  ASSUME TypeOK, JobsOK, RowsOK, MemoryOK, HistoryOK, NEW p \in Processors,
         NEW s \in Scopes, NEW t \in Periods,
         CheckCommit(p), ~Stale(p), Scope(p) = s, job[p].time = t,
         <<s, t>> \notin again
  PROVE  /\ start[p][s] = Unset /\ start'[p][s] = t
         /\ \A r \in DOMAIN table : ~(r.scope = s /\ r.of = t)
         /\ \A r \in DOMAIN held[p][s] : r.of # t
         /\ driver = "hybrid" => state'[s] \in Begins(s, t)
         /\ s \notin hasData[p]
  <1>1. /\ t = mark[s] + 1 /\ Used(s, t) /\ job[p].pc = "append"
    BY PushedPeriod DEF CheckCommit, At, Pushing
  <1>2. ~Reached(s, t)
    BY <1>1, NotReached
  <1>3. /\ t \in Int /\ mark[s] \in Int /\ start[p][s] \in Int /\ state[s] \in Int
    BY PeriodsAreIntegers DEF TypeOK
  <1>4. start[p][s] = Unset
    <2> SUFFICES ASSUME start[p][s] # Unset PROVE FALSE
      OBVIOUS
    <2>1. t <= start[p][s]
      BY <1>3 DEF Stale, UsageEnd
    <2> QED
      BY <1>2, <2>1 DEF HistoryOK, StartsReached
  <1>5. start'[p][s] = t
    BY <1>4 DEF CheckCommit, UpdateStart, TypeOK
  <1>6. \A r \in DOMAIN table : ~(r.scope = s /\ r.of = t)
    BY <1>2 DEF HistoryOK, TableReached
  <1>7. \A r \in DOMAIN held[p][s] : r.of # t
    BY <1>1, <1>2 DEF HistoryOK, MemoryReached, Doing, Open
  <1>8. s \notin hasData[p]
    BY <1>4 DEF MemoryOK
  <1>9. ASSUME driver = "hybrid" PROVE state'[s] \in Begins(s, t)
    <2>1. /\ state[s] # Unset => Used(s, state[s])
          /\ \A u \in Periods : u <= state[s] => Reached(s, u)
          /\ \A u \in Periods : Used(s, u) /\ u <= mark[s] => u <= state[s]
      BY <1>9 DEF HistoryOK, StateReached
    <2>2. state[s] < t
      BY <1>2, <1>3, <2>1
    <2>3. \A u \in Periods : Used(s, u) /\ u < t => u <= state[s]
      BY <1>1, <1>3, <2>1, PeriodsAreIntegers
    <2>4. state[s] \in Periods \cup {Unset}
      BY DEF TypeOK
    <2>5. (IF state[s] = Unset THEN t ELSE state[s]) \in Begins(s, t)
      BY <1>9, <2>1, <2>2, <2>3, <2>4, BeginsFacts
    <2>6. state'[s] = IF state[s] = Unset THEN t ELSE state[s]
      BY <1>4, <1>9 DEF CheckCommit, TypeOK
    <2> QED
      BY <2>5, <2>6
  <1> QED
    BY <1>4, <1>5, <1>6, <1>7, <1>8, <1>9


LEMMA PushStep ==
  TypeOK /\ JobsOK /\ RowsOK /\ MemoryOK /\ HistoryOK /\ PushOK /\ [Next]_vars => PushOK'
  <1> SUFFICES ASSUME TypeOK, JobsOK, RowsOK, MemoryOK, HistoryOK, PushOK, [Next]_vars,
                      NEW q \in Processors, NEW s \in Scopes, NEW t \in Periods,
                      Doing(q, s, t, Open)', <<s, t>> \notin again'
               PROVE  /\ start'[q][s] = t
                      /\ IF driver' = "hybrid" THEN KeptOnce(q, s, t)'
                                               ELSE WrittenOnce(q, s, t)'
    BY DEF PushOK
  <1>1. <<s, t>> \notin again
    BY AgainGrows
  <1>2. driver' = driver
    BY StepKinds, OwnJobOnly DEF Aside
  <1>3. Begins(s, t)' = Begins(s, t)
    BY <1>2 DEF Begins
  <1>4. ASSUME job'[q] = job[q], start'[q] = start[q], held'[q] = held[q],
               hasData'[q] = hasData[q], state'[s] = state[s],
               \A r \in DOMAIN table' : r.scope = s => r \in DOMAIN table
        PROVE  /\ start'[q][s] = t
               /\ IF driver' = "hybrid" THEN KeptOnce(q, s, t)'
                                        ELSE WrittenOnce(q, s, t)'
    <2>1. Doing(q, s, t, Open)
      BY <1>4 DEF Doing, Open
    <2>2. /\ start[q][s] = t
          /\ IF driver = "hybrid" THEN KeptOnce(q, s, t) ELSE WrittenOnce(q, s, t)
      BY <1>1, <2>1 DEF PushOK
    <2>3. CASE driver = "hybrid"
      <3>1. KeptOnce(q, s, t)
        BY <2>2, <2>3
      <3>2. KeptOnce(q, s, t)'
        BY <1>3, <1>4, <3>1 DEF KeptOnce
      <3> QED
        BY <1>2, <1>4, <2>2, <2>3, <3>2
    <2>4. CASE driver # "hybrid"
      <3>1. WrittenOnce(q, s, t)
        BY <2>2, <2>4
      <3>2. WrittenOnce(q, s, t)'
        BY <1>4, <3>1 DEF WrittenOnce
      <3> QED
        BY <1>2, <1>4, <2>2, <2>4, <3>2
    <2> QED
      BY <2>3, <2>4
  <1>5. CASE Aside
    BY <1>4, <1>5 DEF Aside
  <1>6. ASSUME NEW p \in Processors, p # q, Acts(p)
        PROVE  /\ start'[q][s] = t
               /\ IF driver' = "hybrid" THEN KeptOnce(q, s, t)'
                                        ELSE WrittenOnce(q, s, t)'
    <2>1. /\ job'[q] = job[q] /\ start'[q] = start[q] /\ held'[q] = held[q]
          /\ hasData'[q] = hasData[q]
      BY <1>6, OwnJobOnly, OwnMemoryOnly
    <2>2. job[q].scope = s /\ job[q].pc # "idle"
      BY <2>1 DEF Doing, Open
    <2>3. lock[s] = q
      BY <2>2 DEF JobsOK, JobOK, At, Scope
    <2>4. Scope(p) # s \/ job[p].pc = "idle"
      BY <1>6, <2>3 DEF JobsOK, JobOK, At
    <2>5. state'[s] = state[s]
      BY <1>6, <2>3, OwnScopeOnly
    <2>6. \A r \in DOMAIN table' : r.scope = s => r \in DOMAIN table
      BY <1>6, <2>4, RowsOfOthers
    <2> QED
      BY <1>4, <2>1, <2>5, <2>6
  <1>7. ASSUME Acts(q)
        PROVE  /\ start'[q][s] = t
               /\ IF driver' = "hybrid" THEN KeptOnce(q, s, t)'
                                        ELSE WrittenOnce(q, s, t)'
    <2>1. Doing(q, s, t, Begun)' /\ job'[q].pc \in {"dispatch", "create", "commit"}
      BY DEF Doing, Begun, Open
    <2>2. ASSUME job[q].scope = s, job[q].time = t, job[q].pc \in Open
          PROVE  /\ start[q][s] = t /\ Scope(q) = s
                 /\ driver = "hybrid" => KeptOnce(q, s, t)
                 /\ driver # "hybrid" => WrittenOnce(q, s, t)
      BY <1>1, <2>2 DEF PushOK, Doing, Scope
    <2>3. ASSUME job[q].scope = s, job[q].time = t, CheckCommit(q), ~Stale(q),
                 job'[q].next = 1
          PROVE  /\ start'[q][s] = t
                 /\ IF driver' = "hybrid" THEN KeptOnce(q, s, t)'
                                          ELSE WrittenOnce(q, s, t)'
      <3>1. /\ start'[q][s] = t
            /\ \A r \in DOMAIN table : ~(r.scope = s /\ r.of = t)
            /\ \A r \in DOMAIN held[q][s] : r.of # t
            /\ driver = "hybrid" => state'[s] \in Begins(s, t)
            /\ s \notin hasData[q]
        BY <1>1, <2>3, PushBegins DEF Scope
      <3>2. table' = table /\ held' = held /\ hasData' = hasData
        BY <2>3 DEF CheckCommit
      <3>3. driver = "hybrid" => KeptOnce(q, s, t)'
        BY <1>3, <3>1, <3>2 DEF KeptOnce
      <3>4. WrittenOnce(q, s, t)'
        BY <2>3, <3>1, <3>2 DEF WrittenOnce
      <3> QED
        BY <1>2, <3>1, <3>3, <3>4
    <2>4. ASSUME job[q].scope = s, job[q].time = t, AppendRow(q), Appends(q),
                 job'[q].next = job[q].next + 1
          PROVE  start'[q][s] = t /\ driver' # "hybrid" /\ WrittenOnce(q, s, t)'
      <3> DEFINE row == Row(s, start[q][s], t, job[q].next)
      <3>1. /\ driver # "hybrid" /\ job[q].pc = "dispatch"
            /\ start' = start /\ hasData' = [hasData EXCEPT ![q] = @ \cup {s}]
        BY <2>4 DEF Appends, AppendRow, Scope
      <3>2. start[q][s] = t /\ WrittenOnce(q, s, t)
        BY <2>2, <2>4, <3>1 DEF Open
      <3>3. /\ DOMAIN table' = DOMAIN table \cup {row} /\ row.point = job[q].next
            /\ row.of = t
            /\ job[q].next \in Indices(s, t) /\ Used(s, t)
        BY <2>4, AppendedRow DEF Scope
      <3>4. job[q].next \in Nat /\ job[q].next >= 1
        <4>1. Len(Usage[<<s, t>>]) \in Nat /\ job[q].next \in 1 .. Len(Usage[<<s, t>>])
          BY <3>3, UsageIsSequence
        <4> QED
          BY <4>1
      <3>5. s \in hasData'[q]
        BY <3>1 DEF TypeOK
      <3>6. \A r \in DOMAIN table : r.scope = s /\ r.of = t =>
              r.point # NoData /\ r.point < job'[q].next
        <4>1. \A r \in DOMAIN table : r.point \in Nat
          BY BagsAreBags DEF TypeOK, Rows
        <4> QED
          BY <2>4, <3>2, <3>4, <4>1 DEF WrittenOnce
      <3>7. row.point # NoData /\ row.point < job'[q].next
        BY <2>4, <3>3, <3>4 DEF NoData
      <3>8. WrittenOnce(q, s, t)'
        <4> HIDE DEF row
        <4> QED
          BY <2>4, <3>3, <3>4, <3>5, <3>6, <3>7 DEF WrittenOnce
      <3> QED
        BY <1>2, <3>1, <3>2, <3>8
    <2>5. ASSUME job[q].scope = s, job[q].time = t,
                 AppendMeasurements(q) \/ CreateResource(q),
                 NEW resource \in Makeable, Keeps(q, resource),
                 job'[q].next = job[q].next + 1
          PROVE  start'[q][s] = t /\ driver' = "hybrid" /\ KeptOnce(q, s, t)'
      <3> DEFINE row == Measure(s, t, job[q].next, resource)
      <3>1. driver = "hybrid" /\ job[q].pc \in Open
        BY <2>5 DEF Keeps, Open
      <3>2. start' = start /\ state' = state /\ table' = table
        BY <2>5 DEF AppendMeasurements, CreateResource
      <3>3. start[q][s] = t /\ KeptOnce(q, s, t)
        BY <2>2, <2>5, <3>1
      <3>4. /\ row \in Rows /\ row.of = t /\ row.point = job[q].next
            /\ held'[q][s] = Insert(held[q][s], row) /\ job[q].next \in Nat
        BY <2>5, KeptRow DEF Scope
      <3>5. held[q][s] \in BagsOfRows
        BY DEF TypeOK
      <3> HIDE DEF row
      <3>6. \A r \in DOMAIN held[q][s] : r.point \in Nat
        BY <3>5, BagsAreBags DEF Rows
      <3>7. row \notin DOMAIN held[q][s]
        BY <3>3, <3>4 DEF KeptOnce
      <3>8. /\ DOMAIN held'[q][s] = DOMAIN held[q][s] \cup {row}
            /\ \A r \in DOMAIN held[q][s] : held'[q][s][r] = held[q][s][r]
            /\ held'[q][s][row] = 1
        BY <3>4, <3>5, <3>7, AddedRow
      <3>9. ASSUME NEW x \in DOMAIN held'[q][s], NEW y \in DOMAIN held'[q][s],
                   x.of = t, y.of = t
            PROVE  /\ held'[q][s][x] = 1 /\ x.point < job'[q].next
                   /\ x.point = y.point => x = y
        <4>1. CASE x \in DOMAIN held[q][s] /\ y \in DOMAIN held[q][s]
          BY <2>5, <3>3, <3>4, <3>6, <3>8, <3>9, <4>1 DEF KeptOnce
        <4>2. CASE x = row /\ y = row
          BY <2>5, <3>4, <3>8, <4>2
        <4>3. CASE x = row /\ y \in DOMAIN held[q][s]
          <5>1. y.point < job[q].next /\ y.point \in Nat
            BY <3>3, <3>6, <3>9, <4>3 DEF KeptOnce
          <5> QED
            BY <2>5, <3>4, <3>8, <4>3, <5>1
        <4>4. CASE x \in DOMAIN held[q][s] /\ y = row
          <5>1. x.point < job[q].next /\ x.point \in Nat /\ held[q][s][x] = 1
            BY <3>3, <3>6, <3>9, <4>4 DEF KeptOnce
          <5> QED
            BY <2>5, <3>4, <3>8, <4>4, <5>1
        <4> QED
          BY <3>8, <4>1, <4>2, <4>3, <4>4
      <3>10. KeptOnce(q, s, t)'
        BY <1>3, <3>2, <3>3, <3>9 DEF KeptOnce
      <3> QED
        BY <1>2, <3>1, <3>2, <3>3, <3>10
    <2>6. ASSUME job[q].scope = s, job[q].time = t, job[q].pc = "dispatch",
                 held' = held, table' = table, job'[q].next = job[q].next,
                 (AppendMeasurements(q) /\ hasData' = hasData) \/ EndDispatch(q)
          PROVE  /\ start'[q][s] = t
                 /\ IF driver' = "hybrid" THEN KeptOnce(q, s, t)'
                                          ELSE WrittenOnce(q, s, t)'
      <3>1. start' = start /\ state' = state /\ hasData' = hasData
        BY <2>6 DEF AppendMeasurements, EndDispatch, memory
      <3>2. /\ start[q][s] = t
            /\ driver = "hybrid" => KeptOnce(q, s, t)
            /\ driver # "hybrid" => WrittenOnce(q, s, t)
        BY <2>2, <2>6 DEF Open
      <3>3. KeptOnce(q, s, t) => KeptOnce(q, s, t)'
        BY <1>3, <2>6, <3>1 DEF KeptOnce
      <3>4. WrittenOnce(q, s, t) => WrittenOnce(q, s, t)'
        BY <2>6, <3>1 DEF WrittenOnce
      <3> QED
        BY <1>2, <3>1, <3>2, <3>3, <3>4
    <2>7. EndDispatch(q) => held' = held /\ table' = table
      BY DEF EndDispatch, memory
    <2>8. AppendMeasurements(q) /\ job'[q].pc = "create" => hasData' = hasData
      <3> SUFFICES ASSUME AppendMeasurements(q), job'[q].pc = "create"
                   PROVE  hasData' = hasData
        OBVIOUS
      <3>1. CASE FindResource(Point(q)) = {}
        BY <3>1 DEF AppendMeasurements
      <3>2. ASSUME NEW resource \in Makeable, Keep(q, resource) PROVE FALSE
        BY <3>2, Advanced DEF Keep
      <3>3. CASE FindResource(Point(q)) # {}
        BY <3>2, <3>3, KeepingAPoint DEF Keeps
      <3> QED
        BY <3>1, <3>3
    <2> QED
      BY <1>7, <2>1, <2>3, <2>4, <2>5, <2>6, <2>7, <2>8, ComingTo
  <1> QED
    BY <1>5, <1>6, <1>7, StepKinds


(* One row more of a period.                                               *)
LEMMA TidyWith ==
  ASSUME TypeOK, NEW s \in Scopes, NEW t \in Periods, Tidy(s, t),
         Begins(s, t)' = Begins(s, t),
         \A r \in DOMAIN table : r.scope = s /\ r.of = t =>
           r \in DOMAIN table' /\ table'[r] = table[r],
         NEW new, \A r \in DOMAIN table' : r.scope = s /\ r.of = t =>
                    r \in DOMAIN table \/ r = new,
         table'[new] = 1, new.begin \in Begins(s, t),
         new.point = NoData => Indices(s, t) = {},
         \A r \in DOMAIN table : r.scope = s /\ r.of = t => r.point # new.point
  PROVE  Tidy(s, t)'
  BY DEF Tidy, Indices, Used

LEMMA TidyStep ==
  TypeOK /\ JobsOK /\ RowsOK /\ MemoryOK /\ HistoryOK /\ PushOK /\ TableTidy /\ [Next]_vars => TableTidy'
  <1> SUFFICES ASSUME TypeOK, JobsOK, RowsOK, MemoryOK, HistoryOK, PushOK, TableTidy,
                      [Next]_vars, NEW s \in Scopes, NEW t \in Periods,
                      <<s, t>> \notin again'
               PROVE  Tidy(s, t)'
    BY DEF TableTidy
  <1>1. <<s, t>> \notin again
    BY AgainGrows
  <1>2. driver' = driver
    BY StepKinds, OwnJobOnly DEF Aside
  <1>3. Begins(s, t)' = Begins(s, t)
    BY <1>2 DEF Begins
  <1>4. Tidy(s, t)
    BY <1>1 DEF TableTidy
  <1>5. ASSUME \A r \in DOMAIN table' : r.scope = s /\ r.of = t =>
                 r \in DOMAIN table /\ table'[r] \in {table[r], 1}
        PROVE  Tidy(s, t)'
    BY <1>3, <1>4, <1>5 DEF Tidy, Indices, Used
  <1>6. CASE Aside
    BY <1>5, <1>6 DEF Aside
  <1>7. ASSUME NEW p \in Processors, Acts(p) PROVE Tidy(s, t)'
    <2>1. CASE Scope(p) # s \/ job[p].pc = "idle"
      BY <1>5, <1>7, <2>1, RowsOfOthers
    <2>2. CASE table' = table
      BY <1>5, <2>2
    <2>3. ASSUME Scope(p) = s, Appends(p) PROVE Tidy(s, t)'
      <3> DEFINE row == Row(s, start[p][s], job[p].time, job[p].next)
      <3>1. /\ driver # "hybrid" /\ job[p].pc = "dispatch"
            /\ job[p].next \in Indices(s, job[p].time) /\ job[p].time \in Periods
            /\ row.scope = s /\ row.begin = start[p][s] /\ row.of = job[p].time
            /\ row.point = job[p].next
            /\ DOMAIN table' = DOMAIN table \cup {row}
            /\ \A r \in DOMAIN table : r # row => table'[r] = table[r]
            /\ row \notin DOMAIN table => table'[row] = 1
        BY <2>3, AppendedRow DEF Appends
      <3> HIDE DEF row
      <3>2. CASE t # job[p].time
        BY <1>5, <3>1, <3>2
      <3>3. CASE t = job[p].time
        <4>1. Doing(p, s, t, Open)
          BY <2>3, <3>1, <3>3 DEF Doing, Open, Scope
        <4>2. start[p][s] = t /\ WrittenOnce(p, s, t)
          BY <1>1, <3>1, <4>1 DEF PushOK
        <4>3. \A r \in DOMAIN table : r.scope = s /\ r.of = t => r.point < job[p].next
          BY <4>2 DEF WrittenOnce
        <4>4. job[p].next \in Nat /\ job[p].next >= 1
          <5>1. Used(s, t)
            BY <3>1, <3>3 DEF Indices
          <5>2. /\ Len(Usage[<<s, t>>]) \in Nat
                /\ job[p].next \in 1 .. Len(Usage[<<s, t>>])
            BY <3>1, <3>3, <5>1, UsageIsSequence
          <5> QED
            BY <5>2
        <4>5. \A r \in DOMAIN table : r.scope = s /\ r.of = t => r.point # row.point
          <5>1. \A r \in DOMAIN table : r.point \in Nat
            BY BagsAreBags DEF TypeOK, Rows
          <5> QED
            BY <3>1, <4>3, <4>4, <5>1
        <4>6. row \notin DOMAIN table
          BY <3>1, <3>3, <4>5
        <4>7. row.begin \in Begins(s, t)
          BY <3>1, <4>2 DEF Begins, TypeOK, Drivers
        <4>8. row.point # NoData
          BY <3>1, <4>4 DEF NoData
        <4>9. \A r \in DOMAIN table : r.scope = s /\ r.of = t =>
                r \in DOMAIN table' /\ table'[r] = table[r]
          BY <3>1, <4>6
        <4>10. \A r \in DOMAIN table' : r.scope = s /\ r.of = t =>
                 r \in DOMAIN table \/ r = row
          BY <3>1
        <4>11. table'[row] = 1
          BY <3>1, <4>6
        <4> QED
          BY <1>3, <1>4, <4>5, <4>7, <4>8, <4>9, <4>10, <4>11, TidyWith
      <3> QED
        BY <3>2, <3>3
    <2>4. ASSUME Scope(p) = s, Commits(p) PROVE Tidy(s, t)'
      <3>1. /\ start[p][s] # Unset /\ start[p][s] \in Periods
            /\ job[p].pc \in {"commit", "flush"}
        BY <2>4, CommitsAPeriod DEF Commits
      <3>2. /\ DOMAIN table' \subseteq DOMAIN table \cup Added(p)
            /\ driver = "hybrid" => \A r \in DOMAIN table' : table'[r] = 1
            /\ driver # "hybrid" =>
                 /\ DOMAIN table' = DOMAIN table \cup Added(p)
                 /\ \A r \in DOMAIN table : r \notin Added(p) => table'[r] = table[r]
                 /\ \A r \in Added(p) : r \notin DOMAIN table => table'[r] = 1
        BY <2>4, <3>1, WrittenFacts DEF Commits
      <3>3. CASE \A r \in Added(p) : ~(r.scope = s /\ r.of = t)
        BY <1>5, <3>2, <3>3
      <3>4. ASSUME driver = "hybrid", NEW new \in Added(p), new.scope = s, new.of = t
            PROVE  Tidy(s, t)'
        <4> DEFINE h == held[p][s]
        <4>1. \A r \in Added(p) :
                /\ r.begin = state[s]
                /\ \E x \in DOMAIN h :
                     /\ r = Under(x, state[s])
                     /\ r.scope = x.scope /\ r.of = x.of /\ r.point = x.point
          BY <2>4, <3>4, MeasuresFacts DEF Added
        <4>2. PICK z \in DOMAIN h : z.of = t
          BY <3>4, <4>1
        <4>3. Doing(p, s, t, Open)
          BY <1>1, <4>2 DEF HistoryOK, MemoryReached
        <4>4. KeptOnce(p, s, t)
          BY <1>1, <3>4, <4>3 DEF PushOK
        <4>5. /\ state[s] \in Begins(s, t)
              /\ \A r \in DOMAIN table : ~(r.scope = s /\ r.of = t)
              /\ \A x, y \in DOMAIN h : x.of = t /\ y.of = t =>
                   h[x] = 1 /\ (x.point = y.point => x = y)
          BY <4>4 DEF KeptOnce
        <4> HIDE DEF h
        <4>6. ASSUME NEW r \in DOMAIN table', r.scope = s, r.of = t
              PROVE  /\ table'[r] = 1 /\ r.begin \in Begins(s, t) /\ r.point # NoData
                     /\ \A q \in DOMAIN table' :
                          q.scope = s /\ q.of = t /\ q.point = r.point => q = r
          <5>1. r \in Added(p) /\ r \notin DOMAIN table
            BY <3>2, <4>5, <4>6
          <5>2. PICK x \in DOMAIN h : r = Under(x, state[s]) /\ x.of = t /\ x.point = r.point
            BY <4>1, <4>6, <5>1
          <5>3. table'[r] = 1 /\ r.begin \in Begins(s, t)
            BY <3>2, <3>4, <4>1, <4>5, <5>1
          <5>4. r.point # NoData
            <6>1. OfAPoint(x) /\ x.scope = s
              BY <5>2 DEF RowsOK, h
            <6>2. x.point \in DOMAIN Usage[<<s, t>>] /\ Used(s, t)
              BY <5>2, <6>1 DEF OfAPoint
            <6>3. x.point \in 1 .. Len(Usage[<<s, t>>]) /\ Len(Usage[<<s, t>>]) \in Nat
              BY <6>2, UsageIsSequence
            <6> QED
              BY <5>2, <6>3 DEF NoData
          <5>5. ASSUME NEW q \in DOMAIN table', q.scope = s, q.of = t, q.point = r.point
                PROVE  q = r
            <6>1. q \in Added(p)
              BY <3>2, <4>5, <5>5
            <6>2. PICK y \in DOMAIN h : q = Under(y, state[s]) /\ y.of = t /\ y.point = q.point
              BY <4>1, <5>5, <6>1
            <6> QED
              BY <4>5, <5>2, <5>5, <6>2
          <5> QED
            BY <5>3, <5>4, <5>5
        <4> QED
          BY <1>3, <4>6 DEF Tidy, Indices, Used
      <3>5. ASSUME driver # "hybrid", NEW new \in Added(p), new.scope = s, new.of = t
            PROVE  Tidy(s, t)'
        <4>1. /\ Added(p) = {new} /\ s \notin hasData[p]
              /\ new = Row(s, start[p][s], start[p][s], NoData)
          BY <2>4, <3>1, <3>5, NoDataFacts DEF Added
        <4>2. new.begin = start[p][s] /\ new.of = start[p][s] /\ new.point = NoData
          BY <4>1, RowFields
        <4>3. start[p][s] = t
          BY <3>5, <4>2
        <4>4. Doing(p, s, t, Open) /\ job[p].pc = "commit"
          BY <1>1, <3>1, <4>3 DEF HistoryOK, StartsReached, Doing, Open
        <4>5. WrittenOnce(p, s, t)
          BY <1>1, <3>5, <4>4 DEF PushOK
        <4>6. Indices(s, t) = {}
          <5>1. ~(job[p].next > 1)
            BY <4>1, <4>5 DEF WrittenOnce
          <5>2. /\ job[p].next = Len(Points(p)) + 1 /\ Len(Points(p)) \in Nat
                /\ Indices(s, t) = 1 .. Len(Points(p))
            <6>1. job[p].next = Len(Points(p)) + 1
              BY <4>4 DEF JobsOK, JobOK
            <6>2. s = Scope(p) /\ t = job[p].time
              BY <2>4, <4>4 DEF Doing
            <6> QED
              BY <4>4, <6>1, <6>2, PushedPeriod DEF Pushing
          <5> QED
            BY <5>1, <5>2
        <4>7. \A r \in DOMAIN table : r.scope = s /\ r.of = t => r.point # new.point
          BY <4>2, <4>5 DEF WrittenOnce
        <4>8. new \notin DOMAIN table
          BY <3>5, <4>7
        <4>9. new.begin \in Begins(s, t)
          BY <3>5, <4>2, <4>3 DEF Begins, TypeOK, Drivers
        <4>10. table'[new] = 1
          BY <3>2, <3>5, <4>1, <4>8
        <4>11. \A r \in DOMAIN table : r.scope = s /\ r.of = t =>
                 r \in DOMAIN table' /\ table'[r] = table[r]
          BY <3>2, <3>5, <4>1, <4>8
        <4>12. \A r \in DOMAIN table' : r.scope = s /\ r.of = t =>
                 r \in DOMAIN table \/ r = new
          BY <3>2, <4>1
        <4> QED
          BY <1>3, <1>4, <4>6, <4>7, <4>9, <4>10, <4>11, <4>12, TidyWith
      <3> QED
        BY <3>3, <3>4, <3>5
    <2> QED
      BY <1>7, <2>1, <2>2, <2>3, <2>4, TableGrows
  <1> QED
    BY <1>6, <1>7, StepKinds

-----------------------------------------------------------------------------
(***************************************************************************)
(* What counts as rated has its place.                                     *)
(***************************************************************************)
LEMMA StillPlaced ==
  ASSUME TypeOK, JobsOK, RowsOK, NEW p \in Processors, Acts(p),
         driver = "hybrid", NEW s \in Scopes, NEW t \in Periods, Placed(s, t)
  PROVE  Placed(s, t)'
  <1>1. driver' = driver
    BY OwnJobOnly
  <1>2. Begins(s, t)' = Begins(s, t) /\ Indices(s, t)' = Indices(s, t)
    BY <1>1 DEF Begins, Indices, Used
  <1>3. ASSUME NEW i \in Indices(s, t)
        PROVE  \E k \in DOMAIN table' :
                 Suits(k.resource, Usage[<<s, t>>][i]) /\ k.begin \in Begins(s, t)
    <2>1. PICK r \in DOMAIN table :
            Suits(r.resource, Usage[<<s, t>>][i]) /\ r.begin \in Begins(s, t)
      BY DEF Placed
    <2>2. PICK k \in DOMAIN table' : k.resource = r.resource /\ k.begin = r.begin
      BY NothingDeleted
    <2> QED
      BY <2>1, <2>2
  <1> QED
    BY <1>2, <1>3 DEF Placed

(* The points of a period that is pushed for the first time are committed  *)
(* under its time.                                                         *)
LEMMA CommittedInPlace ==
  ASSUME LostInv, PushOK, driver = "hybrid", NEW p \in Processors, Commit(p),
         Acts(p), NEW s \in Scopes, NEW t \in Periods, <<s, t>> \notin again,
         job[p].scope = s, job[p].time = t, job[p].pc = "commit"
  PROVE  Placed(s, t)'
  <1>1. TypeOK /\ JobsOK /\ RowsOK /\ NothingMissing
    BY DEF LostInv
  <1>2. Doing(p, s, t, Open) /\ Commits(p) /\ Scope(p) = s
    BY DEF Doing, Open, Commit, Commits, Scope
  <1>3. state[s] \in Begins(s, t)
    BY <1>2 DEF PushOK, KeptOnce
  <1>4. ASSUME NEW i \in Indices(s, t)
        PROVE  \E k \in DOMAIN table' :
                 Suits(k.resource, Usage[<<s, t>>][i]) /\ k.begin = state[s]
    <2>1. i < job[p].next
      BY <1>1, <1>2, PushedPeriod DEF JobsOK, JobOK, Pushing, Scope
    <2>2. Held(p, s, t, i)
      BY <1>1, <1>2, <2>1 DEF NothingMissing
    <2> QED
      BY <1>1, <1>2, <2>2, HeldIsStored
  <1>5. driver' = driver
    BY <1>1, OwnJobOnly
  <1>6. Begins(s, t)' = Begins(s, t) /\ Indices(s, t)' = Indices(s, t)
    BY <1>5 DEF Begins, Indices, Used
  <1> QED
    BY <1>3, <1>4, <1>6 DEF Placed

LEMMA TimelyStep ==
  LostInv /\ PushOK /\ Timely /\ [Next]_vars => Timely'
  <1> SUFFICES ASSUME LostInv, PushOK, Timely, [Next]_vars, driver' = "hybrid",
                      NEW s \in Scopes, NEW t \in Periods, <<s, t>> \notin again'
               PROVE  /\ t <= mark'[s] => Placed(s, t)'
                      /\ \A p \in Processors :
                           Doing(p, s, t, {"committed", "save"})' => Placed(s, t)'
    BY DEF Timely
  <1>1. TypeOK /\ JobsOK /\ RowsOK
    BY DEF LostInv
  <1>2. driver = "hybrid"
    BY <1>1, StepKinds, OwnJobOnly DEF Aside
  <1>3. /\ t <= mark[s] => Placed(s, t)
        /\ \A p \in Processors :
             Doing(p, s, t, {"committed", "save"}) => Placed(s, t)
    BY <1>1, <1>2, AgainGrows DEF Timely
  <1>4. t \in Int /\ mark[s] \in Int /\ mark'[s] \in Int
    <2>1. mark'[s] \in Periods \cup {Unset} /\ mark[s] \in Periods \cup {Unset}
      BY <1>1, TypeStep DEF LostInv, TypeOK
    <2> QED
      BY <2>1, PeriodsAreIntegers
  <1>5. CASE Aside
    <2>1. Placed(s, t) => Placed(s, t)'
      BY <1>5 DEF Aside, Placed, Begins, Indices, Used
    <2>2. t <= mark'[s] => t <= mark[s]
      BY <1>4, <1>5 DEF Aside
    <2>3. \A p \in Processors : Doing(p, s, t, {"committed", "save"})'
                                  => Doing(p, s, t, {"committed", "save"})
      BY <1>5 DEF Aside, Doing
    <2> QED
      BY <1>3, <2>1, <2>2, <2>3
  <1>6. ASSUME NEW p \in Processors, Acts(p)
        PROVE  /\ t <= mark'[s] => Placed(s, t)'
               /\ \A q \in Processors :
                    Doing(q, s, t, {"committed", "save"})' => Placed(s, t)'
    <2>1. Placed(s, t) => Placed(s, t)'
      BY <1>1, <1>2, <1>6, StillPlaced
    <2>2. ASSUME t <= mark'[s] PROVE Placed(s, t)'
      <3>1. CASE mark'[s] = mark[s]
        BY <1>3, <2>1, <2>2, <3>1
      <3>2. CASE /\ s = Scope(p) /\ job[p].pc = "save" /\ mark'[s] = job[p].time
                 /\ job[p].time \in Periods /\ job[p].time = mark[s] + 1
        <4>1. t <= mark[s] \/ t = job[p].time
          BY <1>4, <2>2, <3>2
        <4>2. t = job[p].time => Doing(p, s, t, {"committed", "save"})
          BY <3>2 DEF Doing, Scope
        <4> QED
          BY <1>3, <2>1, <4>1, <4>2
      <3> QED
        BY <1>1, <1>6, <3>1, <3>2, MarkMoves
    <2>3. ASSUME NEW q \in Processors, q # p, Doing(q, s, t, {"committed", "save"})'
          PROVE  Placed(s, t)'
      <3>1. Doing(q, s, t, {"committed", "save"})
        BY <1>1, <1>6, <2>3, OwnJobOnly DEF Doing
      <3> QED
        BY <1>3, <2>1, <3>1
    <2>4. ASSUME Doing(p, s, t, {"committed", "save"})' PROVE Placed(s, t)'
      <3>1. Doing(p, s, t, Begun)' /\ job'[p].pc \in {"committed", "save"}
        BY <2>4 DEF Doing, Begun
      <3>2. CASE ~Used(s, t)
        BY <3>2 DEF Placed, Indices, Used
      <3>3. CASE /\ job[p].scope = s /\ job[p].time = t
                 /\ Commit(p) /\ job[p].pc = "commit"
        <4>1. <<s, t>> \notin again
          BY <1>1, AgainGrows
        <4> QED
          BY <1>2, <1>6, <3>3, <4>1, CommittedInPlace
      <3>4. CASE /\ job[p].scope = s /\ job[p].time = t /\ job[p].pc = "committed"
        <4>1. Doing(p, s, t, {"committed", "save"})
          BY <3>4 DEF Doing
        <4> QED
          BY <1>3, <2>1, <4>1
      <3> QED
        BY <1>1, <1>6, <3>1, <3>2, <3>3, <3>4, ComingTo
    <2> QED
      BY <2>2, <2>3, <2>4
  <1> QED
    BY <1>1, <1>5, <1>6, StepKinds

LEMMA TimelyInit == Init => Timely
  <1> SUFFICES ASSUME Init PROVE Timely
    OBVIOUS
  <1>1. \A p \in Processors : job[p].pc = "idle"
    BY DEF Init, Idle
  <1>2. \A t \in Periods : t \in Nat
    BY PeriodsAreNumbers
  <1> QED
    BY <1>1, <1>2 DEF Init, Timely, Doing, Unset

LEMMA OnceInit == Init => OnceInv
  <1> SUFFICES ASSUME Init PROVE OnceInv
    OBVIOUS
  <1>1. PushOK
    BY DEF Init, Idle, PushOK, Doing, Open
  <1>2. TableTidy
    BY EmptyBagIsEmpty DEF Init, TableTidy, Tidy
  <1> QED
    BY <1>1, <1>2, LostInit, HistoryInit, TimelyInit DEF OnceInv

LEMMA OnceStep == OnceInv /\ [Next]_vars => OnceInv'
  BY LostStep, HistoryStep, PushStep, TidyStep, TimelyStep DEF OnceInv, LostInv

LEMMA NothingIsLost == OnceInv => NothingLost
  <1> SUFFICES ASSUME OnceInv PROVE NothingLost
    OBVIOUS
  <1>1. TypeOK /\ RowsOK /\ NothingMissing /\ Timely
    BY DEF OnceInv, LostInv
  <1>2. ASSUME NEW s \in Scopes, NEW t \in Periods, t <= mark[s],
               Usage[<<s, t>>] # None, NEW i \in DOMAIN Usage[<<s, t>>]
        PROVE  IF driver = "sqlalchemy" THEN Stored(s, t, i, {t}) # {}
               ELSE \E r \in OfResource(Usage[<<s, t>>][i]) :
                      <<s, t>> \in again \/ r.begin \in Begins(s, t)
    <2>1. i \in Indices(s, t) /\ Rowed(s, t, i)
      BY <1>1, <1>2 DEF NothingMissing, Secured, Indices, Used
    <2>2. driver \in {"sqlalchemy", "hybrid"}
      BY <1>1 DEF TypeOK, Drivers
    <2>3. CASE driver = "sqlalchemy"
      BY <2>1, <2>3 DEF Rowed, Stored
    <2>4. CASE driver = "hybrid"
      <3>1. PICK r \in DOMAIN table :
              /\ Suits(r.resource, Usage[<<s, t>>][i])
              /\ <<s, t>> \in again \/ r.begin \in Begins(s, t)
        BY <1>1, <1>2, <2>1, <2>4 DEF Rowed, Timely, Placed
      <3>2. OfItsResource(r)
        BY <1>1, <2>4 DEF RowsOK
      <3>3. r \in OfResource(Usage[<<s, t>>][i])
        BY <3>1, <3>2 DEF OfResource, SameResource, OfItsResource, Suits
      <3> QED
        BY <2>4, <3>1, <3>3
    <2> QED
      BY <2>2, <2>3, <2>4
  <1>3. driver = "hybrid" => \A r \in DOMAIN table : Owner(r) \in UsersOf(r)
    BY <1>1, OwnersAreUsers
  <1> QED
    BY <1>2, <1>3 DEF NothingLost

(* Whatever fails between appending and committing, and however often:     *)
(* what counts as rated is stored, by the hybrid driver as a value of its  *)
(* resource under a time of the period, for a scope that has used it; of   *)
(* points sent for one resource under one time, one value is there.        *)
THEOREM WhatIsRatedIsStored == Spec => []NothingLost
  <1>1. Spec => []OnceInv
    BY OnceInit, OnceStep, PTL DEF Spec
  <1> QED
    BY <1>1, NothingIsLost, PTL

LEMMA OnceImplies == OnceInv => StoredOnce
  <1> SUFFICES ASSUME OnceInv, NEW s \in Scopes, NEW t \in Periods, <<s, t>> \notin again
               PROVE  /\ \A i \in Indices(s, t) \cup {NoData} :
                           /\ Stored(s, t, i, Periods \ Begins(s, t)) = {}
                           /\ AtMostOne(Stored(s, t, i, Begins(s, t)))
                      /\ Indices(s, t) # {} => Stored(s, t, NoData, Periods) = {}
    BY DEF StoredOnce, Indices, Used
  <1>1. Tidy(s, t)
    BY DEF OnceInv, TableTidy
  <1>2. \A i : Stored(s, t, i, Periods \ Begins(s, t)) = {}
    BY <1>1 DEF Tidy, Stored
  <1>3. \A i : AtMostOne(Stored(s, t, i, Begins(s, t)))
    BY <1>1 DEF Tidy, Stored, AtMostOne
  <1>4. Indices(s, t) # {} => Stored(s, t, NoData, Periods) = {}
    BY <1>1 DEF Tidy, Stored
  <1> QED
    BY <1>2, <1>3, <1>4

(* No point is stored twice or in another period than it belongs to, and   *)
(* a period without points is marked as such once, but for periods that    *)
(* were pushed again after a failure or a reset.                           *)
THEOREM WhatIsStoredIsStoredOnce == Spec => []StoredOnce
  <1>1. Spec => []OnceInv
    BY OnceInit, OnceStep, PTL DEF Spec
  <1> QED
    BY <1>1, OnceImplies, PTL

-----------------------------------------------------------------------------
(***************************************************************************)
(* Induction over numbers and finite sets.  The property is a set: what    *)
(* has it is in it.                                                        *)
(***************************************************************************)
Less == {p \in Nat \X Nat : p[1] < p[2]}

LEMMA LessWF == IsWellFoundedOn(Less, Nat)
  BY NatLessThanWellFounded DEF OpToRel, Less

(* A set of numbers that is not empty has a least one.                     *)
LEMMA LeastNumber ==
  ASSUME NEW T \in SUBSET Nat, T # {}
  PROVE  \E n \in T : \A k \in T : n <= k
  <1>1. PICK n \in T : \A k \in T : ~(<<k, n>> \in Less)
    BY LessWF, WFMin
  <1>2. ASSUME NEW k \in T PROVE n <= k
    <2>1. <<k, n>> \in Nat \X Nat /\ ~(<<k, n>> \in Less)
      BY <1>1
    <2>2. ~(k < n)
      BY <2>1 DEF Less
    <2> QED
      BY <2>1, <2>2
  <1> QED
    BY <1>2

(* A set that holds 0 and with every number the next one holds all.        *)
LEMMA Induction ==
  ASSUME NEW T, 0 \in T, \A n \in Nat : n \in T => n + 1 \in T
  PROVE  Nat \subseteq T
  <1> SUFFICES ASSUME NEW m \in Nat, m \notin T
               PROVE  FALSE
    OBVIOUS
  <1>1. PICK n \in Nat \ T : \A k \in Nat \ T : n <= k
    <2> DEFINE U == Nat \ T
    <2>1. U \in SUBSET Nat /\ U # {}
      OBVIOUS
    <2> HIDE DEF U
    <2>2. \E n \in U : \A k \in U : n <= k
      BY <2>1, LeastNumber
    <2> QED
      BY <2>2 DEF U
  <1>2. n # 0
    BY <1>1
  <1>3. n - 1 \in Nat
    BY <1>2
  <1>4. n - 1 \in T
    BY <1>1, <1>3
  <1>5. (n - 1) + 1 \in T
    BY <1>3, <1>4
  <1> QED
    BY <1>1, <1>5

(* What holds of the empty set, and of a set with one more element, holds  *)
(* of every finite set.                                                    *)
LEMMA FiniteInduction ==
  ASSUME NEW S, IsFiniteSet(S), NEW C, {} \in C,
         \A T \in SUBSET S : \A x \in S \ T : T \in C => T \cup {x} \in C
  PROVE  \A T \in SUBSET S : T \in C
  <1> DEFINE N == {n \in Nat : \A T \in SUBSET S : Cardinality(T) = n => T \in C}
  <1>0. \A T \in SUBSET S : IsFiniteSet(T) /\ Cardinality(T) \in Nat
    BY FS_Subset, FS_CardinalityType
  <1>1. 0 \in N
    <2>1. \A T \in SUBSET S : Cardinality(T) = 0 => T = {}
      BY <1>0, FS_EmptySet
    <2> QED
      BY <2>1
  <1>2. ASSUME NEW n \in Nat, n \in N
        PROVE  n + 1 \in N
    <2> SUFFICES ASSUME NEW T \in SUBSET S, Cardinality(T) = n + 1
                 PROVE  T \in C
      OBVIOUS
    <2>0. IsFiniteSet(T)
      BY <1>0
    <2>1. T # {}
      <3>1. Cardinality(T) # 0
        OBVIOUS
      <3> QED
        BY <2>0, <3>1, FS_EmptySet
    <2>2. PICK x \in T : TRUE
      BY <2>1
    <2>3. T \ {x} \in SUBSET S /\ x \in S \ (T \ {x}) /\ T = (T \ {x}) \cup {x}
      OBVIOUS
    <2>4. Cardinality(T \ {x}) = n
      <3>1. Cardinality(T \ {x}) = Cardinality(T) - 1
        BY <2>0, <2>2, FS_RemoveElement
      <3> QED
        BY <3>1
    <2>5. T \ {x} \in C
      BY <1>2, <2>3, <2>4
    <2> QED
      BY <2>3, <2>5
  <1> HIDE DEF N
  <1>3. Nat \subseteq N
    BY <1>1, <1>2, Induction
  <1> QED
    BY <1>0, <1>3 DEF N

-----------------------------------------------------------------------------
(***************************************************************************)
(* Sums.                                                                   *)
(***************************************************************************)
First(s) == CHOOSE x \in s : TRUE

SumStep(g, f, s) == IF s = {} THEN 0 ELSE f[First(s)] + g[s \ {First(s)}]

(* The sums of f over the subsets of S.                                    *)
IsSums(g, f, S) == g = [s \in SUBSET S |-> SumStep(g, f, s)]

LEMMA SumsExist ==
  ASSUME NEW f, NEW S, IsFiniteSet(S)
  PROVE  \E g : IsSums(g, f, S)
  <1> DEFINE Small(n) == {t \in SUBSET S : Cardinality(t) <= n}
             N == {n \in Nat : \E g : g = [s \in Small(n) |-> SumStep(g, f, s)]}
  <1>0. \A t \in SUBSET S : IsFiniteSet(t) /\ Cardinality(t) \in Nat
    BY FS_Subset, FS_CardinalityType
  <1>1. 0 \in N
    <2> DEFINE g == [s \in Small(0) |-> 0]
    <2>1. \A s \in Small(0) : s = {}
      BY <1>0, FS_EmptySet
    <2>2. \A s \in Small(0) : SumStep(g, f, s) = 0
      BY <2>1 DEF SumStep
    <2> HIDE DEF Small
    <2>3. g = [s \in Small(0) |-> SumStep(g, f, s)]
      BY <2>2
    <2> QED
      BY <2>3
  <1>2. ASSUME NEW n \in Nat, n \in N
        PROVE  n + 1 \in N
    <2>1. PICK g : g = [s \in Small(n) |-> SumStep(g, f, s)]
      BY <1>2
    <2> DEFINE h == [s \in Small(n + 1) |-> SumStep(g, f, s)]
    <2>2. ASSUME NEW s \in Small(n + 1)
          PROVE  SumStep(h, f, s) = SumStep(g, f, s)
      <3>1. CASE s = {}
        BY <3>1 DEF SumStep
      <3>2. CASE s # {}
        <4> DEFINE t == s \ {First(s)}
        <4>1. First(s) \in s
          BY <3>2 DEF First
        <4>2. Cardinality(t) = Cardinality(s) - 1
          BY <1>0, <4>1, FS_RemoveElement
        <4>3. t \in Small(n) /\ t \in Small(n + 1)
          BY <1>0, <4>2
        <4> HIDE DEF Small, t
        <4>4. h[t] = g[t]
          BY <2>1, <4>3
        <4> HIDE DEF h
        <4> QED
          BY <3>2, <4>4 DEF SumStep, t
      <3> QED
        BY <3>1, <3>2
    <2> HIDE DEF Small
    <2>3. h = [s \in Small(n + 1) |-> SumStep(h, f, s)]
      <3> DEFINE k == [s \in Small(n + 1) |-> SumStep(h, f, s)]
      <3>1. \A s \in Small(n + 1) : h[s] = k[s]
        BY <2>2
      <3>2. h = [s \in Small(n + 1) |-> h[s]] /\ k = [s \in Small(n + 1) |-> k[s]]
        OBVIOUS
      <3> HIDE DEF h, k
      <3>3. h = k
        BY <3>1, <3>2
      <3> QED
        BY <3>3 DEF k
    <2> HIDE DEF h
    <2> QED
      BY <2>3
  <1> HIDE DEF N
  <1>3. Cardinality(S) \in N
    BY <1>0, <1>1, <1>2, Induction
  <1>4. Small(Cardinality(S)) = SUBSET S
    BY FS_Subset, FS_CardinalityType
  <1> HIDE DEF Small
  <1> QED
    BY <1>3, <1>4 DEF N, IsSums

LEMMA SumIsOne ==
  ASSUME NEW f, NEW S, IsFiniteSet(S)
  PROVE  \E g : IsSums(g, f, S) /\ SumFunctionOnSet(f, S) = g[S]
  <1>1. SumFunctionOnSet(f, S) = LET g == CHOOSE g : IsSums(g, f, S) IN g[S]
    BY DEF SumFunctionOnSet, FoldFunctionOnSet, MapThenFoldSet, IsSums, SumStep, First
  <1> QED
    BY <1>1, SumsExist

LEMMA SumsAgree ==
  ASSUME NEW f, NEW S, IsFiniteSet(S), NEW g, IsSums(g, f, S), NEW T \in SUBSET S
  PROVE  g[T] = SumFunctionOnSet(f, T)
  <1>0. IsFiniteSet(T)
    BY FS_Subset
  <1>1. PICK h : IsSums(h, f, T) /\ SumFunctionOnSet(f, T) = h[T]
    BY <1>0, SumIsOne
  <1> DEFINE N == {n \in Nat : \A U \in SUBSET T : Cardinality(U) = n => g[U] = h[U]}
  <1>2. \A U \in SUBSET T : /\ IsFiniteSet(U) /\ Cardinality(U) \in Nat
                            /\ g[U] = SumStep(g, f, U) /\ h[U] = SumStep(h, f, U)
    BY <1>0, <1>1, FS_Subset, FS_CardinalityType DEF IsSums
  <1>3. 0 \in N
    <2>1. \A U \in SUBSET T : Cardinality(U) = 0 => U = {}
      BY <1>2, FS_EmptySet
    <2>2. \A U \in SUBSET T : U = {} => g[U] = h[U]
      BY <1>2 DEF SumStep
    <2> QED
      BY <2>1, <2>2
  <1>4. ASSUME NEW n \in Nat, n \in N
        PROVE  n + 1 \in N
    <2> SUFFICES ASSUME NEW U \in SUBSET T, Cardinality(U) = n + 1
                 PROVE  g[U] = h[U]
      OBVIOUS
    <2>1. U # {}
      BY FS_EmptySet
    <2> DEFINE V == U \ {First(U)}
    <2>2. First(U) \in U
      BY <2>1 DEF First
    <2>3. V \in SUBSET T /\ Cardinality(V) = n
      BY <1>2, <2>2, FS_RemoveElement
    <2>4. g[V] = h[V]
      BY <1>4, <2>3
    <2> QED
      BY <1>2, <2>1, <2>4 DEF SumStep
  <1> HIDE DEF N
  <1>5. Cardinality(T) \in N
    BY <1>2, <1>3, <1>4, Induction
  <1> QED
    BY <1>1, <1>5 DEF N

(* A sum is that of one element and the others.                            *)
LEMMA SumOfFirst ==
  ASSUME NEW f, NEW S, IsFiniteSet(S)
  PROVE  SumFunctionOnSet(f, S) =
           IF S = {} THEN 0
           ELSE f[First(S)] + SumFunctionOnSet(f, S \ {First(S)})
  <1>1. PICK g : IsSums(g, f, S) /\ SumFunctionOnSet(f, S) = g[S]
    BY SumIsOne
  <1>2. g[S] = SumStep(g, f, S)
    BY <1>1 DEF IsSums
  <1>3. g[S \ {First(S)}] = SumFunctionOnSet(f, S \ {First(S)})
    <2> DEFINE T == S \ {First(S)}
    <2>1. T \in SUBSET S
      OBVIOUS
    <2> HIDE DEF T
    <2>2. g[T] = SumFunctionOnSet(f, T)
      BY <1>1, <2>1, SumsAgree
    <2> QED
      BY <2>2 DEF T
  <1> QED
    BY <1>1, <1>2, <1>3 DEF SumStep

LEMMA SumType ==
  ASSUME NEW f, NEW S, IsFiniteSet(S), \A x \in S : f[x] \in Int
  PROVE  SumFunctionOnSet(f, S) \in Int
  <1> DEFINE Sums(T) == SumFunctionOnSet(f, T)
             N == {n \in Nat : \A T \in SUBSET S : Cardinality(T) = n => Sums(T) \in Int}
  <1>0. \A T \in SUBSET S : IsFiniteSet(T) /\ Cardinality(T) \in Nat
    BY FS_Subset, FS_CardinalityType
  <1>1. \A T \in SUBSET S : T = {} => Sums(T) = 0
    BY <1>0, SumOfFirst
  <1>2. \A T \in SUBSET S : T # {} => /\ First(T) \in T
                                      /\ Sums(T) = f[First(T)] + Sums(T \ {First(T)})
    BY <1>0, SumOfFirst DEF First
  <1> HIDE DEF Sums
  <1>3. 0 \in N
    <2>1. \A T \in SUBSET S : Cardinality(T) = 0 => T = {}
      BY <1>0, FS_EmptySet
    <2>2. \A T \in SUBSET S : Cardinality(T) = 0 => Sums(T) \in Int
      BY <1>1, <2>1
    <2> QED
      BY <2>2
  <1>4. ASSUME NEW n \in Nat, n \in N
        PROVE  n + 1 \in N
    <2> SUFFICES ASSUME NEW T \in SUBSET S, Cardinality(T) = n + 1
                 PROVE  Sums(T) \in Int
      OBVIOUS
    <2>0. IsFiniteSet(T)
      BY <1>0
    <2>1. T # {}
      BY FS_EmptySet
    <2> DEFINE c == First(T)
    <2>2. c \in T /\ Sums(T) = f[c] + Sums(T \ {c})
      BY <1>2, <2>1
    <2> HIDE DEF c
    <2>3. Cardinality(T \ {c}) = Cardinality(T) - 1
      BY <2>0, <2>2, FS_RemoveElement
    <2>4. T \ {c} \in SUBSET S /\ Cardinality(T \ {c}) = n
      BY <2>3
    <2>5. Sums(T \ {c}) \in Int
      BY <1>4, <2>4
    <2> QED
      BY <2>2, <2>5
  <1> HIDE DEF N
  <1>5. Cardinality(S) \in N
    BY <1>0, <1>3, <1>4, Induction
  <1> QED
    BY <1>5 DEF N, Sums

(* A sum is that of any one element and the others.                        *)
LEMMA SumOfRest ==
  ASSUME NEW f, NEW S, IsFiniteSet(S), \A x \in S : f[x] \in Int
  PROVE  \A x \in S : SumFunctionOnSet(f, S) = f[x] + SumFunctionOnSet(f, S \ {x})
  <1> DEFINE Sums(T) == SumFunctionOnSet(f, T)
             N == {n \in Nat : \A T \in SUBSET S : Cardinality(T) = n =>
                     \A x \in T : Sums(T) = f[x] + Sums(T \ {x})}
  <1>0. \A T \in SUBSET S : IsFiniteSet(T) /\ Cardinality(T) \in Nat
    BY FS_Subset, FS_CardinalityType
  <1>1. \A T \in SUBSET S : Sums(T) \in Int
    BY <1>0, SumType
  <1>2. \A T \in SUBSET S : T # {} => /\ First(T) \in T
                                      /\ Sums(T) = f[First(T)] + Sums(T \ {First(T)})
    BY <1>0, SumOfFirst DEF First
  <1> HIDE DEF Sums
  <1>3. 0 \in N
    <2>1. \A T \in SUBSET S : Cardinality(T) = 0 => T = {}
      BY <1>0, FS_EmptySet
    <2>2. \A T \in SUBSET S : Cardinality(T) = 0 =>
            \A x \in T : Sums(T) = f[x] + Sums(T \ {x})
      BY <2>1
    <2> QED
      BY <2>2
  <1>4. ASSUME NEW n \in Nat, n \in N
        PROVE  n + 1 \in N
    <2> SUFFICES ASSUME NEW T \in SUBSET S, Cardinality(T) = n + 1, NEW x \in T
                 PROVE  Sums(T) = f[x] + Sums(T \ {x})
      OBVIOUS
    <2>0. IsFiniteSet(T)
      BY <1>0
    <2> DEFINE c == First(T)
               rest == Sums((T \ {c}) \ {x})
    <2>2. c \in T /\ Sums(T) = f[c] + Sums(T \ {c})
      BY <1>2
    <2>3. CASE x = c
      BY <2>2, <2>3
    <2>4. CASE x # c
      <3> HIDE DEF c
      <3>1. \A y \in T : Cardinality(T \ {y}) = Cardinality(T) - 1
        BY <2>0, FS_RemoveElement
      <3>2. \A y \in T : T \ {y} \in SUBSET S /\ Cardinality(T \ {y}) = n
        BY <3>1
      <3>3. \A y \in T : \A z \in T \ {y} :
              Sums(T \ {y}) = f[z] + Sums((T \ {y}) \ {z})
        BY <1>4, <3>2
      <3>4. Sums(T \ {c}) = f[x] + rest
        BY <2>2, <2>4, <3>3
      <3>5. (T \ {x}) \ {c} = (T \ {c}) \ {x}
        OBVIOUS
      <3>6. Sums(T \ {x}) = f[c] + rest
        BY <2>2, <2>4, <3>3, <3>5
      <3>7. f[x] \in Int /\ f[c] \in Int /\ rest \in Int
        <4>1. (T \ {c}) \ {x} \in SUBSET S
          OBVIOUS
        <4> QED
          BY <1>1, <2>2, <4>1
      <3> HIDE DEF rest
      <3> QED
        BY <2>2, <3>4, <3>6, <3>7
    <2> QED
      BY <2>3, <2>4
  <1> HIDE DEF N
  <1>5. Cardinality(S) \in N
    BY <1>0, <1>3, <1>4, Induction
  <1> QED
    BY <1>5 DEF N, Sums

LEMMA SumOfNone ==
  ASSUME NEW f
  PROVE  SumFunctionOnSet(f, {}) = 0
  BY FS_EmptySet, SumOfFirst

LEMMA SumWith ==
  ASSUME NEW f, NEW S, IsFiniteSet(S), NEW x, x \notin S,
         \A y \in S \cup {x} : f[y] \in Int
  PROVE  SumFunctionOnSet(f, S \cup {x}) = f[x] + SumFunctionOnSet(f, S)
  <1> DEFINE T == S \cup {x}
  <1>1. IsFiniteSet(T) /\ x \in T /\ T \ {x} = S
    BY FS_AddElement
  <1> HIDE DEF T
  <1>2. SumFunctionOnSet(f, T) = f[x] + SumFunctionOnSet(f, T \ {x})
    <2>1. \A y \in T : f[y] \in Int
      BY DEF T
    <2> QED
      BY <1>1, <2>1, SumOfRest
  <1> QED
    BY <1>1, <1>2 DEF T

(* A sum over the images of an injection.                                  *)
LEMMA SumOfImages ==
  ASSUME NEW S, IsFiniteSet(S), NEW f, NEW p, NEW h,
         \A x, y \in S : p[x] = p[y] => x = y,
         \A x \in S : f[p[x]] = h[x] /\ h[x] \in Int
  PROVE  SumFunctionOnSet(f, {p[x] : x \in S}) = SumFunctionOnSet(h, S)
  <1> DEFINE Image(T) == {p[x] : x \in T}
             C == {T \in SUBSET S :
                     /\ IsFiniteSet(Image(T))
                     /\ SumFunctionOnSet(f, Image(T)) = SumFunctionOnSet(h, T)}
  <1>0. \A T \in SUBSET S : IsFiniteSet(T)
    BY FS_Subset
  <1>1. {} \in C
    <2>1. Image({}) = {}
      OBVIOUS
    <2> HIDE DEF Image
    <2> QED
      BY <2>1, FS_EmptySet, SumOfNone
  <1>2. ASSUME NEW T \in SUBSET S, NEW x \in S \ T, T \in C
        PROVE  T \cup {x} \in C
    <2>1. Image(T \cup {x}) = Image(T) \cup {p[x]} /\ p[x] \notin Image(T)
      OBVIOUS
    <2>2. \A q \in Image(T) \cup {p[x]} : f[q] \in Int
      OBVIOUS
    <2>3. IsFiniteSet(Image(T))
          /\ SumFunctionOnSet(f, Image(T)) = SumFunctionOnSet(h, T)
      BY <1>2
    <2> HIDE DEF Image
    <2>4. SumFunctionOnSet(f, Image(T) \cup {p[x]})
            = f[p[x]] + SumFunctionOnSet(f, Image(T))
      BY <2>1, <2>2, <2>3, SumWith
    <2>5. SumFunctionOnSet(h, T \cup {x}) = h[x] + SumFunctionOnSet(h, T)
      <3>1. IsFiniteSet(T) /\ x \notin T /\ \A y \in T \cup {x} : h[y] \in Int
        BY <1>0
      <3> QED
        BY <3>1, SumWith
    <2>6. IsFiniteSet(Image(T \cup {x}))
      <3>1. IsFiniteSet(Image(T) \cup {p[x]})
        BY <2>3, FS_AddElement
      <3> QED
        BY <2>1, <3>1
    <2> QED
      BY <2>1, <2>3, <2>4, <2>5, <2>6
  <1> HIDE DEF C
  <1>3. S \in C
    BY <1>1, <1>2, FiniteInduction
  <1> QED
    BY <1>3 DEF C

LEMMA SumOfSame ==
  ASSUME NEW S, IsFiniteSet(S), NEW f, NEW h,
         \A x \in S : f[x] = h[x] /\ h[x] \in Int
  PROVE  SumFunctionOnSet(f, S) = SumFunctionOnSet(h, S)
  <1> DEFINE p == [x \in S |-> x]
  <1>1. {p[x] : x \in S} = S
    OBVIOUS
  <1>2. SumFunctionOnSet(f, {p[x] : x \in S}) = SumFunctionOnSet(h, S)
    <2>1. /\ \A x, y \in S : p[x] = p[y] => x = y
          /\ \A x \in S : f[p[x]] = h[x] /\ h[x] \in Int
      OBVIOUS
    <2> HIDE DEF p
    <2> QED
      BY <2>1, SumOfImages
  <1> QED
    BY <1>1, <1>2

(* The sum over two parts.                                                 *)
LEMMA SumOfParts ==
  ASSUME NEW f, NEW S, IsFiniteSet(S), \A x \in S : f[x] \in Int,
         NEW A \in SUBSET S, NEW B \in SUBSET S, A \cap B = {}
  PROVE  SumFunctionOnSet(f, A \cup B)
           = SumFunctionOnSet(f, A) + SumFunctionOnSet(f, B)
  <1> DEFINE Sums(T) == SumFunctionOnSet(f, T)
             C == {T \in SUBSET B : Sums(A \cup T) = Sums(A) + Sums(T)}
  <1>0. \A T \in SUBSET S : /\ IsFiniteSet(T) /\ Sums(T) \in Int
                            /\ \A x \in T : f[x] \in Int
    BY FS_Subset, SumType
  <1>1. {} \in C
    <2>1. A \cup {} = A /\ Sums({}) = 0 /\ Sums(A) \in Int
      BY <1>0, SumOfNone
    <2> HIDE DEF Sums
    <2> QED
      BY <2>1
  <1>2. ASSUME NEW T \in SUBSET B, NEW x \in B \ T, T \in C
        PROVE  T \cup {x} \in C
    <2> SUFFICES Sums(A \cup (T \cup {x})) = Sums(A) + Sums(T \cup {x})
      OBVIOUS
    <2>1. Sums(T \cup {x}) = f[x] + Sums(T)
      <3>1. IsFiniteSet(T) /\ x \notin T /\ \A y \in T \cup {x} : f[y] \in Int
        BY <1>0
      <3> QED
        BY <3>1, SumWith
    <2> DEFINE U == A \cup T
    <2>2. Sums(U \cup {x}) = f[x] + Sums(U)
      <3>1. U \in SUBSET S /\ x \notin U /\ U \cup {x} \in SUBSET S
        OBVIOUS
      <3>2. IsFiniteSet(U) /\ \A y \in U \cup {x} : f[y] \in Int
        BY <1>0, <3>1
      <3> HIDE DEF U
      <3> QED
        BY <3>1, <3>2, SumWith
    <2>3. Sums(U) = Sums(A) + Sums(T)
      BY <1>2
    <2>4. Sums(A) \in Int /\ Sums(T) \in Int /\ f[x] \in Int
      BY <1>0
    <2>5. A \cup (T \cup {x}) = U \cup {x}
      OBVIOUS
    <2>6. Sums(A \cup (T \cup {x})) = Sums(U \cup {x})
      BY <2>5
    <2> HIDE DEF Sums, U
    <2> QED
      BY <2>1, <2>2, <2>3, <2>4, <2>6
  <1>3. IsFiniteSet(B)
    BY <1>0
  <1> HIDE DEF C, Sums
  <1>4. \A T \in SUBSET B : \A x \in B \ T : T \in C => T \cup {x} \in C
    BY <1>2
  <1>5. B \in C
    BY <1>1, <1>3, <1>4, FiniteInduction
  <1> QED
    BY <1>5 DEF C, Sums

LEMMA FiniteImage ==
  ASSUME NEW S, IsFiniteSet(S), NEW g
  PROVE  IsFiniteSet({g[x] : x \in S})
  <1> DEFINE T == {g[x] : x \in S}
             h == [x \in S |-> g[x]]
  <1>1. h \in Surjection(S, T)
    BY DEF Surjection
  <1> HIDE DEF h, T
  <1>2. IsFiniteSet(T)
    BY <1>1, FS_Surjection
  <1> QED
    BY <1>2 DEF T

Grouped(S, g, k) == {x \in S : g[x] = k}

(* The sum over the sums of groups.                                        *)
LEMMA SumOfGroups ==
  ASSUME NEW f, NEW S, IsFiniteSet(S), \A x \in S : f[x] \in Int, NEW g, NEW h,
         \A k \in {g[x] : x \in S} : h[k] = SumFunctionOnSet(f, Grouped(S, g, k))
  PROVE  SumFunctionOnSet(h, {g[x] : x \in S}) = SumFunctionOnSet(f, S)
  <1> DEFINE K == {g[x] : x \in S}
             In(T) == {x \in S : g[x] \in T}
             Group(k) == Grouped(S, g, k)
             Sums(T) == SumFunctionOnSet(f, T)
             C == {T \in SUBSET K : SumFunctionOnSet(h, T) = Sums(In(T))}
  <1>0. \A T \in SUBSET S : IsFiniteSet(T) /\ Sums(T) \in Int
    BY FS_Subset, SumType
  <1>1. \A k \in K : h[k] = Sums(Group(k)) /\ h[k] \in Int
    BY <1>0 DEF Grouped
  <1>2. IsFiniteSet(K)
    BY FiniteImage
  <1>3. {} \in C
    <2>1. In({}) = {}
      OBVIOUS
    <2>2. SumFunctionOnSet(h, {}) = 0 /\ Sums({}) = 0
      BY SumOfNone
    <2> HIDE DEF In, Sums, K
    <2> QED
      BY <2>1, <2>2
  <1>4. ASSUME NEW T \in SUBSET K, NEW k \in K \ T, T \in C
        PROVE  T \cup {k} \in C
    <2> SUFFICES SumFunctionOnSet(h, T \cup {k}) = Sums(In(T \cup {k}))
      OBVIOUS
    <2>1. SumFunctionOnSet(h, T \cup {k}) = h[k] + SumFunctionOnSet(h, T)
      <3>1. IsFiniteSet(T) /\ k \notin T /\ \A y \in T \cup {k} : h[y] \in Int
        BY <1>1, <1>2, FS_Subset
      <3> HIDE DEF K
      <3> QED
        BY <3>1, SumWith
    <2>2. SumFunctionOnSet(h, T) = Sums(In(T))
      BY <1>4
    <2>3. /\ In(T) \in SUBSET S /\ Group(k) \in SUBSET S
          /\ In(T) \cap Group(k) = {} /\ In(T \cup {k}) = In(T) \cup Group(k)
      BY DEF Grouped
    <2>4. Sums(In(T)) \in Int /\ h[k] = Sums(Group(k)) /\ h[k] \in Int
      BY <1>0, <1>1, <2>3
    <2> HIDE DEF In, Group, K
    <2>5. Sums(In(T) \cup Group(k)) = Sums(In(T)) + Sums(Group(k))
      BY <2>3, SumOfParts
    <2>6. Sums(In(T \cup {k})) = Sums(In(T) \cup Group(k))
      BY <2>3
    <2> HIDE DEF Sums
    <2> QED
      BY <2>1, <2>2, <2>4, <2>5, <2>6
  <1> HIDE DEF C, K
  <1>5. K \in C
    BY <1>2, <1>3, <1>4, FiniteInduction
  <1>6. In(K) = S
    BY DEF K
  <1> QED
    BY <1>5, <1>6 DEF C, K

-----------------------------------------------------------------------------
(***************************************************************************)
(* Reports: whatever is stored, they add up.                               *)
(***************************************************************************)
(* What is in memory and what is stored is finite.                         *)
Finite ==
  /\ IsFiniteSet(DOMAIN table)
  /\ \A p \in Processors, s \in Scopes : IsFiniteSet(DOMAIN held[p][s])

LEMMA FiniteInit == Init => Finite
  <1> SUFFICES ASSUME Init PROVE Finite
    OBVIOUS
  <1>1. IsFiniteSet(DOMAIN EmptyBag)
    BY EmptyBagIsEmpty, FS_EmptySet
  <1>2. /\ table = EmptyBag
        /\ \A p \in Processors, s \in Scopes : held[p][s] = EmptyBag
    BY DEF Init
  <1> QED
    BY <1>1, <1>2 DEF Finite

LEMMA FiniteMemory ==
  ASSUME LostInv, Finite, NEW p \in Processors, Acts(p),
         NEW q \in Processors, NEW s \in Scopes
  PROVE  IsFiniteSet(DOMAIN held'[q][s])
  <1>0. TypeOK /\ JobsOK /\ held \in [Processors -> [Scopes -> BagsOfRows]]
    BY DEF LostInv, TypeOK
  <1>1. IsFiniteSet(DOMAIN held[q][s])
    BY DEF Finite
  <1>2. CASE held' = held
    BY <1>1, <1>2
  <1>3. ASSUME NEW resource \in Makeable, Keeps(p, resource)
        PROVE  IsFiniteSet(DOMAIN held'[q][s])
    <2>1. CASE q = p /\ s = Scope(p)
      <3> DEFINE row == Measure(s, job[p].time, job[p].next, resource)
      <3>1. DOMAIN held'[q][s] = DOMAIN held[q][s] \cup {row}
        BY <1>0, <1>3, <2>1, KeptRow
      <3>2. IsFiniteSet(DOMAIN held[q][s] \cup {row})
        BY <1>1, FS_AddElement
      <3> QED
        BY <3>1, <3>2
    <2>2. CASE q # p \/ s # Scope(p)
      <3>1. held'[q][s] = held[q][s]
        BY <1>0, <1>3, <2>2 DEF Keeps, Keep
      <3> QED
        BY <1>1, <3>1
    <2> QED
      BY <2>1, <2>2
  <1>4. CASE \/ held' = [held EXCEPT ![p][Scope(p)] = EmptyBag]
             \/ held' = [held EXCEPT ![p] = [u \in Scopes |-> EmptyBag]]
    <2>1. held'[q][s] \in {held[q][s], EmptyBag}
      BY <1>0, <1>4
    <2>2. IsFiniteSet(DOMAIN EmptyBag)
      BY EmptyBagIsEmpty, FS_EmptySet
    <2> QED
      BY <1>1, <2>1, <2>2
  <1> QED
    BY <1>0, <1>2, <1>3, <1>4, MemoryGrows

LEMMA FiniteAdded ==
  ASSUME LostInv, Finite, NEW p \in Processors, Scope(p) \in Scopes,
         start[p][Scope(p)] # Unset
  PROVE  IsFiniteSet(Added(p))
  <1>0. TypeOK /\ RowsOK
    BY DEF LostInv
  <1>1. CASE driver = "hybrid"
    <2> DEFINE s == Scope(p)
               H == DOMAIN held[p][s]
               under == [x \in H |-> Under(x, state[s])]
    <2>1. Added(p) = {under[x] : x \in H}
      BY <1>1 DEF Added, Measures
    <2>2. IsFiniteSet(H)
      BY DEF Finite
    <2> HIDE DEF under, H
    <2>3. IsFiniteSet({under[x] : x \in H})
      BY <2>2, FiniteImage
    <2> QED
      BY <2>1, <2>3
  <1>2. CASE driver # "hybrid"
    <2> DEFINE row == Row(Scope(p), start[p][Scope(p)], start[p][Scope(p)], NoData)
    <2>1. Added(p) \subseteq {row}
      BY <1>0, <1>2, NoDataFacts DEF Added
    <2>2. IsFiniteSet({row})
      BY FS_Singleton
    <2> HIDE DEF row
    <2> QED
      BY <2>1, <2>2, FS_Subset
  <1> QED
    BY <1>1, <1>2

LEMMA FiniteTable ==
  ASSUME LostInv, Finite, NEW p \in Processors, Acts(p)
  PROVE  IsFiniteSet(DOMAIN table')
  <1>0. TypeOK /\ JobsOK /\ RowsOK /\ IsFiniteSet(DOMAIN table)
    BY DEF LostInv, Finite
  <1>1. CASE Appends(p)
    <2> DEFINE row == Row(Scope(p), start[p][Scope(p)], job[p].time, job[p].next)
    <2>1. DOMAIN table' = DOMAIN table \cup {row}
      BY <1>0, <1>1, AppendedRow
    <2>2. IsFiniteSet(DOMAIN table \cup {row})
      BY <1>0, FS_AddElement
    <2> QED
      BY <2>1, <2>2
  <1>2. CASE Commits(p)
    <2>1. Scope(p) \in Scopes /\ start[p][Scope(p)] # Unset
      BY <1>0, <1>2, PushedPeriod, CommitsAPeriod DEF Commits, Pushing
    <2>2. DOMAIN table' \subseteq DOMAIN table \cup Added(p)
      BY <1>0, <1>2, <2>1, WrittenFacts DEF Commits
    <2>3. IsFiniteSet(Added(p))
      BY <2>1, FiniteAdded
    <2>4. IsFiniteSet(DOMAIN table \cup Added(p))
      BY <1>0, <2>3, FS_Union
    <2> QED
      BY <2>2, <2>4, FS_Subset
  <1> QED
    BY <1>0, <1>1, <1>2, TableGrows

LEMMA FiniteStep == LostInv /\ Finite /\ [Next]_vars => Finite'
  <1> SUFFICES ASSUME LostInv, Finite, [Next]_vars PROVE Finite'
    OBVIOUS
  <1>1. CASE Aside
    BY <1>1 DEF Aside, Finite
  <1>2. ASSUME NEW p \in Processors, Acts(p) PROVE Finite'
    BY <1>2, FiniteMemory, FiniteTable DEF Finite
  <1> QED
    BY <1>1, <1>2, StepKinds DEF LostInv

-----------------------------------------------------------------------------
(* The rows of points, and what each of them adds to a total.              *)
Priced == {r \in DOMAIN table : r.point # NoData}

Weight == [r \in Priced |-> Price(r) * table[r]]

LEMMA PricedRows ==
  ASSUME TypeOK, RowsOK, Finite
  PROVE  /\ IsFiniteSet(Priced)
         /\ \A r \in Priced :
              /\ Weight[r] = Price(r) * table[r] /\ Weight[r] \in Int
              /\ r.scope \in Scopes /\ r.of \in Periods /\ r.begin \in Periods
              /\ Used(r.scope, r.of) /\ r.point \in DOMAIN Usage[<<r.scope, r.of>>]
  <1>1. IsFiniteSet(Priced)
    <2>1. Priced \subseteq DOMAIN table /\ IsFiniteSet(DOMAIN table)
      BY DEF Priced, Finite
    <2> QED
      BY <2>1, FS_Subset
  <1>2. DOMAIN table \subseteq Rows /\ table \in [DOMAIN table -> Nat \ {0}]
    BY BagsAreBags DEF TypeOK
  <1>3. ASSUME NEW r \in Priced
        PROVE  /\ r.scope \in Scopes /\ r.of \in Periods /\ r.begin \in Periods
               /\ Used(r.scope, r.of) /\ r.point \in DOMAIN Usage[<<r.scope, r.of>>]
    <2>1. r \in DOMAIN table /\ r.point # NoData /\ r \in Rows
      BY <1>2 DEF Priced
    <2>2. r.scope \in Scopes /\ r.of \in Periods
      BY <2>1 DEF Rows
    <2>3. r.begin \in Periods /\ OfAPoint(r)
      BY <2>1 DEF RowsOK
    <2> QED
      BY <2>2, <2>3 DEF OfAPoint
  <1>4. ASSUME NEW r \in Priced
        PROVE  Weight[r] = Price(r) * table[r] /\ Weight[r] \in Int
    <2>1. table[r] \in Int
      BY <1>2 DEF Priced
    <2>2. Price(r) \in Int
      BY <1>3, V1Assumption DEF Price, Used
    <2> QED
      BY <2>1, <2>2 DEF Weight
  <1> QED
    BY <1>1, <1>3, <1>4

LEMMA SumIsWeight ==
  ASSUME TypeOK, RowsOK, Finite, NEW rows \in SUBSET Priced
  PROVE  Sum(rows) = SumFunctionOnSet(Weight, rows)
  <1> DEFINE f == [r \in rows |-> Price(r) * table[r]]
  <1>1. Sum(rows) = SumFunctionOnSet(f, rows)
    BY DEF Sum, SumFunction
  <1>2. IsFiniteSet(rows) /\ \A r \in rows : f[r] = Weight[r] /\ Weight[r] \in Int
    BY PricedRows, FS_Subset
  <1> HIDE DEF f
  <1>3. SumFunctionOnSet(f, rows) = SumFunctionOnSet(Weight, rows)
    BY <1>2, SumOfSame
  <1> QED
    BY <1>1, <1>3

LEMMA SumOfRows ==
  ASSUME TypeOK, RowsOK, Finite, NEW rows \in SUBSET Priced
  PROVE  Sum(rows) \in Int /\ Sum({}) = 0
  <1>1. \A T \in SUBSET Priced : IsFiniteSet(T) /\ Sum(T) = SumFunctionOnSet(Weight, T)
    BY PricedRows, SumIsWeight, FS_Subset
  <1>2. \A x \in rows : Weight[x] \in Int
    BY PricedRows
  <1>3. SumFunctionOnSet(Weight, rows) \in Int
    BY <1>1, <1>2, SumType
  <1>4. SumFunctionOnSet(Weight, {}) = 0
    BY SumOfNone
  <1> QED
    BY <1>1, <1>3, <1>4

LEMMA FrameIsPriced ==
  ASSUME NEW begin, NEW end, NEW scope, NEW service
  PROVE  TimeFrame(begin, end, scope, service) \in SUBSET Priced
  BY DEF TimeFrame, Priced

(* The rows of a total, however it is grouped, are those of its range.     *)
LEMMA GroupsAddUp ==
  ASSUME TypeOK, RowsOK, Finite, NEW rows \in SUBSET Priced, NEW scope, NEW groupby
  PROVE  Rates(Totals(rows, scope, groupby)) = Sum(rows)
  <1> DEFINE g == [r \in rows |->
                     [scope |-> IF "tenant_id" \in groupby THEN Owner(r) ELSE scope,
                      service |-> IF "res_type" \in groupby THEN Service(r) ELSE All]]
             K == {g[r] : r \in rows}
             Group(k) == Grouped(rows, g, k)
             total == [k \in K |-> [scope |-> k.scope, service |-> k.service,
                                    rate |-> Sum(Group(k))]]
             h == [k \in K |-> Sum(Group(k))]
             X == {total[k] : k \in K}
             f == [x \in X |-> x.rate]
  <1>1. Totals(rows, scope, groupby) = X
    BY DEF Totals, Grouped
  <1>2. Rates(X) = SumFunctionOnSet(f, X)
    BY DEF Rates, SumFunction
  <1>3. IsFiniteSet(rows) /\ \A r \in rows : Weight[r] \in Int
    BY PricedRows, FS_Subset
  <1>4. IsFiniteSet(K)
    <2> HIDE DEF g
    <2> QED
      BY <1>3, FiniteImage
  <1>5. \A k \in K : k = [scope |-> k.scope, service |-> k.service]
    OBVIOUS
  <1>6. ASSUME NEW k \in K, NEW j \in K, total[k] = total[j] PROVE k = j
    <2>1. /\ total[k].scope = k.scope /\ total[k].service = k.service
          /\ total[j].scope = j.scope /\ total[j].service = j.service
      OBVIOUS
    <2> HIDE DEF total, K
    <2>2. k.scope = j.scope /\ k.service = j.service
      BY <1>6, <2>1
    <2> QED
      BY <1>5, <2>2
  <1>7. \A k \in K : f[total[k]] = h[k] /\ h[k] = Sum(Group(k))
    OBVIOUS
  <1>8. \A k \in K : Group(k) \in SUBSET Priced
    BY DEF Grouped
  <1>9. \A k \in K : /\ h[k] = SumFunctionOnSet(Weight, Group(k))
                     /\ h[k] \in Int
    <2> HIDE DEF Group, h, K
    <2> QED
      BY <1>7, <1>8, SumIsWeight, SumOfRows
  <1>10. SumFunctionOnSet(h, K) = SumFunctionOnSet(Weight, rows)
    <2> HIDE DEF h, g
    <2>1. \A k \in {g[r] : r \in rows} :
            h[k] = SumFunctionOnSet(Weight, Grouped(rows, g, k))
      BY <1>9
    <2> HIDE DEF K, Group
    <2>2. SumFunctionOnSet(h, {g[r] : r \in rows}) = SumFunctionOnSet(Weight, rows)
      BY <1>3, <2>1, SumOfGroups
    <2> QED
      BY <2>2 DEF K
  <1>11. SumFunctionOnSet(f, {total[k] : k \in K}) = SumFunctionOnSet(h, K)
    <2> HIDE DEF K, total, h, f, Group
    <2>1. \A k, j \in K : total[k] = total[j] => k = j
      BY <1>6
    <2>2. \A k \in K : f[total[k]] = h[k] /\ h[k] \in Int
      BY <1>7, <1>9
    <2> QED
      BY <1>4, <2>1, <2>2, SumOfImages
  <1>12. Sum(rows) = SumFunctionOnSet(Weight, rows)
    BY SumIsWeight
  <1> HIDE DEF f, X
  <1>13. Rates(Totals(rows, scope, groupby)) = SumFunctionOnSet(f, X)
    BY <1>1, <1>2
  <1>14. SumFunctionOnSet(f, X) = SumFunctionOnSet(h, K)
    BY <1>11 DEF X
  <1> HIDE DEF K, h
  <1> QED
    BY <1>10, <1>12, <1>13, <1>14

(* What a total is about: the hybrid driver does not look at the service.  *)
Looked(service) == IF driver = "hybrid" THEN All ELSE service

LEMMA TotalsAreSums ==
  ASSUME TypeOK, RowsOK, Finite, NEW begin, NEW end, NEW scope, NEW service,
         NEW groupby
  PROVE  Rates(GetTotal(begin, end, scope, service, groupby))
           = Sum(TimeFrame(begin, end, Project(scope), Looked(service)))
  <1> DEFINE rows == TimeFrame(begin, end, Project(scope), Looked(service))
             gb == StorageGroupby(groupby)
  <1>1. rows \in SUBSET Priced
    BY FrameIsPriced
  <1>2. CASE driver = "hybrid" \/ gb # {}
    <2>1. GetTotal(begin, end, scope, service, groupby)
            = Totals(rows, Project(scope), gb)
      BY <1>2 DEF GetTotal, GnocchiTotal, SqlTotal, Looked
    <2> HIDE DEF rows, gb
    <2>2. Rates(Totals(rows, Project(scope), gb)) = Sum(rows)
      BY <1>1, GroupsAddUp
    <2>3. Rates(GetTotal(begin, end, scope, service, groupby))
            = Rates(Totals(rows, Project(scope), gb))
      BY <2>1
    <2>4. Rates(GetTotal(begin, end, scope, service, groupby)) = Sum(rows)
      BY <2>2, <2>3
    <2> QED
      BY <2>4 DEF rows
  <1>3. CASE driver # "hybrid" /\ gb = {}
    <2> DEFINE x == [scope |-> Project(scope), service |-> All, rate |-> Sum(rows)]
               f == [y \in {x} |-> y.rate]
    <2>1. GetTotal(begin, end, scope, service, groupby) = {x}
      BY <1>3 DEF GetTotal, SqlTotal, Looked
    <2>2. Rates({x}) = SumFunctionOnSet(f, {x})
      BY DEF Rates, SumFunction
    <2>3. f[x] = Sum(rows) /\ Sum(rows) \in Int
      BY <1>1, SumOfRows
    <2> HIDE DEF rows, f, x
    <2>4. SumFunctionOnSet(f, {x}) = Sum(rows)
      <3>1. IsFiniteSet({}) /\ x \notin {} /\ \A y \in {} \cup {x} : f[y] \in Int
        BY <2>3, FS_EmptySet
      <3>2. SumFunctionOnSet(f, {} \cup {x}) = f[x] + SumFunctionOnSet(f, {})
        BY <3>1, SumWith
      <3>3. {} \cup {x} = {x} /\ SumFunctionOnSet(f, {}) = 0
        BY SumOfNone
      <3>4. SumFunctionOnSet(f, {} \cup {x}) = SumFunctionOnSet(f, {x})
        BY <3>3
      <3> QED
        BY <2>3, <3>2, <3>3, <3>4
    <2>5. Rates(GetTotal(begin, end, scope, service, groupby)) = Rates({x})
      BY <2>1
    <2>6. Rates(GetTotal(begin, end, scope, service, groupby)) = Sum(rows)
      BY <2>2, <2>4, <2>5
    <2> QED
      BY <2>6 DEF rows
  <1> QED
    BY <1>2, <1>3

LEMMA TotalIsSum ==
  ASSUME TypeOK, RowsOK, Finite, NEW begin, NEW end, NEW scope, NEW service
  PROVE  /\ Total(begin, end, scope, service)
              = Sum(TimeFrame(begin, end, Project(scope), Looked(service)))
         /\ \A groupby : Rates(Summary(begin, end, scope, service, groupby))
                           = Total(begin, end, scope, service)
  <1>1. Total(begin, end, scope, service)
          = Sum(TimeFrame(begin, end, Project(scope), Looked(service)))
    BY TotalsAreSums DEF Total
  <1>2. ASSUME NEW groupby
        PROVE  Rates(Summary(begin, end, scope, service, groupby))
                 = Total(begin, end, scope, service)
    <2> DEFINE gb == {IF elem = "tenant_id" THEN ScopeKey ELSE "type" : elem \in groupby}
    <2>1. Summary(begin, end, scope, service, groupby)
            = GetTotal(begin, end, scope, service, gb)
      BY DEF Summary
    <2> HIDE DEF gb
    <2>2. Rates(GetTotal(begin, end, scope, service, gb))
            = Sum(TimeFrame(begin, end, Project(scope), Looked(service)))
      BY TotalsAreSums
    <2> QED
      BY <1>1, <2>1, <2>2
  <1> QED
    BY <1>1, <1>2

(* Two ranges that meet share no row, and leave none out.                  *)
LEMMA RangesAddUp ==
  ASSUME TypeOK, RowsOK, Finite, NEW middle \in 1..MaxPeriod, NEW scope, NEW service
  PROVE  Total(0, MaxPeriod + 1, scope, service)
           = Total(0, middle, scope, service)
             + Total(middle, MaxPeriod + 1, scope, service)
  <1> DEFINE of == Project(scope)
             to == Looked(service)
             all == TimeFrame(0, MaxPeriod + 1, of, to)
             A == TimeFrame(0, middle, of, to)
             B == TimeFrame(middle, MaxPeriod + 1, of, to)
  <1>1. /\ Total(0, MaxPeriod + 1, scope, service) = Sum(all)
        /\ Total(0, middle, scope, service) = Sum(A)
        /\ Total(middle, MaxPeriod + 1, scope, service) = Sum(B)
    BY TotalIsSum
  <1>2. all \in SUBSET Priced /\ A \in SUBSET Priced /\ B \in SUBSET Priced
    BY FrameIsPriced
  <1>3. \A r \in Priced : r.begin \in 0..MaxPeriod
    BY PricedRows DEF Periods
  <1>4. all = A \cup B /\ A \cap B = {}
    <2> HIDE DEF of, to
    <2>0. MaxPeriod \in Nat
      BY V1Assumption
    <2>1. \A r \in Priced :
            /\ Within(r, 0, MaxPeriod + 1)
            /\ Within(r, 0, middle) <=> r.begin < middle
            /\ Within(r, middle, MaxPeriod + 1) <=> middle <= r.begin
      BY <1>3, <2>0 DEF Within
    <2>2. \A r \in Priced : Within(r, 0, middle) <=> ~Within(r, middle, MaxPeriod + 1)
      BY <1>3, <2>0, <2>1
    <2>3. \A r \in all : r \in A \/ r \in B
      BY <1>2, <2>1, <2>2 DEF TimeFrame
    <2>4. \A r \in Priced : r \in A \/ r \in B => r \in all
      BY <2>1 DEF TimeFrame
    <2>5. \A r \in Priced : ~(r \in A /\ r \in B)
      BY <2>2 DEF TimeFrame
    <2> HIDE DEF all, A, B
    <2> QED
      BY <1>2, <2>3, <2>4, <2>5
  <1> HIDE DEF all, A, B
  <1>5. IsFiniteSet(Priced) /\ \A r \in Priced : Weight[r] \in Int
    BY PricedRows
  <1>6. SumFunctionOnSet(Weight, A \cup B)
          = SumFunctionOnSet(Weight, A) + SumFunctionOnSet(Weight, B)
    BY <1>2, <1>4, <1>5, SumOfParts
  <1>7. Sum(all) = Sum(A \cup B)
    BY <1>4
  <1>8. A \cup B \in SUBSET Priced
    BY <1>2
  <1>9. /\ Sum(A \cup B) = SumFunctionOnSet(Weight, A \cup B)
        /\ Sum(A) = SumFunctionOnSet(Weight, A)
        /\ Sum(B) = SumFunctionOnSet(Weight, B)
    BY <1>2, <1>8, SumIsWeight
  <1> QED
    BY <1>1, <1>6, <1>7, <1>9

(* The frame of a row bears its price, and its scope or no tenant.         *)
LEMMA RowsAreListed ==
  ASSUME TypeOK, RowsOK, Finite, driver # "hybrid",
         NEW begin, NEW end, NEW scope, NEW service,
         GetAll(begin, end, scope, service) # Failure
  PROVE  LET rows == TimeFrame(begin, end, Project(scope), service)
             frames == GetAll(begin, end, scope, service)
         IN  /\ DOMAIN frames = rows
             /\ \A r \in rows : /\ frames[r].rating = Price(r)
                                /\ frames[r].tenant \in {r.scope, Undef}
  <1> DEFINE rows == TimeFrame(begin, end, Project(scope), service)
             read == Retrieve(begin, end, scope, service)
             frames == GetAll(begin, end, scope, service)
             dicts == [r \in rows |-> ToCloudkitty(r)]
             Tenant(r) == LET desc == Desc(read[r])
                          IN  IF ScopeKey \in DOMAIN desc THEN desc[ScopeKey] ELSE Undef
  <1>1. \A r \in rows : Valid(ToCloudkitty(r))
    BY DEF Valid, ToCloudkitty
  <1>2. read = DataFrames(dicts)
    BY DEF Retrieve
  <1>3. DOMAIN dicts = rows /\ \A r \in rows : dicts[r] = ToCloudkitty(r)
    OBVIOUS
  <1> HIDE DEF dicts, rows
  <1>4. DataFrames(dicts) = [r \in rows |-> FromDict(dicts[r])]
    BY <1>1, <1>3 DEF DataFrames
  <1>5. DOMAIN read = rows /\ \A r \in rows : read[r] = FromDict(ToCloudkitty(r))
    BY <1>2, <1>3, <1>4
  <1>6. frames = [r \in DOMAIN read |-> [rating |-> read[r].price, tenant |-> Tenant(r)]]
    <2>1. read # Failure
      BY DEF GetAll
    <2> QED
      BY <2>1 DEF GetAll
  <1> HIDE DEF frames, read
  <1>7. \A r \in rows : read[r].price = Price(r)
    <2>1. \A r \in rows : ToCloudkitty(r).price = Price(r)
      BY DEF ToCloudkitty
    <2> QED
      BY <1>5, <2>1 DEF FromDict
  <1>8. ASSUME NEW r \in rows PROVE Tenant(r) \in {r.scope, Undef}
    <2> DEFINE point == Usage[<<r.scope, r.of>>][r.point]
               own == [tenant_id |-> r.scope]
               desc == Joined(own, Desc(point))
    <2>1. r \in Priced
      BY FrameIsPriced DEF rows
    <2>2. \A part \in {point.groupby, point.metadata} :
            ScopeKey \in DOMAIN part => part[ScopeKey] = r.scope
      BY <2>1, PricedRows, V1Assumption DEF Used
    <2>3. ScopeKey \in DOMAIN Desc(point) => Desc(point)[ScopeKey] = r.scope
      BY <2>2 DEF Desc, Joined
    <2>4. DOMAIN own = {"tenant_id"} /\ own["tenant_id"] = r.scope
      OBVIOUS
    <2> HIDE DEF own, point
    <2>5. ScopeKey \in DOMAIN desc => desc[ScopeKey] = r.scope
      BY <2>3, <2>4 DEF Joined
    <2>6. read[r].groupby = desc /\ read[r].metadata = <<>>
      BY <1>5 DEF FromDict, ToCloudkitty, own, point
    <2> HIDE DEF desc
    <2>7. ScopeKey \in DOMAIN Desc(read[r]) => Desc(read[r])[ScopeKey] = r.scope
      <3>1. Desc(read[r]) = Joined(desc, <<>>)
        BY <2>6 DEF Desc
      <3>2. DOMAIN Joined(desc, <<>>) = DOMAIN desc
            /\ \A x \in DOMAIN desc : Joined(desc, <<>>)[x] = desc[x]
        BY DEF Joined
      <3> QED
        BY <2>5, <3>1, <3>2
    <2> QED
      BY <2>7
  <1> HIDE DEF Tenant
  <1>9. DOMAIN frames = rows
        /\ \A r \in rows : frames[r] = [rating |-> read[r].price, tenant |-> Tenant(r)]
    BY <1>5, <1>6
  <1>10. \A r \in rows : /\ frames[r].rating = Price(r)
                         /\ frames[r].tenant \in {r.scope, Undef}
    BY <1>7, <1>8, <1>9
  <1> QED
    BY <1>9, <1>10 DEF rows, frames

(* A measure cannot be listed: its frame has a field more.                 *)
LEMMA NoMeasureIsListed ==
  ASSUME driver = "hybrid", NEW begin, NEW end, NEW scope, NEW service,
         GetAll(begin, end, scope, service) # Failure
  PROVE  /\ TimeFrame(begin, end, Project(scope), service) = {}
         /\ DOMAIN GetAll(begin, end, scope, service) = {}
  <1> DEFINE rows == TimeFrame(begin, end, Project(scope), service)
             read == Retrieve(begin, end, scope, service)
             info == ResourceInfo(rows, Project(scope))
  <1>1. read = DataFrames(info) /\ read # Failure
    BY DEF Retrieve, GetAll
  <1>2. DOMAIN info = rows /\ \A r \in rows : info[r] = FormatFrame(r, Project(scope))
    BY DEF ResourceInfo
  <1>3. \A r \in rows : ~Valid(info[r])
    <2>1. \A r \in rows : "tenant_id" \in DOMAIN info[r]
      BY <1>2 DEF FormatFrame
    <2> QED
      BY <2>1 DEF Valid
  <1>4. GetAll(begin, end, scope, service) =
          [r \in DOMAIN read |->
             LET desc == Desc(read[r])
             IN  [rating |-> read[r].price,
                  tenant |-> IF ScopeKey \in DOMAIN desc THEN desc[ScopeKey]
                             ELSE Undef]]
    BY <1>1 DEF GetAll
  <1> HIDE DEF info, rows, read
  <1>5. rows = {} /\ DOMAIN read = rows
    BY <1>1, <1>2, <1>3 DEF DataFrames
  <1>6. DOMAIN GetAll(begin, end, scope, service) = DOMAIN read
    BY <1>4
  <1> QED
    BY <1>5, <1>6 DEF rows

LEMMA ListsAddUp ==
  ASSUME TypeOK, RowsOK, Finite, NEW begin, NEW end, NEW scope, NEW service,
         GetAll(begin, end, scope, service) # Failure,
         driver = "hybrid" => service = All
  PROVE  LET frames == GetAll(begin, end, scope, service)
         IN  /\ Total(begin, end, scope, service)
                  = SumFunction([r \in DOMAIN frames |-> frames[r].rating * table[r]])
             /\ \A r \in DOMAIN frames : frames[r].tenant \in {r.scope, Undef}
  <1> DEFINE rows == TimeFrame(begin, end, Project(scope), service)
             frames == GetAll(begin, end, scope, service)
             f == [r \in DOMAIN frames |-> frames[r].rating * table[r]]
             g == [r \in rows |-> Price(r) * table[r]]
  <1>1. Total(begin, end, scope, service) = Sum(rows)
    <2>1. Looked(service) = service
      BY DEF Looked
    <2> QED
      BY <2>1, TotalIsSum
  <1>2. Sum(rows) = SumFunction(g)
    BY DEF Sum
  <1>3. /\ DOMAIN frames = rows
        /\ \A r \in rows : /\ frames[r].rating = Price(r)
                           /\ frames[r].tenant \in {r.scope, Undef}
    <2>1. CASE driver = "hybrid"
      BY <2>1, NoMeasureIsListed
    <2>2. CASE driver # "hybrid"
      <3> HIDE DEF rows, frames
      <3> QED
        BY <2>2, RowsAreListed DEF rows, frames
    <2> QED
      BY <2>1, <2>2
  <1> HIDE DEF rows, frames
  <1>4. f = g
    BY <1>3
  <1> HIDE DEF f, g
  <1>5. SumFunction(f) = SumFunction(g)
    BY <1>4
  <1>6. Total(begin, end, scope, service) = SumFunction(f)
    BY <1>1, <1>2, <1>5
  <1> QED
    BY <1>3, <1>6 DEF f, frames

(* A total that is not nothing is of a row of the project.                 *)
LEMMA TotalHasTenant ==
  ASSUME TypeOK, RowsOK, Finite, ScopeKey = "project_id", NEW begin, NEW end,
         NEW scope, scope # All, NEW service, Total(begin, end, scope, service) > 0
  PROVE  scope \in Tenants(begin, end)
  <1> DEFINE rows == TimeFrame(begin, end, Project(scope), Looked(service))
  <1>1. Total(begin, end, scope, service) = Sum(rows)
    BY TotalIsSum
  <1>2. Sum({}) = 0
    BY SumOfRows
  <1>3. rows # {}
    <2> HIDE DEF rows
    <2> SUFFICES ASSUME rows = {} PROVE FALSE
      OBVIOUS
    <2>1. Sum(rows) = Sum({})
      OBVIOUS
    <2> QED
      BY <1>1, <1>2, <2>1
  <1>4. PICK r \in rows : TRUE
    BY <1>3
  <1>5. r \in DOMAIN table /\ Within(r, begin, end) /\ Owner(r) = scope
    BY DEF TimeFrame, Project
  <1> QED
    BY <1>5 DEF Tenants

LEMMA SoundTotalsAgree ==
  TypeOK /\ RowsOK /\ Finite /\ ScopeKey = "project_id" => TotalsAgree
  <1> SUFFICES ASSUME TypeOK, RowsOK, Finite, ScopeKey = "project_id",
                      NEW scope \in Scopes \cup {All},
                      NEW service \in Services \cup {All}
               PROVE  LET end == MaxPeriod + 1
                          total == Total(0, end, scope, service)
                      IN  /\ \A middle \in 1..MaxPeriod :
                               total = Total(0, middle, scope, service)
                                       + Total(middle, end, scope, service)
                          /\ \A groupby \in {{}, {"res_type"}, {"tenant_id", "res_type"}} :
                               total = Rates(Summary(0, end, scope, service, groupby))
                          /\ LET frames == GetAll(0, end, scope, service)
                             IN  frames # Failure /\ (driver = "hybrid" => service = All) =>
                                   /\ total = SumFunction([r \in DOMAIN frames |->
                                                            frames[r].rating * table[r]])
                                   /\ \A r \in DOMAIN frames :
                                        frames[r].tenant \in {r.scope, Undef}
                          /\ total > 0 /\ scope # All => scope \in Tenants(0, end)
    BY DEF TotalsAgree
  <1> DEFINE end == MaxPeriod + 1
             total == Total(0, end, scope, service)
             frames == GetAll(0, end, scope, service)
  <1>1. \A middle \in 1..MaxPeriod :
          total = Total(0, middle, scope, service) + Total(middle, end, scope, service)
    BY RangesAddUp
  <1>2. \A groupby : total = Rates(Summary(0, end, scope, service, groupby))
    BY TotalIsSum
  <1>3. frames # Failure /\ (driver = "hybrid" => service = All) =>
          /\ total = SumFunction([r \in DOMAIN frames |-> frames[r].rating * table[r]])
          /\ \A r \in DOMAIN frames : frames[r].tenant \in {r.scope, Undef}
    <2> HIDE DEF end
    <2> QED
      BY ListsAddUp
  <1>4. total > 0 /\ scope # All => scope \in Tenants(0, end)
    <2> HIDE DEF end
    <2> QED
      BY TotalHasTenant
  <1> HIDE DEF end, total, frames
  <1> QED
    BY <1>1, <1>2, <1>3, <1>4 DEF end, total, frames

(* Whatever has failed on the way, reports by version 1 agree with each    *)
(* other: a total is that of two ranges that meet, of its groups, and of   *)
(* the points listed, and who has one is listed, if scopes are projects.   *)
THEOREM ReportsAgree ==
  ASSUME ScopeKey = "project_id"
  PROVE  Spec => []TotalsAgree
  <1>1. Init => LostInv /\ Finite
    BY LostInit, FiniteInit
  <1>2. (LostInv /\ Finite) /\ [Next]_vars => (LostInv /\ Finite)'
    BY LostStep, FiniteStep
  <1>3. LostInv /\ Finite => TotalsAgree
    BY SoundTotalsAgree DEF LostInv
  <1> QED
    BY <1>1, <1>2, <1>3, PTL DEF Spec
=============================================================================
