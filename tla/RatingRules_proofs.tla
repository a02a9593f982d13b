-------------------------- MODULE RatingRules_proofs --------------------------
(***************************************************************************)
(* Proofs about RatingRules, for any callers, targets, groups and costs    *)
(* and any number of requests.                                             *)
(***************************************************************************)
EXTENDS RatingRules, TLAPS

Request == Creation \cup Ending \cup Editing \cup {None}

-----------------------------------------------------------------------------
(***************************************************************************)
(* Types.                                                                  *)
(***************************************************************************)
(* The operation of a request tells its fields.                            *)
LEMMA RequestFields ==
  ASSUME NEW q \in Request
  PROVE  /\ q.op = "create" => q \in Creation
         /\ q.op = "end" => q \in Ending
         /\ q.op = "edit" => q \in Editing
  BY DEF Request, Creation, Ending, Editing, None

LEMMA TypeInit == Init => TypeOK
  <1> SUFFICES ASSUME Init PROVE TypeOK
    OBVIOUS
  <1> USE RatingRulesAssumption
  <1>1. Rows = {}
    BY DEF Init, Rows
  <1>2. how \in Seq(SUBSET {"open", "forced", "edited"})
    BY DEF Init
  <1> QED
    BY <1>1, <1>2 DEF Init, TypeOK, Times

LEMMA InsertTypes ==
  ASSUME TypeOK, NEW c \in Callers, Insert(c)
  PROVE  /\ Rows' \subseteq 1..Len(how')
         /\ \A i \in Rows' : rules'[i] \in Rule
         /\ how' \in Seq(SUBSET {"open", "forced", "edited"})
         /\ req' \in [Callers -> Request]
  <1> DEFINE q == req[c]
             i == Len(how) + 1
  <1>1. q \in Creation
    BY RequestFields DEF TypeOK, Request, Insert
  <1>2. StartOf(q) \in Times
    BY <1>1 DEF StartOf, TypeOK, Creation
  <1>3. NewRule(q, StartOf(q)) \in Rule
    BY <1>1, <1>2 DEF NewRule, Creation, Rule
  <1>4. Rows' = Rows \cup {i} /\ rules'[i] = NewRule(q, StartOf(q))
    BY DEF Insert, Rows
  <1>5. \A j \in Rows : j # i
    BY DEF TypeOK
  <1>6. \A j \in Rows : rules'[j] = rules[j]
    BY <1>5 DEF Insert, Rows
  <1>7. how' = Append(how, Excuses(q)) /\ Excuses(q) \subseteq {"open", "forced", "edited"}
    BY DEF Insert, Excuses
  <1>8. Len(how') = i /\ how' \in Seq(SUBSET {"open", "forced", "edited"})
    BY <1>7 DEF TypeOK
  <1>9. req' \in [Callers -> Request]
    BY DEF Insert, TypeOK, Request
  <1>10. Rows' \subseteq 1..i
    <2>1. Len(how) \in Nat /\ Rows \subseteq 1..Len(how)
      BY DEF TypeOK
    <2>2. \A n \in Nat : 1..n \subseteq 1..(n + 1) /\ n + 1 \in 1..(n + 1)
      OBVIOUS
    <2>3. 1..Len(how) \subseteq 1..i /\ i \in 1..i
      BY <2>1, <2>2
    <2> HIDE DEF i
    <2> QED
      BY <1>4, <2>1, <2>3
  <1>11. \A j \in Rows' : rules'[j] \in Rule
    BY <1>3, <1>4, <1>6 DEF TypeOK
  <1> QED
    BY <1>8, <1>9, <1>10, <1>11

LEMMA UpdateTypes ==
  ASSUME TypeOK, NEW c \in Callers, Update(c)
  PROVE  /\ Rows' = Rows /\ Len(how') = Len(how)
         /\ \A i \in Rows : rules'[i] \in Rule
         /\ how' \in Seq(SUBSET {"open", "forced", "edited"})
         /\ req' \in [Callers -> Request]
  <1> DEFINE q == req[c]
  <1>1. q \in Request
    BY DEF TypeOK, Request
  <1>2. q.id \in Rows /\ rules[q.id] \in Rule
    BY DEF Update, TypeOK
  <1>3. Rows' = Rows /\ \A i \in Rows \ {q.id} : rules'[i] = rules[i]
    BY DEF Update, Rows
  <1>4. rules'[q.id] \in Rule
    <2>1. CASE q.op = "end"
      <3>1. q.end \in Ends
        BY <1>1, <2>1, RequestFields DEF Ending
      <3>2. rules'[q.id] = [rules[q.id] EXCEPT !.end = q.end]
        BY <1>2, <2>1 DEF Update, Rows
      <3> QED
        BY <1>2, <3>1, <3>2 DEF Rule
    <2>2. CASE q.op = "edit"
      <3>1. q.cost \in Costs /\ q.start \in Times /\ q.end \in Ends
        BY <1>1, <2>2, RequestFields DEF Editing
      <3>2. rules'[q.id] = [rules[q.id] EXCEPT !.cost = q.cost,
                              !.start = q.start, !.end = q.end]
        BY <1>2, <2>2 DEF Update, Rows
      <3> QED
        BY <1>2, <3>1, <3>2 DEF Rule
    <2> QED
      BY <2>1, <2>2 DEF Update
  <1>5. how' \in Seq(SUBSET {"open", "forced", "edited"}) /\ Len(how') = Len(how)
    <2>1. how' = [how EXCEPT ![q.id] = @ \cup {"edited"}] /\ q.id \in 1..Len(how)
      BY <1>2 DEF Update, TypeOK
    <2> QED
      BY <2>1 DEF TypeOK
  <1>6. req' \in [Callers -> Request]
    BY DEF Update, TypeOK, Request
  <1> QED
    BY <1>3, <1>4, <1>5, <1>6 DEF TypeOK

LEMMA DeletionTypes ==
  ASSUME TypeOK,
         \/ \E i \in Rows : Delete(i)
         \/ \E g \in Groups, recurse \in BOOLEAN : DeleteGroup(g, recurse)
         \/ \E k \in Keys : DeleteParent(k)
  PROVE  /\ Rows' \subseteq Rows /\ Len(how') = Len(how)
         /\ \A i \in Rows' : rules'[i] \in Rule
         /\ how' \in Seq(SUBSET {"open", "forced", "edited"})
         /\ exists' \subseteq exists
  <1>1. ASSUME NEW i \in Rows, Delete(i)
        PROVE  /\ Rows' \subseteq Rows /\ how' = how /\ exists' = exists
               /\ \A j \in Rows' : rules'[j] \in Rule
    BY <1>1 DEF Delete, TypeOK, Rule, Rows
  <1>2. ASSUME NEW g \in Groups, DeleteGroup(g, TRUE)
        PROVE  /\ Rows' \subseteq Rows /\ how' = how /\ exists' \subseteq exists
               /\ \A j \in Rows' : rules'[j] \in Rule
    BY <1>2 DEF DeleteGroup, TypeOK, Rows
  <1>3. ASSUME NEW g \in Groups, DeleteGroup(g, FALSE)
        PROVE  /\ Rows' \subseteq Rows /\ Len(how') = Len(how)
               /\ \A j \in Rows' : rules'[j] \in Rule
               /\ how' \in Seq(SUBSET {"open", "forced", "edited"})
               /\ exists' \subseteq exists
    <2> DEFINE new(r) == IF r.group = g THEN [r EXCEPT !.group = NoGroup] ELSE r
    <2>a. rules' = [j \in Rows |-> new(rules[j])]
      BY <1>3 DEF DeleteGroup
    <2>b. \A r \in Rule : new(r) \in Rule
      BY DEF Rule
    <2>1. Rows' = Rows /\ \A j \in Rows' : rules'[j] \in Rule
      <3> HIDE DEF new
      <3> QED
        BY <2>a, <2>b DEF TypeOK, Rows
    <2>2. how' = [i \in 1..Len(how) |->
                    IF i \in Rows /\ rules[i].group = g
                    THEN how[i] \cup {"edited"} ELSE how[i]]
      BY <1>3 DEF DeleteGroup, TypeOK
    <2>3. \A i \in 1..Len(how) : how[i] \subseteq {"open", "forced", "edited"}
      BY DEF TypeOK
    <2>4. how' \in [1..Len(how) -> SUBSET {"open", "forced", "edited"}]
      BY <2>2, <2>3
    <2>5. how' \in Seq(SUBSET {"open", "forced", "edited"}) /\ Len(how') = Len(how)
      BY <2>4 DEF TypeOK
    <2> QED
      BY <1>3, <2>1, <2>5 DEF DeleteGroup
  <1>4. ASSUME NEW k \in Keys, DeleteParent(k)
        PROVE  /\ Rows' \subseteq Rows /\ how' = how /\ exists' \subseteq exists
               /\ \A j \in Rows' : rules'[j] \in Rule
    BY <1>4 DEF DeleteParent, TypeOK, Rows
  <1> QED
    BY <1>1, <1>2, <1>3, <1>4 DEF TypeOK

(* What a PUT may ask of an existing rule, and a POST of the API, are      *)
(* requests.                                                               *)
LEMMA ValidationTypes ==
  ASSUME TypeOK, NEW c \in Callers,
         \/ \E k \in Keys, g \in Groups \cup {NoGroup}, cost \in Costs,
               start \in Times \cup {Unset}, end \in Ends, force \in BOOLEAN :
              ValidateCreation(c, k, g, cost, start, end, force)
         \/ \E i \in Rows, end \in Ends : ValidateEnding(c, i, end)
         \/ \E i \in Rows, cost \in Costs, start \in Times, end \in Ends :
              ValidateEditing(c, i, cost, start, end)
  PROVE  /\ req' \in [Callers -> Request]
         /\ UNCHANGED <<now, exists, rules, how>>
  <1>1. Rows \subseteq Nat
    BY DEF TypeOK
  <1>2. ASSUME NEW k \in Keys, NEW g \in Groups \cup {NoGroup},
               NEW cost \in Costs, NEW start \in Times \cup {Unset},
               NEW end \in Ends, NEW force \in BOOLEAN,
               ValidateCreation(c, k, g, cost, start, end, force)
        PROVE  req' \in [Callers -> Request] /\ UNCHANGED <<now, exists, rules, how>>
    BY <1>2 DEF ValidateCreation, TypeOK, Request, Creation
  <1>3. ASSUME NEW i \in Rows, NEW end \in Ends, ValidateEnding(c, i, end)
        PROVE  req' \in [Callers -> Request] /\ UNCHANGED <<now, exists, rules, how>>
    BY <1>1, <1>3 DEF ValidateEnding, TypeOK, Request, Ending
  <1>4. ASSUME NEW i \in Rows, NEW cost \in Costs, NEW start \in Times,
               NEW end \in Ends, ValidateEditing(c, i, cost, start, end)
        PROVE  req' \in [Callers -> Request] /\ UNCHANGED <<now, exists, rules, how>>
    BY <1>1, <1>4 DEF ValidateEditing, TypeOK, Request, Editing
  <1> QED
    BY <1>2, <1>3, <1>4

LEMMA SpentType ==
  ASSUME TypeOK, Next
  PROVE  spent' \in Nat
  <1>1. spent' \in {spent, spent + 1}
    <2>1. CASE Tick
      BY <2>1 DEF Tick
    <2>2. ASSUME NEW c \in Callers, CallerStep(c)
          PROVE  spent' \in {spent, spent + 1}
      BY <2>2 DEF CallerStep, ValidateCreation, ValidateEnding,
                  ValidateEditing, Insert, RefuseInsert, Update,
                  RefuseUpdate, Arrive
    <2>3. CASE \E i \in Rows : Delete(i)
      BY <2>3 DEF Delete, Arrive
    <2>4. CASE \E g \in Groups, recurse \in BOOLEAN : DeleteGroup(g, recurse)
      BY <2>4 DEF DeleteGroup, Arrive
    <2>5. CASE \E k \in Keys : DeleteParent(k)
      BY <2>5 DEF DeleteParent, Arrive
    <2> QED
      BY <2>1, <2>2, <2>3, <2>4, <2>5 DEF Next, Step
  <1> QED
    BY <1>1 DEF TypeOK

(* The steps that touch no rule, and what else they may change.            *)
LEMMA IdleTypes ==
  ASSUME TypeOK,
         Tick \/ \E c \in Callers : RefuseInsert(c) \/ RefuseUpdate(c)
  PROVE  /\ UNCHANGED <<exists, rules, how>>
         /\ now' \in Times /\ req' \in [Callers -> Request]
  BY RatingRulesAssumption
     DEF TypeOK, Tick, RefuseInsert, RefuseUpdate, Request, Times

LEMMA TypeNext == TypeOK /\ [Next]_vars => TypeOK'
  <1> SUFFICES ASSUME TypeOK, [Next]_vars PROVE TypeOK'
    OBVIOUS
  <1> DEFINE Rest == /\ exists' \subseteq Keys \cup Groups
                     /\ how' \in Seq(SUBSET {"open", "forced", "edited"})
                     /\ Rows' \subseteq 1..Len(how')
                     /\ \A i \in Rows' : rules'[i] \in Rule
                     /\ req' \in [Callers -> Request]
                     /\ now' \in Times
  <1>1. CASE UNCHANGED vars
    BY <1>1 DEF vars, TypeOK, Rows
  <1>2. CASE Next
    <2>1. ASSUME NEW c \in Callers, Insert(c) PROVE Rest
      <3>1. UNCHANGED <<now, exists>>
        BY <2>1 DEF Insert
      <3> QED
        BY <2>1, <3>1, InsertTypes DEF TypeOK
    <2>2. ASSUME NEW c \in Callers, Update(c) PROVE Rest
      <3>1. UNCHANGED <<now, exists>>
        BY <2>2 DEF Update
      <3>2. /\ Rows' = Rows /\ Len(how') = Len(how)
            /\ \A i \in Rows : rules'[i] \in Rule
            /\ how' \in Seq(SUBSET {"open", "forced", "edited"})
            /\ req' \in [Callers -> Request]
        BY <2>2, UpdateTypes
      <3> QED
        BY <3>1, <3>2 DEF TypeOK
    <2>3. ASSUME \/ \E i \in Rows : Delete(i)
                 \/ \E g \in Groups, recurse \in BOOLEAN : DeleteGroup(g, recurse)
                 \/ \E k \in Keys : DeleteParent(k)
          PROVE  Rest
      <3>1. UNCHANGED <<now, req>>
        BY <2>3 DEF Delete, DeleteGroup, DeleteParent
      <3>2. /\ Rows' \subseteq Rows /\ Len(how') = Len(how)
            /\ \A i \in Rows' : rules'[i] \in Rule
            /\ how' \in Seq(SUBSET {"open", "forced", "edited"})
            /\ exists' \subseteq exists
        BY <2>3, DeletionTypes
      <3> QED
        BY <3>1, <3>2 DEF TypeOK, Request
    <2>4. ASSUME UNCHANGED <<exists, rules, how>>, now' \in Times,
                 req' \in [Callers -> Request]
          PROVE  Rest
      BY <2>4 DEF TypeOK, Rows
    <2>5. ASSUME Tick \/ \E c \in Callers : RefuseInsert(c) \/ RefuseUpdate(c)
          PROVE  Rest
      <3>1. /\ UNCHANGED <<exists, rules, how>>
            /\ now' \in Times /\ req' \in [Callers -> Request]
        BY <2>5, IdleTypes
      <3> QED
        BY <2>4, <3>1
    <2>6. ASSUME NEW c \in Callers, CallerStep(c),
                 ~Insert(c), ~Update(c), ~RefuseInsert(c), ~RefuseUpdate(c)
          PROVE  Rest
      <3>1. req' \in [Callers -> Request] /\ UNCHANGED <<now, exists, rules, how>>
        BY <2>6, ValidationTypes DEF CallerStep
      <3> QED
        BY <2>4, <3>1 DEF TypeOK
    <2>7. Rest
      <3> HIDE DEF Rest
      <3> QED
        BY <1>2, <2>1, <2>2, <2>3, <2>5, <2>6 DEF Next, Step
    <2>8. quiet' \in Times
      BY <1>2, <2>7 DEF Next, TypeOK
    <2>9. spent' \in Nat
      BY <1>2, SpentType
    <2> QED
      BY <2>7, <2>8, <2>9 DEF TypeOK, Rows, Request
  <1> QED
    BY <1>1, <1>2

(* Every variable keeps its type.                                          *)
THEOREM TypeCorrect == Spec => []TypeOK
  BY TypeInit, TypeNext, PTL DEF Spec

-----------------------------------------------------------------------------
(***************************************************************************)
(* Overlaps.                                                               *)
(***************************************************************************)
(* What holds of two rules is disturbed neither by removing rows nor by    *)
(* what leaves a trace in a rule: a deletion or an update.                 *)
LEMMA ExplainedIfMarked ==
  ASSUME OverlapsAreExplained, Rows' \subseteq Rows,
         \A i \in Rows' : ~rules'[i].deleted /\ "edited" \notin how'[i]
           => rules'[i] = rules[i] /\ how'[i] = how[i]
  PROVE  OverlapsAreExplained'
  BY DEF OverlapsAreExplained

LEMMA ExplainedInsert ==
  ASSUME TypeOK, OverlapsAreExplained, NEW c \in Callers, Insert(c)
  PROVE  OverlapsAreExplained'
  <1> DEFINE q == req[c]
             n == Len(how) + 1
             start == StartOf(q)
             Explained(r, s, h) == \/ ~Overlap(r, s)
                                   \/ /\ "open" \in h /\ r.end # Forever
                                      /\ r.start <= s.start
  <1>1. q \in Creation
    BY RequestFields DEF TypeOK, Request, Insert
  <1>2. start \in Times
    BY <1>1 DEF StartOf, TypeOK, Creation
  <1>3. n \in Nat /\ \A j \in Rows : j \in Nat /\ j < n
    BY DEF TypeOK
  <1>4. /\ Rows' = Rows \cup {n} /\ rules'[n] = NewRule(q, start)
        /\ how' = Append(how, Excuses(q))
    BY DEF Insert, Rows
  <1>5. \A j \in Rows : rules'[j] = rules[j]
    BY <1>3 DEF Insert, Rows
  <1>6. how'[n] = Excuses(q) /\ \A j \in Rows : how'[j] = how[j]
    BY <1>4, <1>3 DEF TypeOK
  <1>7. ASSUME NEW j \in Rows, SameTarget(rules[j], NewRule(q, start)),
               ~rules[j].deleted
        PROVE  Explained(rules[j], NewRule(q, start), Excuses(q))
    <2>1. ~Meets(rules[j], start, q.end)
      BY <1>7 DEF Insert, Conflicts, SameTarget, NewRule
    <2>2. rules[j] \in Rule /\ q.end \in Ends
      BY <1>1 DEF TypeOK, Creation
    <2>3. NewRule(q, start).start = start /\ NewRule(q, start).end = q.end
      BY DEF NewRule
    <2>4. CASE q.end = Forever
      <3>1. "open" \in Excuses(q)
        BY <2>4 DEF Excuses
      <3>2. rules[j].end # Forever /\ rules[j].start <= start
        BY <1>2, <2>1, <2>2, <2>4, RatingRulesAssumption
           DEF Meets, Rule, Times
      <3> QED
        BY <2>3, <3>1, <3>2
    <2>5. CASE q.end # Forever
      <3>1. ~(rules[j].start < q.end /\ start < rules[j].end)
        BY <1>2, <2>1, <2>2, <2>5, RatingRulesAssumption
           DEF Meets, Rule, Times, Ends, Forever
      <3> QED
        BY <2>3, <3>1 DEF Overlap
    <2> QED
      BY <2>4, <2>5
  <1>8. SUFFICES ASSUME NEW i \in Rows', NEW j \in Rows', i < j,
                        SameTarget(rules'[i], rules'[j]),
                        ~rules'[i].deleted, ~rules'[j].deleted,
                        "edited" \notin how'[i] \cup how'[j]
                 PROVE  Explained(rules'[i], rules'[j], how'[j])
    BY DEF OverlapsAreExplained
  <1>9. i \in Rows
    BY <1>3, <1>4, <1>8
  <1>10. CASE j \in Rows
    <2> HIDE DEF n, q, start
    <2>1. /\ SameTarget(rules[i], rules[j]) /\ ~rules[i].deleted /\ ~rules[j].deleted
          /\ "edited" \notin how[i] \cup how[j] /\ rules'[i] = rules[i]
          /\ rules'[j] = rules[j] /\ how'[j] = how[j]
      BY <1>5, <1>6, <1>8, <1>9, <1>10
    <2> QED
      BY <1>8, <1>9, <1>10, <2>1 DEF OverlapsAreExplained
  <1>11. CASE j = n
    BY <1>4, <1>5, <1>6, <1>7, <1>8, <1>9, <1>11
  <1> QED
    BY <1>4, <1>10, <1>11

LEMMA ExplainedNext ==
  TypeOK /\ OverlapsAreExplained /\ [Next]_vars => OverlapsAreExplained'
  <1> SUFFICES ASSUME TypeOK, OverlapsAreExplained, [Next]_vars
               PROVE  OverlapsAreExplained'
    OBVIOUS
  <1> DEFINE Marked == /\ Rows' \subseteq Rows
                       /\ \A i \in Rows' :
                            ~rules'[i].deleted /\ "edited" \notin how'[i]
                              => rules'[i] = rules[i] /\ how'[i] = how[i]
  <1>0. Rows \subseteq DOMAIN how
    <2>1. DOMAIN how = 1..Len(how)
      BY DEF TypeOK
    <2> QED
      BY <2>1 DEF TypeOK
  <1>1. ASSUME UNCHANGED <<rules, how>> PROVE Marked
    BY <1>1 DEF Rows
  <1>2. ASSUME NEW c \in Callers, Update(c) PROVE Marked
    <2>1. Rows' = Rows /\ req[c].id \in Rows
      BY <1>2, UpdateTypes DEF Update
    <2>2. \A i \in Rows \ {req[c].id} : rules'[i] = rules[i]
      BY <1>2 DEF Update, Rows
    <2>3. req[c].id \in DOMAIN how
      BY <1>0, <2>1
    <2>4. how' = [how EXCEPT ![req[c].id] = @ \cup {"edited"}]
      BY <1>2 DEF Update
    <2>5. "edited" \in how'[req[c].id] /\ \A i \in Rows \ {req[c].id} : how'[i] = how[i]
      BY <2>3, <2>4 DEF TypeOK
    <2> QED
      BY <2>1, <2>2, <2>5
  <1>3. ASSUME NEW i \in Rows, Delete(i) PROVE Marked
    BY <1>3 DEF Delete, Rows, TypeOK, Rule
  <1>4. ASSUME NEW g \in Groups, NEW recurse \in BOOLEAN, DeleteGroup(g, recurse)
        PROVE  Marked
    <2>1. CASE recurse
      BY <1>4, <2>1 DEF DeleteGroup, Rows
    <2>2. CASE ~recurse
      <3>1. /\ Rows' = Rows
            /\ \A i \in Rows : rules[i].group # g => rules'[i] = rules[i]
        BY <1>4, <2>2 DEF DeleteGroup, Rows
      <3>2. \A i \in Rows : how'[i] = IF rules[i].group = g
                                      THEN how[i] \cup {"edited"} ELSE how[i]
        BY <1>0, <1>4, <2>2 DEF DeleteGroup
      <3> QED
        BY <3>1, <3>2
    <2> QED
      BY <2>1, <2>2
  <1>5. ASSUME NEW k \in Keys, DeleteParent(k) PROVE Marked
    BY <1>5 DEF DeleteParent, Rows
  <1>6. ASSUME NEW c \in Callers, CallerStep(c), ~Insert(c), ~Update(c)
        PROVE  UNCHANGED <<rules, how>>
    BY <1>6 DEF CallerStep, ValidateCreation, ValidateEnding,
                ValidateEditing, RefuseInsert, RefuseUpdate
  <1>7. ASSUME Tick PROVE UNCHANGED <<rules, how>>
    BY <1>7 DEF Tick
  <1>8. ASSUME UNCHANGED vars PROVE UNCHANGED <<rules, how>>
    BY <1>8 DEF vars
  <1>9. Marked \/ \E c \in Callers : Insert(c)
    <2> HIDE DEF Marked
    <2> QED
      BY <1>1, <1>2, <1>3, <1>4, <1>5, <1>6, <1>7, <1>8 DEF Next, Step
  <1> QED
    BY <1>9, ExplainedIfMarked, ExplainedInsert

(* Two rules for one target overlap only if one was updated, or the later  *)
(* one was created without an end and starts inside the earlier one.       *)
THEOREM ExplainedOverlaps == Spec => []OverlapsAreExplained
  <1>1. Init => OverlapsAreExplained
    BY DEF Init, OverlapsAreExplained, Rows
  <1>2. TypeOK /\ OverlapsAreExplained /\ [Next]_vars => OverlapsAreExplained'
    BY ExplainedNext
  <1> QED
    BY <1>1, <1>2, TypeCorrect, PTL DEF Spec

-----------------------------------------------------------------------------
(***************************************************************************)
(* The past stands.                                                        *)
(***************************************************************************)
(* What a validated write q still finds when it is carried out, since no   *)
(* write was last in progress: rows are the rules by their ids, last is    *)
(* the latest id.                                                          *)
Pending(q, rows, last, since) ==
  /\ q.op = "create" => q.force \/ q.start = Unset \/ q.start >= since
  /\ q.op = "end" =>
       /\ q.id \in 1..last /\ q.end >= since
       /\ q.id \in DOMAIN rows => rows[q.id].end >= since
  /\ q.op = "edit" =>
       /\ q.id \in 1..last /\ q.start >= since /\ q.end >= q.start
       /\ q.id \in DOMAIN rows => rows[q.id].start >= since

(* The inductive invariant: PastStands speaks of the instants before quiet,*)
(* and each write in progress was validated at quiet or later.             *)
PastInv ==
  /\ TypeOK
  /\ quiet <= now
  /\ (\A c \in Callers : req[c] = None) => quiet = now
  /\ \A c \in Callers : Pending(req[c], rules, Len(how), quiet)

(* What a step does to the rules as far as the past is concerned: ids are  *)
(* not reused, and no date that is not before quiet moves before it.       *)
DatesStand ==
  /\ Len(how) \in Nat /\ Len(how') \in Nat /\ Len(how) <= Len(how')
  /\ \A i \in Rows' : i \in 1..Len(how) => i \in Rows
  /\ \A i \in Rows' \cap Rows :
       /\ rules[i].end >= quiet => rules'[i].end >= quiet
       /\ rules[i].start >= quiet => rules'[i].start >= quiet

LEMMA PendingKept ==
  ASSUME NEW q, Pending(q, rules, Len(how), quiet), DatesStand
  PROVE  Pending(q, rules', Len(how'), quiet)
  <1>1. CASE q.op = "create"
    BY <1>1 DEF Pending
  <1>2. CASE q.op = "end"
    <2>1. q.id \in 1..Len(how) /\ q.end >= quiet
          /\ (q.id \in Rows => rules[q.id].end >= quiet)
      BY <1>2 DEF Pending, Rows
    <2>2. q.id \in 1..Len(how')
      BY <2>1 DEF DatesStand
    <2>3. q.id \in DOMAIN rules' => rules'[q.id].end >= quiet
      BY <2>1 DEF DatesStand, Rows
    <2> QED
      BY <1>2, <2>1, <2>2, <2>3 DEF Pending
  <1>3. CASE q.op = "edit"
    <2>1. q.id \in 1..Len(how) /\ q.start >= quiet /\ q.end >= q.start
          /\ (q.id \in Rows => rules[q.id].start >= quiet)
      BY <1>3 DEF Pending, Rows
    <2>2. q.id \in 1..Len(how')
      BY <2>1 DEF DatesStand
    <2>3. q.id \in DOMAIN rules' => rules'[q.id].start >= quiet
      BY <2>1 DEF DatesStand, Rows
    <2> QED
      BY <1>3, <2>1, <2>2, <2>3 DEF Pending
  <1> QED
    BY <1>1, <1>2, <1>3 DEF Pending

LEMMA DatesStandIfRestricted ==
  ASSUME TypeOK, Rows' \subseteq Rows, Len(how') = Len(how),
         \A i \in Rows' : rules'[i].start = rules[i].start
                          /\ rules'[i].end = rules[i].end
  PROVE  DatesStand
  <1>1. Len(how) \in Nat
    BY DEF TypeOK
  <1> QED
    BY <1>1 DEF DatesStand

LEMMA DatesStandInsert ==
  ASSUME TypeOK, NEW c \in Callers, Insert(c)
  PROVE  DatesStand
  <1>1. Len(how) \in Nat /\ Rows \subseteq 1..Len(how)
    BY DEF TypeOK
  <1>2. Len(how') = Len(how) + 1
    BY DEF Insert, TypeOK
  <1>3. Rows' = Rows \cup {Len(how) + 1} /\ Len(how) + 1 \notin 1..Len(how)
    BY <1>1 DEF Insert, Rows
  <1>4. \A j \in Rows : rules'[j] = rules[j]
    BY <1>1, <1>3 DEF Insert, Rows
  <1>5. Len(how') \in Nat /\ Len(how) <= Len(how')
    BY <1>1, <1>2
  <1>6. \A i \in Rows' : i \in 1..Len(how) => i \in Rows
    BY <1>3
  <1> QED
    BY <1>1, <1>4, <1>5, <1>6 DEF DatesStand

LEMMA DatesStandUpdate ==
  ASSUME PastInv, NEW c \in Callers, Update(c)
  PROVE  DatesStand
  <1> DEFINE q == req[c]
  <1>1. q \in Request /\ Pending(q, rules, Len(how), quiet)
    BY DEF PastInv, TypeOK, Request
  <1>2. q.id \in Rows /\ rules[q.id] \in Rule /\ quiet \in Int
    BY RatingRulesAssumption DEF Update, PastInv, TypeOK, Times
  <1>3. Rows' = Rows /\ Len(how') = Len(how) /\ Len(how) \in Nat
    <2>1. TypeOK
      BY DEF PastInv
    <2>2. Rows' = Rows /\ Len(how') = Len(how)
      BY <2>1, UpdateTypes
    <2>3. Len(how) \in Nat
      BY <2>1 DEF TypeOK
    <2> QED
      BY <2>2, <2>3
  <1>4. \A i \in Rows \ {q.id} : rules'[i] = rules[i]
    BY DEF Update, Rows
  <1>5. /\ rules[q.id].end >= quiet => rules'[q.id].end >= quiet
        /\ rules[q.id].start >= quiet => rules'[q.id].start >= quiet
    <2>1. CASE q.op = "end"
      <3>1. rules'[q.id] = [rules[q.id] EXCEPT !.end = q.end]
        BY <1>2, <2>1 DEF Update, Rows
      <3>2. rules'[q.id].start = rules[q.id].start /\ rules'[q.id].end = q.end
        BY <1>2, <3>1 DEF Rule
      <3> QED
        BY <1>1, <2>1, <3>2 DEF Pending
    <2>2. CASE q.op = "edit"
      <3>1. rules'[q.id] = [rules[q.id] EXCEPT !.cost = q.cost,
                              !.start = q.start, !.end = q.end]
        BY <1>2, <2>2 DEF Update, Rows
      <3>2. rules'[q.id].start = q.start /\ rules'[q.id].end = q.end
        BY <1>2, <3>1 DEF Rule
      <3>3. q.start \in Int /\ q.end \in Int
        BY <1>1, <2>2, RequestFields, RatingRulesAssumption
           DEF Editing, Times, Ends, Forever
      <3>4. q.start >= quiet /\ q.end >= q.start
        BY <1>1, <2>2 DEF Pending
      <3> QED
        BY <1>2, <3>2, <3>3, <3>4
    <2> QED
      BY <2>1, <2>2 DEF Update
  <1> QED
    BY <1>3, <1>4, <1>5 DEF DatesStand

LEMMA DatesStandNext ==
  ASSUME PastInv, Next
  PROVE  DatesStand
  <1>0. TypeOK
    BY DEF PastInv
  <1>1. ASSUME UNCHANGED <<rules, how>> PROVE DatesStand
    BY <1>0, <1>1, DatesStandIfRestricted DEF Rows
  <1>2. CASE Tick
    BY <1>1, <1>2 DEF Tick
  <1>3. ASSUME NEW c \in Callers, CallerStep(c) PROVE DatesStand
    <2>1. CASE Insert(c) \/ Update(c)
      BY <1>0, <2>1, DatesStandInsert, DatesStandUpdate
    <2>2. CASE ~Insert(c) /\ ~Update(c)
      <3>1. UNCHANGED <<rules, how>>
        BY <1>3, <2>2 DEF CallerStep, ValidateCreation, ValidateEnding,
                          ValidateEditing, RefuseInsert, RefuseUpdate
      <3> QED
        BY <1>1, <3>1
    <2> QED
      BY <2>1, <2>2
  <1>4. ASSUME NEW i \in Rows, Delete(i) PROVE DatesStand
    <2>1. Rows' = Rows /\ how' = how
          /\ \A j \in Rows : rules'[j].start = rules[j].start
                             /\ rules'[j].end = rules[j].end
      BY <1>0, <1>4 DEF Delete, Rows, TypeOK, Rule
    <2> QED
      BY <1>0, <2>1, DatesStandIfRestricted
  <1>5. ASSUME NEW g \in Groups, NEW recurse \in BOOLEAN, DeleteGroup(g, recurse)
        PROVE  DatesStand
    <2>1. Rows' \subseteq Rows /\ Len(how') = Len(how)
      BY <1>0, <1>5, DeletionTypes
    <2>2. \A j \in Rows' : rules'[j].start = rules[j].start
                           /\ rules'[j].end = rules[j].end
      <3>1. CASE recurse
        BY <1>5, <3>1 DEF DeleteGroup, Rows
      <3>2. CASE ~recurse
        <4>1. \A j \in Rows' : j \in Rows /\
                rules'[j] = IF rules[j].group = g
                            THEN [rules[j] EXCEPT !.group = NoGroup] ELSE rules[j]
          BY <1>5, <3>2 DEF DeleteGroup, Rows
        <4>2. \A j \in Rows : rules[j] \in Rule
          BY <1>0 DEF TypeOK
        <4> QED
          BY <4>1, <4>2 DEF Rule
      <3> QED
        BY <3>1, <3>2
    <2> QED
      BY <1>0, <2>1, <2>2, DatesStandIfRestricted
  <1>6. ASSUME NEW k \in Keys, DeleteParent(k) PROVE DatesStand
    <2>1. Rows' \subseteq Rows /\ how' = how
          /\ \A j \in Rows' : rules'[j] = rules[j]
      BY <1>6 DEF DeleteParent, Rows
    <2> QED
      BY <1>0, <2>1, DatesStandIfRestricted
  <1> QED
    BY <1>2, <1>3, <1>4, <1>5, <1>6 DEF Next, Step

(* A write that has just been validated is pending.                        *)
LEMMA PendingFresh ==
  ASSUME PastInv, NEW c \in Callers, CallerStep(c)
  PROVE  \/ req'[c] = None
         \/ Pending(req'[c], rules, Len(how), quiet)
  <1>1. /\ c \in DOMAIN req /\ Rows \subseteq 1..Len(how)
        /\ \A i \in Rows : rules[i] \in Rule
        /\ now \in Int /\ quiet \in Int /\ quiet <= now
        /\ now <= MaxTime /\ MaxTime \in Int
    BY RatingRulesAssumption DEF PastInv, TypeOK, Times
  <1>2. ASSUME NEW k \in Keys, NEW g \in Groups \cup {NoGroup},
               NEW cost \in Costs, NEW start \in Times \cup {Unset},
               NEW end \in Ends, NEW force \in BOOLEAN,
               ValidateCreation(c, k, g, cost, start, end, force)
        PROVE  Pending(req'[c], rules, Len(how), quiet)
    <2>1. req'[c] = [op |-> "create", key |-> k, group |-> g, cost |-> cost,
                     start |-> start, end |-> end, force |-> force]
      BY <1>1, <1>2 DEF ValidateCreation
    <2>2. force \/ start = Unset \/ start >= now
      BY <1>1, <1>2, RatingRulesAssumption
         DEF ValidateCreation, ValidStart, Times, Unset
    <2>3. force \/ start = Unset \/ start >= quiet
      BY <1>1, <2>2, RatingRulesAssumption DEF Times, Unset
    <2> QED
      BY <2>1, <2>3 DEF Pending
  <1>3. ASSUME NEW i \in Rows, NEW end \in Ends, ValidateEnding(c, i, end)
        PROVE  Pending(req'[c], rules, Len(how), quiet)
    <2>1. req'[c] = [op |-> "end", id |-> i, end |-> end]
      BY <1>1, <1>3 DEF ValidateEnding
    <2>2. rules[i].end = Forever /\ end >= now
      BY <1>3, RatingRulesAssumption
         DEF ValidateEnding, MayEnd, Ends, Times, Forever
    <2>3. end >= quiet /\ rules[i].end >= quiet
      BY <1>1, <2>2, RatingRulesAssumption DEF Ends, Times, Forever
    <2> QED
      BY <1>1, <2>1, <2>3 DEF Pending
  <1>4. ASSUME NEW i \in Rows, NEW cost \in Costs, NEW start \in Times,
               NEW end \in Ends, ValidateEditing(c, i, cost, start, end)
        PROVE  Pending(req'[c], rules, Len(how), quiet)
    <2>1. req'[c] = [op |-> "edit", id |-> i, cost |-> cost, start |-> start,
                     end |-> end]
      BY <1>1, <1>4 DEF ValidateEditing
    <2>2. start >= now
      BY <1>1, <1>4, RatingRulesAssumption
         DEF ValidateEditing, ValidStart, Times, Unset
    <2>3. end >= start
      BY <1>4, RatingRulesAssumption
         DEF ValidateEditing, ValidEnd, Times, Ends, Forever
    <2>4. rules[i].start >= now /\ rules[i].start \in Int
      BY <1>1, <1>4, RatingRulesAssumption DEF ValidateEditing, Rule, Times
    <2>5. start >= quiet /\ rules[i].start >= quiet
      BY <1>1, <2>2, <2>4, RatingRulesAssumption DEF Times
    <2> QED
      BY <1>1, <2>1, <2>3, <2>5 DEF Pending
  <1>5. ASSUME Insert(c) \/ RefuseInsert(c) \/ Update(c) \/ RefuseUpdate(c)
        PROVE  req'[c] = None
    BY <1>1, <1>5 DEF Insert, RefuseInsert, Update, RefuseUpdate
  <1> QED
    BY <1>2, <1>3, <1>4, <1>5 DEF CallerStep

LEMMA OthersWait ==
  ASSUME PastInv, Next
  PROVE  /\ now' >= now
         /\ \A c \in Callers : \/ req'[c] \in {None, req[c]}
                               \/ Pending(req'[c], rules, Len(how), quiet)
  <1>0. now \in Int
    BY RatingRulesAssumption DEF PastInv, TypeOK, Times
  <1>1. CASE Tick
    BY <1>0, <1>1 DEF Tick
  <1>2. ASSUME NEW c \in Callers, CallerStep(c)
        PROVE  now' = now /\ \A d \in Callers \ {c} : req'[d] = req[d]
    BY <1>2 DEF CallerStep, ValidateCreation, ValidateEnding, ValidateEditing,
                Insert, RefuseInsert, Update, RefuseUpdate, PastInv, TypeOK
  <1>3. CASE \/ \E i \in Rows : Delete(i)
             \/ \E g \in Groups, recurse \in BOOLEAN : DeleteGroup(g, recurse)
             \/ \E k \in Keys : DeleteParent(k)
    <2>1. UNCHANGED <<now, req>>
      BY <1>3 DEF Delete, DeleteGroup, DeleteParent
    <2> QED
      BY <1>0, <2>1
  <1>4. CASE \E c \in Callers : CallerStep(c)
    <2>1. PICK c \in Callers : CallerStep(c)
      BY <1>4
    <2>2. now' = now /\ \A d \in Callers \ {c} : req'[d] = req[d]
      BY <1>2, <2>1
    <2>3. req'[c] = None \/ Pending(req'[c], rules, Len(how), quiet)
      BY <2>1, PendingFresh
    <2> QED
      BY <1>0, <2>2, <2>3
  <1> QED
    BY <1>1, <1>3, <1>4 DEF Next, Step

LEMMA PastNext == PastInv /\ [Next]_vars => PastInv'
  <1> SUFFICES ASSUME PastInv, [Next]_vars PROVE PastInv'
    OBVIOUS
  <1>1. TypeOK'
    BY TypeNext DEF PastInv
  <1>2. CASE UNCHANGED vars
    BY <1>1, <1>2 DEF PastInv, vars
  <1>3. CASE Next
    <2>1. DatesStand
      BY <1>3, DatesStandNext
    <2>2. /\ now' >= now
          /\ \A c \in Callers : \/ req'[c] \in {None, req[c]}
                                \/ Pending(req'[c], rules, Len(how), quiet)
      BY <1>3, OthersWait
    <2>3. CASE \A c \in Callers : req'[c] = None
      <3>1. quiet' = now' /\ now' \in Int
        BY <1>1, <1>3, <2>3, RatingRulesAssumption DEF Next, TypeOK, Times
      <3>2. Pending(None, rules', Len(how'), quiet')
        BY DEF Pending, None
      <3> QED
        BY <1>1, <2>3, <3>1, <3>2 DEF PastInv
    <2>4. CASE ~\A c \in Callers : req'[c] = None
      <3>1. quiet' = quiet
        BY <1>3, <2>4 DEF Next
      <3>2. quiet' <= now'
        BY <1>1, <2>2, <3>1, RatingRulesAssumption DEF PastInv, TypeOK, Times
      <3>3. Pending(None, rules, Len(how), quiet)
        BY DEF Pending, None
      <3>4. \A c \in Callers : Pending(req'[c], rules, Len(how), quiet)
        BY <2>2, <3>3 DEF PastInv
      <3>5. \A c \in Callers : Pending(req'[c], rules', Len(how'), quiet)
        BY <2>1, <3>4, PendingKept
      <3> QED
        BY <1>1, <2>4, <3>1, <3>2, <3>5 DEF PastInv
    <2> QED
      BY <2>3, <2>4
  <1> QED
    BY <1>2, <1>3

LEMMA PastInit == Init => PastInv
  BY TypeInit DEF Init, PastInv, Pending, None

-----------------------------------------------------------------------------
(* What PastStands asks of one rule.                                       *)
Stands(i, t) ==
  t < quiet /\ ~rules'[i].deleted
    => IF i \in DOMAIN rules
       THEN /\ Applies(rules'[i], t) <=> Applies(rules[i], t)
            /\ Applies(rules[i], t) => rules'[i].cost = rules[i].cost
       ELSE Applies(rules'[i], t) => "forced" \in how'[i]

LEMMA StandsInsert ==
  ASSUME PastInv, NEW c \in Callers, Insert(c), NEW i \in Rows', NEW t \in Times
  PROVE  Stands(i, t)
  <1> DEFINE q == req[c]
             n == Len(how) + 1
             start == StartOf(q)
  <1>1. q \in Creation /\ Pending(q, rules, Len(how), quiet)
    BY RequestFields DEF PastInv, TypeOK, Request, Insert
  <1>2. /\ quiet \in Int /\ now \in Int /\ quiet <= now /\ t \in Int
        /\ Rows \subseteq 1..Len(how)
    BY RatingRulesAssumption DEF PastInv, TypeOK, Times
  <1>3. n \notin Rows
    BY <1>2 DEF PastInv, TypeOK
  <1>4. /\ Rows' = Rows \cup {n} /\ rules'[n] = NewRule(q, start)
        /\ \A j \in Rows : rules'[j] = rules[j]
    BY <1>3 DEF Insert, Rows
  <1>5. how'[n] = Excuses(q)
    BY DEF Insert, PastInv, TypeOK
  <1>6. q.force \/ start >= quiet
    <2>1. q.force \/ q.start = Unset \/ q.start >= quiet
      BY <1>1 DEF Pending, Insert
    <2> QED
      BY <1>2, <2>1 DEF StartOf
  <1>7. CASE i \in Rows
    BY <1>4, <1>7 DEF Stands, Rows
  <1>8. CASE i = n
    <2>1. CASE q.force
      BY <1>3, <1>5, <1>8, <2>1 DEF Stands, Rows, Excuses
    <2>2. CASE ~q.force
      <3>1. start \in Int /\ rules'[n].start = start
        BY <1>1, <1>2, <1>4, RatingRulesAssumption
           DEF NewRule, StartOf, Creation, Times, Unset
      <3>2. t < quiet => ~Applies(rules'[n], t)
        BY <1>2, <1>6, <2>2, <3>1 DEF Applies
      <3> QED
        BY <1>3, <1>8, <3>2 DEF Stands, Rows
    <2> QED
      BY <2>1, <2>2
  <1> QED
    BY <1>4, <1>7, <1>8

LEMMA StandsUpdate ==
  ASSUME PastInv, NEW c \in Callers, Update(c), NEW i \in Rows', NEW t \in Times
  PROVE  Stands(i, t)
  <1> DEFINE q == req[c]
  <1>1. q \in Request /\ Pending(q, rules, Len(how), quiet)
    BY DEF PastInv, TypeOK, Request
  <1>2. /\ q.id \in Rows /\ rules[q.id] \in Rule /\ ~rules[q.id].deleted
        /\ quiet \in Int /\ t \in Int
    BY RatingRulesAssumption DEF Update, PastInv, TypeOK, Times
  <1>3. Rows' = Rows /\ \A j \in Rows \ {q.id} : rules'[j] = rules[j]
    BY DEF Update, Rows
  <1>4. rules[q.id].start \in Int /\ rules[q.id].end \in Int
    BY <1>2, RatingRulesAssumption DEF Rule, Times, Ends, Forever
  <1>5. CASE i = q.id /\ q.op = "end"
    <2>1. rules'[i] = [rules[i] EXCEPT !.end = q.end]
      BY <1>2, <1>5 DEF Update, Rows
    <2>2. q.end \in Int
      BY <1>1, <1>5, RequestFields, RatingRulesAssumption
         DEF Ending, Times, Ends, Forever
    <2>3. q.end >= quiet /\ rules[i].end >= quiet
      BY <1>1, <1>2, <1>5 DEF Pending, Rows
    <2>4. /\ rules'[i].start = rules[i].start /\ rules'[i].end = q.end
          /\ rules'[i].cost = rules[i].cost
          /\ rules'[i].deleted = rules[i].deleted
      BY <1>2, <1>5, <2>1 DEF Rule
    <2>5. t < quiet => t < q.end /\ t < rules[i].end
      BY <1>2, <1>4, <1>5, <2>2, <2>3
    <2> QED
      BY <1>2, <1>5, <2>4, <2>5 DEF Stands, Applies, Rows
  <1>6. CASE i = q.id /\ q.op = "edit"
    <2>1. rules'[i] = [rules[i] EXCEPT !.cost = q.cost, !.start = q.start,
                                       !.end = q.end]
      BY <1>2, <1>6 DEF Update, Rows
    <2>2. q.start \in Int
      BY <1>1, <1>6, RequestFields, RatingRulesAssumption DEF Editing, Times
    <2>3. q.start >= quiet /\ rules[i].start >= quiet
      BY <1>1, <1>2, <1>6 DEF Pending, Rows
    <2>4. rules'[i].start = q.start
      BY <1>2, <1>6, <2>1 DEF Rule
    <2>5. t < quiet => ~Applies(rules[i], t) /\ ~Applies(rules'[i], t)
      BY <1>2, <1>4, <1>6, <2>2, <2>3, <2>4 DEF Applies
    <2> QED
      BY <1>2, <1>6, <2>5 DEF Stands, Rows
  <1>7. CASE i # q.id
    BY <1>3, <1>7 DEF Stands, Rows
  <1> QED
    BY <1>5, <1>6, <1>7 DEF Update

(* A deletion leaves a rule that it does not delete the dates and the cost *)
(* it had.                                                                 *)
LEMMA StandsIfKept ==
  ASSUME TypeOK, NEW i \in Rows', i \in Rows, NEW t \in Times,
         ~rules'[i].deleted =>
           /\ rules'[i].start = rules[i].start /\ rules'[i].end = rules[i].end
           /\ rules'[i].cost = rules[i].cost
           /\ rules'[i].deleted = rules[i].deleted
  PROVE  Stands(i, t)
  BY DEF Stands, Applies, Rows

LEMMA StandsNext ==
  ASSUME PastInv, [Next]_vars, NEW i \in Rows', NEW t \in Times
  PROVE  Stands(i, t)
  <1>0. TypeOK
    BY DEF PastInv
  <1>1. ASSUME UNCHANGED rules PROVE Stands(i, t)
    BY <1>0, <1>1, StandsIfKept DEF Rows
  <1>2. CASE UNCHANGED vars
    BY <1>1, <1>2 DEF vars
  <1>3. CASE Tick
    BY <1>1, <1>3 DEF Tick
  <1>4. ASSUME NEW c \in Callers, CallerStep(c) PROVE Stands(i, t)
    <2>1. CASE Insert(c) \/ Update(c)
      BY <2>1, StandsInsert, StandsUpdate
    <2>2. CASE ~Insert(c) /\ ~Update(c)
      <3>1. UNCHANGED rules
        BY <1>4, <2>2 DEF CallerStep, ValidateCreation, ValidateEnding,
                          ValidateEditing, RefuseInsert, RefuseUpdate
      <3> QED
        BY <1>1, <3>1
    <2> QED
      BY <2>1, <2>2
  <1>5. ASSUME NEW j \in Rows, Delete(j) PROVE Stands(i, t)
    <2>1. i \in Rows /\ (i # j => rules'[i] = rules[i])
          /\ (i = j => rules'[i].deleted)
      BY <1>0, <1>5 DEF Delete, Rows, TypeOK, Rule
    <2> QED
      BY <1>0, <2>1, StandsIfKept
  <1>6. ASSUME NEW g \in Groups, NEW recurse \in BOOLEAN, DeleteGroup(g, recurse)
        PROVE  Stands(i, t)
    <2>1. i \in Rows /\ (rules'[i] = rules[i]
                         \/ rules'[i] = [rules[i] EXCEPT !.group = NoGroup])
      <3>1. CASE recurse
        BY <1>6, <3>1 DEF DeleteGroup, Rows
      <3>2. CASE ~recurse
        BY <1>6, <3>2 DEF DeleteGroup, Rows
      <3> QED
        BY <3>1, <3>2
    <2>2. rules[i] \in Rule
      BY <1>0, <2>1 DEF TypeOK
    <2>3. /\ rules'[i].start = rules[i].start /\ rules'[i].end = rules[i].end
          /\ rules'[i].cost = rules[i].cost
          /\ rules'[i].deleted = rules[i].deleted
      BY <2>1, <2>2 DEF Rule
    <2> QED
      BY <1>0, <2>1, <2>3, StandsIfKept
  <1>7. ASSUME NEW k \in Keys, DeleteParent(k) PROVE Stands(i, t)
    <2>1. i \in Rows /\ rules'[i] = rules[i]
      BY <1>7 DEF DeleteParent, Rows
    <2> QED
      BY <1>0, <2>1, StandsIfKept
  <1> QED
    BY <1>2, <1>3, <1>4, <1>5, <1>6, <1>7 DEF Next, Step

(* The rules that applied before the requests now in progress are changed  *)
(* by no request but a deletion, whatever the requests and the clock do    *)
(* between a validation and the write.                                     *)
THEOREM PastIsSettled == Spec => PastStands
  <1>1. PastInv /\ [Next]_vars =>
          [\A i \in DOMAIN rules', t \in Times :
             t < quiet /\ ~rules'[i].deleted
               => IF i \in DOMAIN rules
                  THEN /\ Applies(rules'[i], t) <=> Applies(rules[i], t)
                       /\ Applies(rules[i], t) => rules'[i].cost = rules[i].cost
                  ELSE Applies(rules'[i], t) => "forced" \in how'[i]]_vars
    BY StandsNext DEF Stands, Rows
  <1> QED
    BY <1>1, PastInit, PastNext, PTL DEF Spec, PastStands
=============================================================================
