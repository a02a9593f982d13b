----------------------------- MODULE RatingRules -----------------------------
(***************************************************************************)
(* The mappings of the HashMap rating module and how they change: since    *)
(* rules have a period of validity they are no longer overwritten, but     *)
(* created, ended and marked as deleted, and the constraints that the      *)
(* table once had are left to the API.                                     *)
(*                                                                         *)
(* POST and PUT look at the clock and at the rule in one step and write in *)
(* another; the write is one transaction.  Names are left to their default,*)
(* a fresh uuid.                                                           *)
(***************************************************************************)
EXTENDS Integers, Sequences

CONSTANTS
  Keys,     (* what a mapping applies to: its service, or its field and    *)
            (* value, and its tenant                                       *)
  Groups,
  NoGroup,
  Costs,    (* a cost and its type                                         *)
  Callers,  (* API threads that serve POST and PUT                         *)
  MaxTime,  (* bound: the last instant of the model                        *)
  MaxRequests  (* bound: how many requests are made                        *)

Times  == 0..MaxTime
Unset  == -1
(* Python's None as the end of a rule.                                     *)
Forever == MaxTime + 1
Ends    == Times \cup {Forever}

ASSUME RatingRulesAssumption ==
  /\ MaxTime \in Nat
  /\ NoGroup \notin Groups
  /\ Keys \cap Groups = {}
  /\ MaxRequests \in Nat

VARIABLES
  now,    (* the wall clock                                                *)
  exists, (* the services, fields and groups that are not deleted          *)
  rules,  (* HashMapMapping: the rows by their ids                         *)
  req,    (* each caller: the write it has validated, or None              *)
  how,    (* history: what may excuse each rule ever created (see below)   *)
  quiet,  (* history: when no POST or PUT was last in progress             *)
  spent   (* how many requests were made                                   *)

vars == <<now, exists, rules, req, how, quiet, spent>>

None == [op |-> "none"]

Rule == [key : Keys, group : Groups \cup {NoGroup}, cost : Costs,
         start : Times, end : Ends, deleted : BOOLEAN]

Creation == [op : {"create"}, key : Keys, group : Groups \cup {NoGroup},
             cost : Costs, start : Times \cup {Unset}, end : Ends,
             force : BOOLEAN]
Ending   == [op : {"end"}, id : Nat, end : Ends]
Editing  == [op : {"edit"}, id : Nat, cost : Costs, start : Times, end : Ends]

Rows == DOMAIN rules

(* get_filters(is_active=t)                                                *)
Applies(r, t) == r.start <= t /\ t < r.end /\ ~r.deleted

Init ==
  /\ now = 0
  /\ exists = Keys \cup Groups
  /\ rules = [i \in {} |-> {}]
  /\ req = [c \in Callers |-> None]
  /\ how = <<>>
  /\ quiet = 0
  /\ spent = 0

Arrive ==
  /\ spent < MaxRequests
  /\ spent' = spent + 1

-----------------------------------------------------------------------------
(***************************************************************************)
(* POST /v1/rating/module_config/hashmap/mappings                          *)
(***************************************************************************)
(* validate_resource.  (What it refuses changes nothing; an end without a  *)
(* start makes it fail; force matters only for a start in the past.)       *)
ValidStart(start, force) == force <=> (start # Unset /\ start < now)
ValidEnd(start, end) == end = Forever \/ (start # Unset /\ start <= end)

ValidateCreation(c, k, g, cost, start, end, force) ==
  /\ req[c] = None
  /\ ValidStart(start, force) /\ ValidEnd(start, end)
  /\ Arrive
  /\ req' = [req EXCEPT
               ![c] = [op |-> "create", key |-> k, group |-> g, cost |-> cost,
                       start |-> start, end |-> end, force |-> force]]
  /\ UNCHANGED <<now, exists, rules, how>>

(* Faulty variant: a rule without an end stands in nobody's way.           *)
MeetsIfEnded(r, start, end) ==
  IF end = Forever
  THEN r.start > start \/ r.end = Forever
  ELSE r.start < end /\ r.end >= start /\ r.end # Forever

(* The date filter of create_mapping.                                      *)
Meets(r, start, end) ==
  IF end = Forever
  THEN r.start > start \/ r.end = Forever
  ELSE r.start < end /\ r.end >= start

SameTarget(r, q) == r.key = q.key /\ r.group = q.group

Conflicts(r, q, start) ==
  ~r.deleted /\ SameTarget(r, q) /\ Meets(r, start, q.end)

NewRule(q, start) ==
  [key |-> q.key, group |-> q.group, cost |-> q.cost, start |-> start,
   end |-> q.end, deleted |-> FALSE]

StartOf(q) == IF q.start = Unset THEN now ELSE q.start

Excuses(q) == {e \in {"open", "forced"} :
                 \/ e = "open" /\ q.end = Forever
                 \/ e = "forced" /\ q.force}

Insert(c) ==
  LET q == req[c]
      start == StartOf(q)
      i == Len(how) + 1
  IN  /\ q.op = "create"
      /\ q.key \in exists /\ q.group \in exists \cup {NoGroup}
      /\ \A j \in Rows : ~Conflicts(rules[j], q, start)
      /\ rules' = [j \in Rows \cup {i} |->
                     IF j = i THEN NewRule(q, start) ELSE rules[j]]
      /\ how' = Append(how, Excuses(q))
      /\ req' = [req EXCEPT ![c] = None]
  /\ UNCHANGED <<now, exists, spent>>

(* MappingAlreadyExists, NoSuchService, NoSuchField or NoSuchGroup.        *)
RefuseInsert(c) ==
  LET q == req[c]
  IN  /\ q.op = "create"
      /\ \/ q.key \notin exists
         \/ q.group \notin exists \cup {NoGroup}
         \/ \E j \in Rows : Conflicts(rules[j], q, StartOf(q))
  /\ req' = [req EXCEPT ![c] = None]
  /\ UNCHANGED <<now, exists, rules, how, spent>>

-----------------------------------------------------------------------------
(***************************************************************************)
(* PUT /v1/rating/module_config/hashmap/mappings/<id>                      *)
(***************************************************************************)
(* Faulty variant: a running rule may be ended at any time.                *)
MayEndAnyTime(r, end) == r.start < now /\ r.end = Forever

(* validate_update_allowing_only_end_date, of a running rule.              *)
MayEnd(r, end) == r.start < now /\ r.end = Forever /\ now <= end

ValidateEnding(c, i, end) ==
  /\ req[c] = None /\ i \in Rows
  /\ MayEnd(rules[i], end)
  /\ Arrive
  /\ req' = [req EXCEPT ![c] = [op |-> "end", id |-> i, end |-> end]]
  /\ UNCHANGED <<now, exists, rules, how>>

(* ... and of one that has not started.                                    *)
ValidateEditing(c, i, cost, start, end) ==
  /\ req[c] = None /\ i \in Rows
  /\ now <= rules[i].start
  /\ ValidStart(start, FALSE) /\ ValidEnd(start, end)
  /\ Arrive
  /\ req' = [req EXCEPT ![c] = [op |-> "edit", id |-> i, cost |-> cost,
                                start |-> start, end |-> end]]
  /\ UNCHANGED <<now, exists, rules, how>>

(* update_mapping: the row is looked up again; dates are not compared with *)
(* those of other rules.                                                   *)
Update(c) ==
  LET q == req[c]
  IN  /\ q.op \in {"end", "edit"}
      /\ q.id \in Rows /\ ~rules[q.id].deleted
      /\ rules' = [rules EXCEPT
                     ![q.id] = IF q.op = "end" THEN [@ EXCEPT !.end = q.end]
                               ELSE [@ EXCEPT !.cost = q.cost,
                                              !.start = q.start,
                                              !.end = q.end]]
      /\ how' = [how EXCEPT ![q.id] = @ \cup {"edited"}]
      /\ req' = [req EXCEPT ![c] = None]
  /\ UNCHANGED <<now, exists, spent>>

(* NoSuchMapping                                                           *)
RefuseUpdate(c) ==
  LET q == req[c]
  IN  /\ q.op \in {"end", "edit"}
      /\ q.id \in Rows => rules[q.id].deleted
  /\ req' = [req EXCEPT ![c] = None]
  /\ UNCHANGED <<now, exists, rules, how, spent>>

-----------------------------------------------------------------------------
(***************************************************************************)
(* Deletions.                                                              *)
(***************************************************************************)
(* DELETE of a mapping: the row stays, marked.                             *)
Delete(i) ==
  /\ i \in Rows /\ ~rules[i].deleted
  /\ Arrive
  /\ rules' = [rules EXCEPT ![i].deleted = TRUE]
  /\ UNCHANGED <<now, exists, req, how>>

(* DELETE of a group: its rows are removed, or lose their group.           *)
DeleteGroup(g, recurse) ==
  /\ g \in exists
  /\ Arrive
  /\ exists' = exists \ {g}
  /\ IF recurse
     THEN /\ rules' = [i \in {j \in Rows : rules[j].group # g} |-> rules[i]]
          /\ UNCHANGED how
     ELSE /\ rules' = [i \in Rows |-> IF rules[i].group = g
                                      THEN [rules[i] EXCEPT !.group = NoGroup]
                                      ELSE rules[i]]
          /\ how' = [i \in DOMAIN how |->
                       IF i \in Rows /\ rules[i].group = g
                       THEN how[i] \cup {"edited"} ELSE how[i]]
  /\ UNCHANGED <<now, req>>

(* DELETE of a service or a field: the database removes its rows.          *)
DeleteParent(k) ==
  /\ k \in exists
  /\ Arrive
  /\ exists' = exists \ {k}
  /\ rules' = [i \in {j \in Rows : rules[j].key # k} |-> rules[i]]
  /\ UNCHANGED <<now, req, how>>

Tick ==
  /\ now < MaxTime
  /\ now' = now + 1
  /\ UNCHANGED <<exists, rules, req, how, spent>>

-----------------------------------------------------------------------------
CallerStep(c) ==
  \/ \E k \in Keys, g \in Groups \cup {NoGroup}, cost \in Costs,
        start \in Times \cup {Unset}, end \in Ends, force \in BOOLEAN :
       ValidateCreation(c, k, g, cost, start, end, force)
  \/ Insert(c) \/ RefuseInsert(c)
  \/ \E i \in Rows, end \in Ends : ValidateEnding(c, i, end)
  \/ \E i \in Rows, cost \in Costs, start \in Times, end \in Ends :
       ValidateEditing(c, i, cost, start, end)
  \/ Update(c) \/ RefuseUpdate(c)

Step ==
  \/ Tick
  \/ \E c \in Callers : CallerStep(c)
  \/ \E i \in Rows : Delete(i)
  \/ \E g \in Groups, recurse \in BOOLEAN : DeleteGroup(g, recurse)
  \/ \E k \in Keys : DeleteParent(k)

Next ==
  /\ Step
  /\ quiet' = IF \A c \in Callers : req'[c] = None THEN now' ELSE quiet

Spec == Init /\ [][Next]_vars

-----------------------------------------------------------------------------
(***************************************************************************)
(* Properties.                                                             *)
(***************************************************************************)
(* Every variable keeps its type.                                          *)
TypeOK ==
  /\ now \in Times
  /\ exists \subseteq Keys \cup Groups
  /\ how \in Seq(SUBSET {"open", "forced", "edited"})
  /\ Rows \subseteq 1..Len(how)
  /\ \A i \in Rows : rules[i] \in Rule
  /\ req \in [Callers -> Creation \cup Ending \cup Editing \cup {None}]
  /\ quiet \in Times
  /\ spent \in Nat

(* What periods already past cost is settled, so that rating them again    *)
(* gives the same result: the rules that applied to an instant before the  *)
(* requests now in progress are changed by no request but a deletion, and  *)
(* no rule is added to them unless with force                              *)
(* (validate_update_allowing_only_end_date, validate_resource).            *)
PastStands ==
  [][\A i \in DOMAIN rules', t \in Times :
       t < quiet /\ ~rules'[i].deleted
         => IF i \in DOMAIN rules
            THEN /\ Applies(rules'[i], t) <=> Applies(rules[i], t)
                 /\ Applies(rules[i], t) => rules'[i].cost = rules[i].cost
            ELSE Applies(rules'[i], t) => "forced" \in how'[i]]_vars

Overlap(r, s) == r.start < s.end /\ s.start < r.end

(* Two rules for the same target never apply to one instant, unless one    *)
(* was updated since, or the later one was created without an end and      *)
(* starts while the earlier one, which has an end, is valid                *)
(* (create_mapping).                                                       *)
OverlapsAreExplained ==
  \A i, j \in Rows :
    /\ i < j
    /\ SameTarget(rules[i], rules[j])
    /\ ~rules[i].deleted /\ ~rules[j].deleted
    /\ "edited" \notin how[i] \cup how[j]
    => \/ ~Overlap(rules[i], rules[j])
       \/ /\ "open" \in how[j] /\ rules[i].end # Forever
          /\ rules[i].start <= rules[j].start
=============================================================================
