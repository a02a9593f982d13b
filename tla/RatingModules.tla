---------------------------- MODULE RatingModules ----------------------------
(***************************************************************************)
(* How a worker gets its rating modules, and how the one of them that runs *)
(* scripts gets its scripts.  The modules are read once, when the worker   *)
(* is made: for one quote, or for all the periods it will rate; then the   *)
(* scripts are read again before each period.  Every read is a query of    *)
(* its own, and the API changes the tables between any two.  HashMap reads *)
(* its rules at the same times: what it reads is in HashMapRating; here,   *)
(* only that the reading may fail.                                         *)
(***************************************************************************)
EXTENDS Integers, FiniteSets, Sequences, Functions

CONSTANTS
  EntryPoints,  (* the rating modules in the order stevedore lists them    *)
  PyScripts,    (* the module that runs scripts                            *)
  HashMap,      (* the module that loads rules                             *)
  Noop,         (* the module that is always enabled                       *)
  FirstEnabled, (* the sets of modules that may be enabled at first        *)
  Priorities,   (* the priorities that are asked for                       *)
  Versions,     (* the texts of a script                                   *)
  MaxTime,      (* bound: the last instant of the model                    *)
  MaxScripts,   (* bound: how many scripts are made                        *)
  Budget        (* bound: how many requests change the tables              *)

Modules == Range(EntryPoints)
Times   == 0..MaxTime
Periods == 0..MaxTime - 1     (* each begins at its number, and lasts 1    *)
Forever == MaxTime + 1
Unset   == -1
Asked   == [state : BOOLEAN] \cup [priority : Priorities]
           \cup [state : BOOLEAN, priority : Priorities]
Building == -1                (* load_scripts_in_memory without a date     *)

ASSUME RatingModulesAssumption ==
  /\ EntryPoints \in Seq(Modules) /\ IsInjective(EntryPoints)
  /\ {PyScripts, HashMap, Noop} \subseteq Modules
  /\ PyScripts # HashMap /\ PyScripts # Noop /\ HashMap # Noop
  /\ FirstEnabled \subseteq SUBSET Modules
  /\ Versions # {}
  /\ Priorities \subseteq Nat
  /\ {MaxTime, MaxScripts, Budget} \subseteq Nat

VARIABLES
  now,     (* the wall clock                                               *)
  info,    (* ModuleStateInfo: state and priority of each module           *)
  scripts, (* PyScriptsScript: the rows by their ids                       *)
  put,     (* the PUT of a module in progress: what it has yet to write     *)
  edit,    (* the PUT of a script in progress, or None                     *)
  worker,  (* where the worker is and what it has read                     *)
  mark,    (* the next period of the scope                                 *)
  seen,    (* history: what was so at some time since the reading began    *)
  steady,  (* history: what was so at all times since                      *)
  missed,  (* history: the modules that had a row deleted since which they  *)
           (* may have listed and not yet read                             *)
  spent    (* how many requests were made, and workers killed                *)

tables  == <<info, scripts>>
requests == <<put, edit>>
history == <<seen, steady, missed>>
vars == <<now, tables, requests, worker, mark, history, spent>>

None == [id |-> 0]
NoPut == [module |-> Noop, asked |-> <<>>]

Script(data, start, end) ==
  [start |-> start, end |-> end, data |-> data, deleted |-> FALSE]

IsEnabled(m) == m = Noop \/ info[m].state

(* A priority of 0 is taken for none.                                      *)
Priority(m)  == IF m = Noop \/ info[m].priority = 0 THEN 1
                ELSE info[m].priority

(* get_filters(is_active=t)                                                *)
Applies(q, t) == q.start <= t /\ t < q.end /\ ~q.deleted

(* What the reading of a worker may find: the enabled modules and their    *)
(* priorities when it is made, the active scripts and their texts.         *)
ScriptFacts(rows, t) ==
  {<<"active", i>> : i \in {j \in DOMAIN rows : Applies(rows[j], t)}}
  \cup {<<"text", i, rows[i].data>> : i \in DOMAIN rows}

ModuleFacts ==
  {<<"enabled", m>> : m \in {n \in Modules : IsEnabled(n)}}
  \cup {<<"priority", m, Priority(m)>> : m \in Modules}

Idle == [pc |-> "idle", quotes |-> FALSE, entry |-> 0, found |-> {}, keys |-> <<>>,
         order |-> <<>>, date |-> Building, todo |-> {}, code |-> <<>>]

Init ==
  /\ now = 0
  /\ \E enabled \in FirstEnabled :
       info = [m \in Modules |-> [state |-> m \in enabled, priority |-> 1]]
  /\ scripts = <<Script(CHOOSE data \in Versions : TRUE, 0, Forever)>>
  /\ put = NoPut
  /\ edit = None
  /\ worker = Idle
  /\ mark = 0
  /\ seen = {} /\ steady = {} /\ missed = {}
  /\ spent = 0

-----------------------------------------------------------------------------
(***************************************************************************)
(* The API.  What a worker could have read is remembered at each change.   *)
(***************************************************************************)
Arrive ==
  /\ spent < Budget
  /\ spent' = spent + 1

Reading == worker.pc \in {"enter", "load", "get"}

Facts == ScriptFacts(scripts, IF worker.date = Building THEN now
                                                        ELSE worker.date)
         \cup IF worker.date = Building THEN ModuleFacts ELSE {}

Observe ==
  IF Reading
  THEN /\ seen' = seen \cup Facts'
       /\ steady' = steady \cap Facts'
  ELSE UNCHANGED <<seen, steady>>

(* PUT /rating/modules: the state is written first, then the priority.     *)
(* (v1 leaves alone what is already as asked, v2 writes it again.)  The    *)
(* messages that set_state and set_priority cast are kept by the           *)
(* RatingEndpoint, which nobody asks for them.                             *)
PutModule(m, asked) ==
  /\ put = NoPut
  /\ Arrive
  /\ put' = [module |-> m, asked |-> asked]
  /\ UNCHANGED <<now, tables, edit, worker, mark, history>>

SetState ==
  /\ "state" \in DOMAIN put.asked
  /\ info' = [info EXCEPT ![put.module].state = put.asked.state]
  /\ put' = IF "priority" \in DOMAIN put.asked
            THEN [put EXCEPT !.asked = [priority |-> @.priority]] ELSE NoPut
  /\ UNCHANGED <<now, scripts, edit, worker, mark, missed, spent>>
  /\ Observe

SetPriority ==
  /\ DOMAIN put.asked = {"priority"}
  /\ info' = [info EXCEPT ![put.module].priority = put.asked.priority]
  /\ put' = NoPut
  /\ UNCHANGED <<now, scripts, edit, worker, mark, missed, spent>>
  /\ Observe

(* The column's default, evaluated once: when the API was started.         *)
ImportTime == 0

(* validate_resource: an end needs a start before it, and a start in the   *)
(* past has to be forced.                                                  *)
ValidateResource(start, end, force) ==
  /\ end # Forever => start # Unset /\ start <= end
  /\ force \/ start = Unset \/ start >= now

WithScript(data, start, end) ==
  Append(scripts, Script(data, IF start = Unset THEN ImportTime ELSE start, end))

(* POST of a script.                                                       *)
PostScript(data, start, end, force) ==
  /\ Len(scripts) < MaxScripts
  /\ ValidateResource(start, end, force)
  /\ Arrive
  /\ scripts' = WithScript(data, start, end)
  /\ UNCHANGED <<now, info, requests, worker, mark, missed>>
  /\ Observe

(* PUT of a script reads it and looks at the clock: one whose start has    *)
(* passed may only be given an end, once; any other may change.            *)
Edit(i, row) ==
  /\ edit = None
  /\ ~scripts[i].deleted
  /\ Arrive
  /\ edit' = [id |-> i, row |-> row]
  /\ UNCHANGED <<now, tables, put, worker, mark, history>>

ValidateEnd(i, end) ==
  /\ scripts[i].start < now /\ scripts[i].end = Forever /\ end >= now
  /\ Edit(i, [scripts[i] EXCEPT !.end = end])

ValidateEdit(i, data, start, end) ==
  LET first == IF start = Unset THEN scripts[i].start ELSE start
  IN  /\ scripts[i].start >= now
      /\ ValidateResource(first, end, FALSE)
      /\ Edit(i, [scripts[i] EXCEPT !.data = data, !.start = first, !.end = end])

UpdateScript ==
  /\ edit # None
  /\ scripts' = IF scripts[edit.id].deleted THEN scripts
                ELSE [scripts EXCEPT ![edit.id] = edit.row]
  /\ edit' = None
  /\ UNCHANGED <<now, info, put, worker, mark, missed, spent>>
  /\ Observe

DeleteScript(i) ==
  /\ ~scripts[i].deleted
  /\ Arrive
  /\ scripts' = [scripts EXCEPT ![i].deleted = TRUE]
  /\ missed' = IF i \in worker.todo THEN missed \cup {PyScripts} ELSE missed
  /\ UNCHANGED <<now, info, requests, worker, mark>>
  /\ Observe

(* HashMap reads its rules while it is made, and again before a period.    *)
ReadingRules ==
  \/ worker.pc = "load"
  \/ worker.pc = "get" /\ worker.date # Building /\ HashMap \in worker.found

(* DELETE of a service, a field or a threshold, or of a group with its     *)
(* rules.  (A mapping deleted alone keeps its row.)                        *)
DeleteRule ==
  /\ Arrive
  /\ missed' = IF ReadingRules THEN missed \cup {HashMap} ELSE missed
  /\ UNCHANGED <<now, tables, requests, worker, mark, seen, steady>>

Tick ==
  /\ now < MaxTime
  /\ now' = now + 1
  /\ UNCHANGED <<tables, requests, worker, mark, missed, spent>>
  /\ Observe

-----------------------------------------------------------------------------
(***************************************************************************)
(* The worker                                                              *)
(***************************************************************************)
Fresh(next) ==
  /\ worker' = next
  /\ seen' = Facts' /\ steady' = Facts' /\ missed' = {}

Stop ==
  /\ worker' = Idle
  /\ seen' = {} /\ steady' = {} /\ missed' = {}

WorkerOnly == UNCHANGED <<now, tables, requests, mark, spent>>

Ready == mark \in Periods /\ mark < now

(* CloudKittyProcessor.process_scope makes a worker.                       *)
Begin ==
  /\ worker.pc = "idle" /\ Ready
  /\ WorkerOnly
  /\ Fresh([Idle EXCEPT !.pc = "enter", !.entry = 1])

(* POST /rating/quote: the endpoint makes a worker for it.                 *)
BeginQuote ==
  /\ worker.pc = "idle"
  /\ Arrive
  /\ UNCHANGED <<now, tables, requests, mark>>
  /\ Fresh([Idle EXCEPT !.pc = "enter", !.entry = 1, !.quotes = TRUE])

Entry == EntryPoints[worker.entry]
Entering == worker.pc = "enter" /\ worker.entry <= Len(EntryPoints)

Active(t) == {i \in DOMAIN scripts : Applies(scripts[i], t)}

(* load_scripts_in_memory: the active scripts are listed, and those in     *)
(* memory that are not among them are dropped.                             *)
Purge(code, ids) == [i \in DOMAIN code \cap ids |-> code[i]]

Listing(w, date) ==
  LET ids == Active(IF date = Building THEN now ELSE date)
  IN  [w EXCEPT !.pc = "get", !.date = date, !.todo = ids,
                !.code = Purge(w.code, ids)]

ListScripts ==
  /\ Entering /\ Entry = PyScripts
  /\ worker' = Listing(worker, Building)
  /\ WorkerOnly /\ UNCHANGED history

(* Faulty variant: a script in memory is not compiled again.               *)
LoadedOnce(code, i) == [j \in DOMAIN code \cup {i} |->
                          IF j \in DOMAIN code THEN code[j]
                          ELSE scripts[i].data]

(* A script is compiled each time it is read.                              *)
Loaded(code, i) == [j \in DOMAIN code \cup {i} |->
                      IF j = i THEN scripts[i].data ELSE code[j]]

GetScript(i) ==
  /\ worker.pc = "get" /\ i \in worker.todo
  /\ ~scripts[i].deleted
  /\ worker' = [worker EXCEPT !.todo = @ \ {i}, !.code = Loaded(@, i)]
  /\ WorkerOnly /\ UNCHANGED history

(* Faulty variant: no module after it is tried.                            *)
SkipRest(w) == [w EXCEPT !.pc = "enter", !.entry = Len(EntryPoints) + 1,
                         !.todo = {}, !.code = <<>>]

(* A module that is left out takes its scripts along, if it has any.       *)
Skip(w) == [w EXCEPT !.pc = "enter", !.entry = @ + 1, !.todo = {},
                     !.code = IF Entry = PyScripts THEN <<>> ELSE @]

(* Faulty variant: the worker asks again for the script that is gone.      *)
LoadRetries(i) ==
  /\ worker.pc = "get" /\ i \in worker.todo
  /\ scripts[i].deleted
  /\ UNCHANGED vars

(* NoSuchScript: stevedore leaves out a module that cannot be made and     *)
(* goes on with the next; before a period it is the end of the worker.     *)
LoadFails(i) ==
  /\ worker.pc = "get" /\ i \in worker.todo
  /\ scripts[i].deleted
  /\ WorkerOnly
  /\ IF worker.date = Building
     THEN worker' = Skip(worker) /\ UNCHANGED history
     ELSE Stop

(* The constructor of HashMap calls _load_rates.                           *)
ListRules ==
  /\ Entering /\ Entry = HashMap
  /\ worker' = [worker EXCEPT !.pc = "load"]
  /\ WorkerOnly /\ UNCHANGED history

(* A row in its lists is gone when it is read, which raises: stevedore     *)
(* leaves HashMap out and goes on with the next; before a period it is the *)
(* end of the worker.                                                      *)
RulesFail ==
  /\ HashMap \in missed /\ WorkerOnly
  /\ \/ worker.pc = "load" /\ worker' = Skip(worker) /\ UNCHANGED history
     \/ worker.pc = "get" /\ ReadingRules /\ Stop

Made == \/ Entering /\ Entry \notin {PyScripts, HashMap}
        \/ worker.pc = "load"
        \/ worker.pc = "get" /\ worker.todo = {} /\ worker.date = Building

(* EnabledExtensionManager.check_enabled, for each module once made.       *)
CheckEnabled ==
  /\ Made
  /\ worker' = IF IsEnabled(Entry)
               THEN [worker EXCEPT !.pc = "enter", !.entry = @ + 1,
                                   !.found = @ \cup {Entry}]
               ELSE Skip(worker)
  /\ WorkerOnly /\ UNCHANGED history

Position(m) == CHOOSE i \in DOMAIN EntryPoints : EntryPoints[i] = m

(* Faulty variant: the lowest priority first.                              *)
PrecedesLow(m, n, keys) ==
  \/ keys[m] < keys[n]
  \/ keys[m] = keys[n] /\ Position(m) < Position(n)

(* The sort is stable.                                                     *)
Precedes(m, n, keys) ==
  \/ keys[m] > keys[n]
  \/ keys[m] = keys[n] /\ Position(m) < Position(n)

Sorted(S, keys) ==
  [i \in 1..Cardinality(S) |->
     CHOOSE m \in S : Cardinality({n \in S : Precedes(n, m, keys)}) = i - 1]

(* _load_rating_processors sorts them; each priority is a query.           *)
ReadPriority ==
  /\ worker.pc = "enter" /\ worker.entry > Len(EntryPoints)
  /\ LET left == worker.found \ DOMAIN worker.keys
         m == CHOOSE x \in left : \A y \in left : Position(x) <= Position(y)
         keys == [x \in DOMAIN worker.keys \cup {m} |->
                    IF x = m THEN Priority(m) ELSE worker.keys[x]]
     IN  worker' = IF left = {m}
                   THEN [worker EXCEPT !.pc = "next", !.keys = <<>>,
                           !.order = Sorted(worker.found, keys)]
                   ELSE [worker EXCEPT !.keys = keys]
  /\ WorkerOnly /\ UNCHANGED history

(* execute_worker_processing and refresh_rating_rules.                     *)
NextPeriod ==
  /\ worker.pc = "next" /\ ~worker.quotes
  /\ WorkerOnly
  /\ IF Ready
     THEN Fresh(IF PyScripts \in worker.found THEN Listing(worker, mark)
                ELSE [worker EXCEPT !.pc = "get", !.date = mark])
     ELSE Stop

(* The modules price the data of the quote one after another.              *)
Quote ==
  /\ worker.pc = "next" /\ worker.quotes
  /\ WorkerOnly
  /\ Stop

(* execute_measurements_rating, and the state of the scope.                *)
Rate ==
  /\ worker.pc = "get" /\ worker.todo = {} /\ worker.date # Building
  /\ mark' = mark + 1
  /\ worker' = [worker EXCEPT !.pc = "next"]
  /\ seen' = {} /\ steady' = {} /\ missed' = {}
  /\ UNCHANGED <<now, tables, requests, spent>>

Crash ==
  /\ worker.pc # "idle"
  /\ Arrive
  /\ Stop
  /\ UNCHANGED <<now, tables, requests, mark>>

Work ==
  \/ Begin \/ ListScripts \/ ListRules \/ RulesFail
  \/ CheckEnabled \/ ReadPriority
  \/ NextPeriod \/ Rate \/ Quote
  \/ \E i \in DOMAIN scripts : GetScript(i) \/ LoadFails(i)

Serve ==
  \/ \E m \in Modules, asked \in Asked : PutModule(m, asked)
  \/ SetState \/ SetPriority \/ BeginQuote
  \/ \E data \in Versions, start \in Periods \cup {Unset},
        end \in Periods \cup {Forever} :
       \/ \E force \in BOOLEAN : PostScript(data, start, end, force)
       \/ \E i \in DOMAIN scripts : ValidateEdit(i, data, start, end)
  \/ UpdateScript \/ DeleteRule
  \/ \E i \in DOMAIN scripts :
       DeleteScript(i) \/ \E end \in Periods : ValidateEnd(i, end)

Next == Work \/ Serve \/ Tick \/ Crash

Spec == Init /\ [][Next]_vars /\ WF_vars(Work) /\ WF_vars(Tick)

-----------------------------------------------------------------------------
Built == worker.pc = "next" /\ worker.date = Building

(* The modules a worker rates with were each enabled at some time while it *)
(* was made, and every module that was enabled all that time is among them *)
(* unless it could not be made, as a script or a rule it had listed was    *)
(* deleted before it was read.                                             *)
EnabledModulesRate ==
  Built => /\ \A m \in worker.found : <<"enabled", m>> \in seen
           /\ \A m \in Modules :
                <<"enabled", m>> \in steady
                  => m \in worker.found \/ m \in missed

(* One module comes before another only if its priority was at some time   *)
(* no lower; with priorities nobody changes, the highest comes first.      *)
HighestFirst ==
  Built => \A i, j \in DOMAIN worker.order : i < j =>
    \E f, g \in {x \in seen : x[1] = "priority"} :
      f[2] = worker.order[i] /\ g[2] = worker.order[j] /\ f[3] >= g[3]

PeriodLoaded ==
  worker.pc = "get" /\ worker.todo = {} /\ worker.date # Building

(* A period is rated, and a quote is made, by scripts that were each       *)
(* active for it at some time while they were read, with a text of that    *)
(* time, and by every script that was active for it all that time.         *)
RatedByItsScripts ==
  PyScripts \in worker.found /\ (PeriodLoaded \/ Built) =>
    /\ \A i \in DOMAIN worker.code :
         <<"active", i>> \in seen /\ <<"text", i, worker.code[i]>> \in seen
    /\ \A i \in DOMAIN scripts :
         <<"active", i>> \in steady => i \in DOMAIN worker.code

(* Scripts and rules that disappear while they are read, workers that die  *)
(* and edits of the modules never keep the scope from being rated.         *)
EventuallyRated == <>(mark = MaxTime)
=============================================================================
