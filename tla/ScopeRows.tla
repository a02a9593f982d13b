------------------------------ MODULE ScopeRows ------------------------------
(***************************************************************************)
(* The rows that hold the state of one scope.  A row belongs to a          *)
(* configuration: a scope key, a fetcher and a collector; but these        *)
(* columns were added to a table that had only the identifier, and may be  *)
(* NULL.  A processor makes its row with NULL in all three and adopts it,  *)
(* as any row like that, when it next looks for it.  Processors of several *)
(* configurations may share the table, the resets and the backend.         *)
(*                                                                         *)
(* There is a scope, and one process for each configuration that holds the *)
(* lock of the scope in that configuration: a processor or an endpoint.    *)
(* The collector is handled as the fetcher is, and left out.               *)
(***************************************************************************)
EXTENDS Integers, FiniteSets, Sequences

CONSTANTS
  Confs,    (* the configurations: records of a key and a fetcher          *)
  ApiConf,  (* the configuration of the API                                *)
  Null,
  Posted,   (* the columns that a POST of the scope may give               *)
  Max,      (* bound: the last period                                      *)
  Budget    (* bound: how many requests are made                           *)

Periods == 0..Max
NullRow == [key |-> Null, fetcher |-> Null]
Columns == [key : {c.key : c \in Confs} \cup {Null},
            fetcher : {c.fetcher : c \in Confs} \cup {Null}]

ASSUME ScopeRowsAssumption ==
  /\ Max \in Nat /\ Budget \in Nat
  /\ Confs \cup Posted \subseteq Columns
  /\ ApiConf \in Confs
  /\ \A c \in Confs : Null \notin {c, c.key, c.fetcher}

VARIABLES
  rows,    (* IdentifierState: the rows of the scope, by their ids         *)
  data,    (* how often each period is stored, for each configuration      *)
  proc,    (* the process of each configuration                            *)
  api,     (* the POST or PATCH in progress, or None                       *)
  resets,  (* reset_state messages: the columns of a row, and a timestamp  *)
  why,     (* history: what may excuse a period that is rated twice        *)
  spent

vars == <<rows, data, proc, api, resets, why, spent>>

Row == [cols : Columns, mark : Periods, active : BOOLEAN,
        by : Confs \cup {Null}]
Idle == [pc |-> "idle"]
None == [op |-> "none"]

Ids == DOMAIN rows
Having(cols) == {i \in Ids : rows[i].cols = cols}

(* UniqueConstraint: rows with a NULL are never equal.                     *)
Unique(cols) == Null \in {cols.key, cols.fetcher} \/ Having(cols) = {}

NewRow(cols, mark, active, by) ==
  [cols |-> cols, mark |-> mark, active |-> active, by |-> by]

Init ==
  /\ rows = <<>>
  /\ data = [c \in Confs |-> [p \in Periods |-> 0]]
  /\ proc = [c \in Confs |-> Idle]
  /\ api = None
  /\ resets = {}
  /\ why = {}
  /\ spent = 0

Arrive ==
  /\ spent < Budget
  /\ spent' = spent + 1

-----------------------------------------------------------------------------
(***************************************************************************)
(* _get_db_item, in each access of a processor or an endpoint: the row of  *)
(* the columns, or else one of NULLs, which is then given the columns.     *)
(***************************************************************************)
Looks(use, cols, period) ==
  [pc |-> "find", use |-> use, cols |-> cols, period |-> period]

Goto(c, state) == proc' = [proc EXCEPT ![c] = state]

Stay == UNCHANGED <<rows, data, api, resets, why, spent>>

Found(use, cols, period, i) ==
  [pc |-> "got", use |-> use, cols |-> cols, period |-> period, row |-> i,
   mark |-> IF i = 0 THEN -1 ELSE rows[i].mark,
   active |-> i = 0 \/ rows[i].active]

Or(x, default) == IF x = Null THEN default ELSE x

(* What is looked for: a column that is not given is the configuration's.  *)
Sought(cols, conf) == [key |-> Or(cols.key, conf.key),
                       fetcher |-> Or(cols.fetcher, conf.fetcher)]

(* Faulty variant: rows without columns are not looked for.                *)
FindExact(c) ==
  LET p == proc[c]
      exact == Having(Sought(p.cols, c))
  IN  /\ p.pc = "find"
      /\ Stay
      /\ \/ \E i \in exact : Goto(c, Found(p.use, p.cols, p.period, i))
         \/ exact = {} /\ Goto(c, Found(p.use, p.cols, p.period, 0))

Find(c) ==
  LET p == proc[c]
      exact == Having(Sought(p.cols, c))
      spare == Having(NullRow)
  IN  /\ p.pc = "find"
      /\ Stay
      /\ \/ \E i \in exact : Goto(c, Found(p.use, p.cols, p.period, i))
         \/ /\ exact = {}
            /\ \E i \in spare :
                 Goto(c, [Found(p.use, p.cols, p.period, i) EXCEPT !.pc = "adopt"])
         \/ /\ exact \cup spare = {}
            /\ Goto(c, Found(p.use, p.cols, p.period, 0))

(* The update is by the row's id, whatever its columns are by then.        *)
Adopt(c) ==
  LET p == proc[c]
      cols == Sought(p.cols, c)
  IN  /\ p.pc = "adopt"
      /\ IF Having(cols) \subseteq {p.row}
         THEN /\ rows' = [rows EXCEPT ![p.row].cols = cols]
              /\ Goto(c, [p EXCEPT !.pc = "got"])
              /\ why' = IF /\ rows[p.row].by \in {c, Null}
                           /\ rows[p.row].cols \in {NullRow, cols}
                        THEN why ELSE why \cup {"stolen"}
         ELSE /\ Goto(c, Idle)
              /\ UNCHANGED <<rows, why>>
      /\ UNCHANGED <<data, api, resets, spent>>

-----------------------------------------------------------------------------
(***************************************************************************)
(* A processor: each look is one call of the worker to the StateManager.   *)
(***************************************************************************)
Begin(c) ==
  /\ proc[c].pc = "idle"
  /\ Goto(c, Looks("mark", NullRow, 0))
  /\ Stay

Got(c, use) == proc[c].pc = "got" /\ proc[c].use = use

(* next_timestamp_to_process                                               *)
NextTimestamp(c) ==
  /\ Got(c, "mark")
  /\ Goto(c, IF proc[c].mark = Max THEN Idle
             ELSE Looks("known", NullRow, proc[c].mark + 1))
  /\ Stay

(* Faulty variant: a scope without a row is not processed.                 *)
CheckKnownOnly(c) ==
  /\ Got(c, "known")
  /\ Goto(c, IF proc[c].row = 0 THEN Idle
             ELSE Looks("active", NullRow, proc[c].period))
  /\ Stay

(* execute_worker_processing: a scope without a row is not asked about.    *)
CheckKnown(c) ==
  /\ Got(c, "known")
  /\ Goto(c, IF proc[c].row = 0
             THEN [proc[c] EXCEPT !.pc = "rate"]
             ELSE Looks("active", NullRow, proc[c].period))
  /\ Stay

CheckActive(c) ==
  /\ Got(c, "active")
  /\ Goto(c, IF proc[c].row # 0 /\ proc[c].active
             THEN [proc[c] EXCEPT !.pc = "rate"]
             ELSE Idle)
  /\ Stay

Rate(c) ==
  /\ proc[c].pc = "rate"
  /\ data' = [data EXCEPT ![c][proc[c].period] = @ + 1]
  /\ Goto(c, Looks("set", NullRow, proc[c].period))
  /\ UNCHANGED <<rows, api, resets, why, spent>>

(* Where a process goes after it has written the row.                      *)
Written(c) == IF proc[c].use = "set" THEN Looks("mark", NullRow, 0) ELSE Idle

(* create_scope, with the columns that were looked for: nobody finds a row *)
(* of which only some are NULL.                                            *)
Make(c) ==
  LET cols == proc[c].cols
  IN  /\ rows' = Append(rows, NewRow(cols, proc[c].period, TRUE, c))
      /\ why' = IF cols \in Confs \cup {NullRow} THEN why
                ELSE why \cup {"unfound"}

(* Faulty variant: the row is only written when it is made.                *)
SetMarkOnce(c) ==
  LET p == proc[c]
  IN  /\ p.pc = "got" /\ p.use \in {"set", "reset"}
      /\ IF p.row # 0 \/ ~Unique(p.cols) THEN UNCHANGED <<rows, why>> ELSE Make(c)
      /\ Goto(c, Written(c))
      /\ UNCHANGED <<data, api, resets, spent>>

(* set_last_processed_timestamp, of a processor and of an endpoint.        *)
SetMark(c) ==
  LET p == proc[c]
  IN  /\ p.pc = "got" /\ p.use \in {"set", "reset"}
      /\ IF p.row # 0
         THEN /\ rows' = [rows EXCEPT ![p.row].mark =
                                        IF p.mark = p.period THEN @ ELSE p.period]
              /\ Goto(c, Written(c))
              /\ UNCHANGED why
         ELSE IF Unique(p.cols)
         THEN Make(c) /\ Goto(c, Written(c))
         ELSE Goto(c, Idle) /\ UNCHANGED <<rows, why>>
      /\ UNCHANGED <<data, api, resets, spent>>

(***************************************************************************)
(* An endpoint: reset_state, which deletes by the scope key of the row and *)
(* holds the lock of its own configuration.  A message may name several    *)
(* scopes, each handled by itself.                                         *)
(***************************************************************************)
Reset(c, m) ==
  /\ proc[c].pc = "idle" /\ m \in resets
  /\ resets' = resets \ {m}
  /\ data' = [d \in Confs |-> [p \in Periods |->
                IF d.key = m.cols.key /\ p >= m.mark THEN 0 ELSE data[d][p]]]
  /\ why' = why \cup {x \in {"keyless", "foreign"} :
                        IF x = "keyless" THEN m.cols.key = Null
                                         ELSE Sought(m.cols, c) # c}
  /\ Goto(c, Looks("reset", m.cols, m.mark))
  /\ UNCHANGED <<rows, api, spent>>

-----------------------------------------------------------------------------
(***************************************************************************)
(* The API                                                                 *)
(***************************************************************************)
Actives == {i \in Ids : rows[i].active}

(* PUT: get_all answers the active rows.                                   *)
PutReset(fetchers, mark) ==
  LET named == {i \in Actives : fetchers = {} \/ rows[i].cols.fetcher \in fetchers}
  IN  /\ named # {}
      /\ Arrive
      /\ resets' = resets \cup {[cols |-> rows[i].cols, mark |-> mark] : i \in named}
      /\ UNCHANGED <<rows, data, proc, api, why>>

(* POST: refused if an active row has the identifier; a deactivated one is *)
(* not seen.                                                               *)
CheckPost(cols, mark, active) ==
  /\ api = None
  /\ Actives = {}
  /\ Arrive
  /\ api' = [op |-> "post", cols |-> cols, mark |-> mark, active |-> active]
  /\ UNCHANGED <<rows, data, proc, resets, why>>

CreateScope ==
  /\ api.op = "post"
  /\ api' = None
  /\ IF Unique(api.cols)
     THEN /\ rows' = Append(rows, NewRow(api.cols, api.mark, api.active, Null))
          /\ why' = IF rows = <<>> THEN why ELSE why \cup {"posted"}
     ELSE UNCHANGED <<rows, why>>
  /\ UNCHANGED <<data, proc, resets, spent>>

(* PATCH: the row of the identifier is read, if there is only one, and     *)
(* then looked for by its columns.                                         *)
CheckPatch(cols, active) ==
  /\ api = None
  /\ Len(rows) = 1
  /\ Arrive
  /\ api' = [op |-> "patch", row |-> rows[1].cols, cols |-> cols,
             active |-> active]
  /\ UNCHANGED <<rows, data, proc, resets, why>>

UpdateScope ==
  LET sought == Sought(api.row, ApiConf)
      hits == IF Having(sought) # {} THEN Having(sought) ELSE Having(NullRow)
      cols == Sought(api.cols, sought)
  IN  /\ api.op = "patch"
      /\ api' = None
      /\ \/ \E i \in hits :
              IF Having(cols) \subseteq {i}
              THEN /\ rows' = [rows EXCEPT ![i].cols = cols,
                                           ![i].active = api.active]
                   /\ why' = IF rows[i].cols = cols THEN why
                             ELSE why \cup {"moved"}
              ELSE UNCHANGED <<rows, why>>
         \/ hits = {} /\ UNCHANGED <<rows, why>>
      /\ UNCHANGED <<data, proc, resets, spent>>

Process(c) ==
  \/ Begin(c) \/ Find(c) \/ Adopt(c) \/ NextTimestamp(c) \/ CheckKnown(c)
  \/ CheckActive(c) \/ Rate(c) \/ SetMark(c)
  \/ \E m \in resets : Reset(c, m)

Serve ==
  \/ \E mark \in Periods :
       \/ \E c \in Confs : PutReset({}, mark) \/ PutReset({c.fetcher}, mark)
       \/ \E cols \in Posted, active \in BOOLEAN : CheckPost(cols, mark, active)
  \/ \E cols \in Confs \cup {NullRow}, active \in BOOLEAN : CheckPatch(cols, active)
  \/ CreateScope \/ UpdateScope

Next == Serve \/ \E c \in Confs : Process(c)

Spec == /\ Init /\ [][Next]_vars
        /\ WF_vars(CreateScope) /\ WF_vars(UpdateScope)
        /\ \A c \in Confs : WF_vars(Process(c))

-----------------------------------------------------------------------------
(* No period of a scope is stored twice for a configuration, unless a row  *)
(* that one processor made was adopted by another, a reset was asked while *)
(* the row had no scope key or was served under the lock of another        *)
(* configuration, a POST made a second row, or a PATCH moved the row.      *)
NothingTwice ==
  \A c \in Confs, p \in Periods : data[c][p] > 1 => why \ {"unfound"} # {}

(* A processor never forgets its row and makes a second one, but for the   *)
(* same reasons, or after the reset of a row of which only some columns    *)
(* are NULL.                                                               *)
OneRowEach ==
  \A i, j \in Ids :
    i # j /\ rows[i].by = rows[j].by /\ rows[i].by # Null => why # {}

(* The row of a configuration.                                             *)
Done(c) == \E i \in Having(c) : rows[i].mark = Max \/ ~rows[i].active

(* Whoever adopts whose row, every configuration comes to rate all the     *)
(* periods, or is deactivated.                                             *)
EventuallyRated == \A c \in Confs : <>Done(c)
=============================================================================
