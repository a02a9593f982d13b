------------------------- MODULE RatingModules_proofs -------------------------
(***************************************************************************)
(* Theorems about RatingModules: whatever the API changes between two      *)
(* reads of a worker, the modules and the scripts it ends up with were     *)
(* each there at some time while it read, and none that stayed is missing. *)
(***************************************************************************)
EXTENDS RatingModules, SequenceTheorems, FiniteSetTheorems, TLAPS

Scripts == [start : Nat, end : Nat, data : Versions, deleted : BOOLEAN]

Fields == {"pc", "quotes", "entry", "found", "keys", "order", "date", "todo",
           "code"}

TypeOK ==
  /\ now \in Nat /\ mark \in Nat
  /\ scripts \in Seq(Scripts)
  /\ edit = None \/ edit \in [id : Nat, row : {r \in Scripts : ~r.deleted}]
  /\ worker = [f \in Fields |-> worker[f]]
  /\ worker.pc \in {"idle", "enter", "load", "get", "next"}
  /\ worker.date \in Nat \cup {Building}
  /\ worker.pc \in {"enter", "load"} => worker.date = Building
  /\ worker.todo \subseteq DOMAIN scripts
  /\ worker.pc # "get" => worker.todo = {}

(* What is so while a worker reads is remembered.                          *)
Remembered == Reading => Facts \subseteq seen /\ steady \subseteq Facts

(* A script is missing when it is read only if it was deleted since it was *)
(* listed.                                                                 *)
MissingIsNoted == \A i \in worker.todo : scripts[i].deleted => PyScripts \in missed

Before == {EntryPoints[j] : j \in 1..(worker.entry - 1)}

Places ==
  worker.pc \in {"enter", "load", "get"} /\ worker.date = Building =>
    /\ worker.entry \in 1..(Len(EntryPoints) + 1)
    /\ worker.found \subseteq Before
    /\ worker.pc = "get" => /\ worker.entry <= Len(EntryPoints)
                            /\ Entry = PyScripts
    /\ worker.pc = "load" => /\ worker.entry <= Len(EntryPoints)
                             /\ Entry = HashMap
    /\ \A m \in Before :
         <<"enabled", m>> \in steady => m \in worker.found \/ m \in missed

FoundEnabled ==
  worker.pc \in {"enter", "load", "get", "next"} /\ worker.date = Building =>
    \A m \in worker.found : <<"enabled", m>> \in seen

AllFound ==
  Built => \A m \in Modules :
             <<"enabled", m>> \in steady
               => m \in worker.found \/ m \in missed

(* The worker has scripts, or is reading them.                             *)
HasScripts ==
  \/ worker.pc = "get" /\ (worker.date = Building \/ PyScripts \in worker.found)
  \/ /\ worker.pc \in {"enter", "load", "next"} /\ worker.date = Building
     /\ PyScripts \in worker.found

(* A script in memory that has not been read again may be an old one.      *)
ScriptsInv ==
  HasScripts =>
    /\ \A i \in DOMAIN worker.code \cup worker.todo : <<"active", i>> \in seen
    /\ \A i \in DOMAIN worker.code \ worker.todo :
         <<"text", i, worker.code[i]>> \in seen
    /\ \A i : <<"active", i>> \in steady => i \in DOMAIN worker.code \cup worker.todo

ModulesInv ==
  /\ TypeOK /\ Remembered /\ MissingIsNoted
  /\ Places /\ FoundEnabled /\ AllFound /\ ScriptsInv

-----------------------------------------------------------------------------
(***************************************************************************)
(* Types.                                                                  *)
(***************************************************************************)
LEMMA Numbers ==
  /\ MaxTime \in Nat /\ Forever \in Nat /\ Building \notin Nat
  /\ Periods \subseteq Nat /\ ImportTime \in Nat
  BY RatingModulesAssumption DEF Periods, Forever, Building, ImportTime

LEMMA EntryFacts ==
  /\ Len(EntryPoints) \in Nat
  /\ DOMAIN EntryPoints = 1..Len(EntryPoints)
  /\ \A m \in Modules : \E j \in 1..Len(EntryPoints) : EntryPoints[j] = m
  /\ \A j \in 1..Len(EntryPoints) : EntryPoints[j] \in Modules
  /\ \A j, k \in 1..Len(EntryPoints) : EntryPoints[j] = EntryPoints[k] => j = k
  <1>1. Len(EntryPoints) \in Nat /\ DOMAIN EntryPoints = 1..Len(EntryPoints)
    BY RatingModulesAssumption, LenProperties
  <1> QED
    BY <1>1, RatingModulesAssumption DEF Modules, Range, IsInjective

(* A worker like the one before, but for some fields.                      *)
LEMMA Appended ==
  ASSUME NEW s \in Seq(Scripts), NEW r \in Scripts
  PROVE  /\ Append(s, r) \in Seq(Scripts)
         /\ DOMAIN s \subseteq DOMAIN Append(s, r)
         /\ \A i \in DOMAIN s : Append(s, r)[i] = s[i]
  <1>1. /\ DOMAIN s = 1..Len(s) /\ Len(s) \in Nat
        /\ DOMAIN Append(s, r) = 1..(Len(s) + 1)
    BY AppendProperties, LenProperties
  <1> QED
    BY <1>1, AppendProperties

LEMMA Replaced ==
  ASSUME NEW s \in Seq(Scripts), NEW i \in DOMAIN s, NEW r \in Scripts
  PROVE  /\ [s EXCEPT ![i] = r] \in Seq(Scripts)
         /\ DOMAIN [s EXCEPT ![i] = r] = DOMAIN s
         /\ \A j \in DOMAIN s : [s EXCEPT ![i] = r][j] = IF j = i THEN r ELSE s[j]
  <1>1. DOMAIN s = 1..Len(s) /\ s \in [1..Len(s) -> Scripts]
    BY LenProperties, ElementOfSeq
  <1> QED
    BY <1>1, ExceptSeq

LEMMA ScriptTypes ==
  ASSUME TypeOK, NEW i \in DOMAIN scripts
  PROVE  /\ scripts[i] \in Scripts /\ i \in Nat
  BY LenProperties, ElementOfSeq DEF TypeOK

(* The requests of the API keep the scripts well formed, and bring none    *)
(* back from the dead nor kill any, but for DELETE.                        *)
LEMMA ScriptsServed ==
  ASSUME TypeOK, Serve
  PROVE  /\ scripts' \in Seq(Scripts)
         /\ DOMAIN scripts \subseteq DOMAIN scripts'
         /\ \A i \in DOMAIN scripts :
              \/ scripts'[i].deleted => scripts[i].deleted
              \/ DeleteScript(i)
  <1> USE Numbers, RatingModulesAssumption
  <1>1. CASE scripts' = scripts
    BY <1>1 DEF TypeOK
  <1>2. ASSUME NEW data \in Versions, NEW start \in Periods \cup {Unset},
               NEW end \in Periods \cup {Forever}, NEW force \in BOOLEAN,
               PostScript(data, start, end, force)
        PROVE  \E r \in Scripts : scripts' = Append(scripts, r)
    <2> DEFINE first == IF start = Unset THEN ImportTime ELSE start
    <2>1. first \in Nat /\ end \in Nat
      BY DEF Unset
    <2>2. scripts' = Append(scripts, Script(data, first, end))
      BY <1>2 DEF PostScript, WithScript
    <2> HIDE DEF first
    <2>3. Script(data, first, end) \in Scripts
      BY <2>1 DEF Script, Scripts
    <2> QED
      BY <2>2, <2>3, Zenon
  <1>3. CASE \E r \in Scripts : scripts' = Append(scripts, r)
    <2>1. PICK r \in Scripts : scripts' = Append(scripts, r)
      BY <1>3
    <2>2. /\ Append(scripts, r) \in Seq(Scripts)
          /\ DOMAIN scripts \subseteq DOMAIN Append(scripts, r)
          /\ \A i \in DOMAIN scripts : Append(scripts, r)[i] = scripts[i]
      BY Appended DEF TypeOK
    <2>3. \A i \in DOMAIN scripts : scripts'[i] = scripts[i]
      BY <2>1, <2>2, Zenon
    <2> QED
      BY <2>1, <2>2, <2>3, Zenon
  <1>4. ASSUME UpdateScript, scripts' # scripts
        PROVE  \E i \in DOMAIN scripts, r \in Scripts :
                 ~r.deleted /\ scripts' = [scripts EXCEPT ![i] = r]
    <2>1. /\ edit.row \in Scripts /\ ~edit.row.deleted
          /\ scripts' = [scripts EXCEPT ![edit.id] = edit.row]
      BY <1>4 DEF UpdateScript, TypeOK
    <2>2. CASE edit.id \in DOMAIN scripts
      BY <2>1, <2>2
    <2>3. CASE edit.id \notin DOMAIN scripts
      <3>1. scripts = [i \in DOMAIN scripts |-> scripts[i]]
        BY LenProperties, ElementOfSeq DEF TypeOK
      <3> QED
        BY <1>4, <2>1, <2>3, <3>1
    <2> QED
      BY <2>2, <2>3
  <1>5. CASE \E i \in DOMAIN scripts, r \in Scripts :
               ~r.deleted /\ scripts' = [scripts EXCEPT ![i] = r]
    <2>1. PICK i \in DOMAIN scripts, r \in Scripts :
            ~r.deleted /\ scripts' = [scripts EXCEPT ![i] = r]
      BY <1>5
    <2>2. /\ [scripts EXCEPT ![i] = r] \in Seq(Scripts)
          /\ DOMAIN [scripts EXCEPT ![i] = r] = DOMAIN scripts
          /\ \A j \in DOMAIN scripts :
               [scripts EXCEPT ![i] = r][j] = IF j = i THEN r ELSE scripts[j]
      BY Replaced DEF TypeOK
    <2> QED
      BY <2>1, <2>2
  <1>6. ASSUME NEW i \in DOMAIN scripts, DeleteScript(i)
        PROVE  /\ scripts' \in Seq(Scripts)
               /\ DOMAIN scripts \subseteq DOMAIN scripts'
               /\ \A j \in DOMAIN scripts : j # i => scripts'[j] = scripts[j]
    <2> DEFINE r == [scripts[i] EXCEPT !.deleted = TRUE]
    <2>1. r \in Scripts
      BY ScriptTypes DEF Scripts
    <2>2. scripts' = [scripts EXCEPT ![i] = r]
      BY <1>6 DEF DeleteScript
    <2> HIDE DEF r
    <2>3. /\ [scripts EXCEPT ![i] = r] \in Seq(Scripts)
          /\ DOMAIN [scripts EXCEPT ![i] = r] = DOMAIN scripts
          /\ \A j \in DOMAIN scripts :
               [scripts EXCEPT ![i] = r][j] = IF j = i THEN r ELSE scripts[j]
      BY <2>1, Replaced DEF TypeOK
    <2> QED
      BY <2>2, <2>3
  <1>7. \/ scripts' = scripts \/ UpdateScript
        \/ \E i \in DOMAIN scripts : DeleteScript(i)
        \/ \E data \in Versions, start \in Periods \cup {Unset},
              end \in Periods \cup {Forever}, force \in BOOLEAN :
              PostScript(data, start, end, force)
    BY DEF Serve, PutModule, SetState, SetPriority, BeginQuote, ValidateEdit,
       ValidateEnd, Edit, DeleteRule, tables
  <1>8. \/ scripts' = scripts \/ \E r \in Scripts : scripts' = Append(scripts, r)
        \/ \E i \in DOMAIN scripts, r \in Scripts :
             ~r.deleted /\ scripts' = [scripts EXCEPT ![i] = r]
        \/ \E i \in DOMAIN scripts : DeleteScript(i)
    BY <1>2, <1>4, <1>7, Zenon
  <1>9. CASE \E i \in DOMAIN scripts : DeleteScript(i)
    BY <1>6, <1>9, Zenon
  <1> QED
    BY <1>1, <1>3, <1>5, <1>8, <1>9, Zenon

LEMMA EditServed ==
  ASSUME TypeOK, Serve
  PROVE  edit' = None \/ edit' \in [id : Nat, row : {r \in Scripts : ~r.deleted}]
  <1> USE Numbers, RatingModulesAssumption
  <1>1. CASE edit' = edit \/ edit' = None
    BY <1>1 DEF TypeOK
  <1>2. ASSUME NEW i \in DOMAIN scripts, NEW data \in Versions,
               NEW start \in Periods \cup {Unset}, NEW end \in Periods \cup {Forever},
               ValidateEdit(i, data, start, end)
        PROVE  edit' \in [id : Nat, row : {r \in Scripts : ~r.deleted}]
    <2> DEFINE first == IF start = Unset THEN scripts[i].start ELSE start
    <2>1. first \in Nat
      BY ScriptTypes DEF Scripts
    <2> HIDE DEF first
    <2> DEFINE r == [scripts[i] EXCEPT !.data = data, !.start = first, !.end = end]
    <2>2. edit' = [id |-> i, row |-> r] /\ ~scripts[i].deleted
      BY <1>2 DEF ValidateEdit, Edit, first
    <2>3. r \in Scripts /\ r.deleted = scripts[i].deleted
      BY <2>1, ScriptTypes DEF Scripts
    <2> QED
      BY <2>2, <2>3, ScriptTypes
  <1>3. ASSUME NEW i \in DOMAIN scripts, NEW end \in Periods, ValidateEnd(i, end)
        PROVE  edit' \in [id : Nat, row : {r \in Scripts : ~r.deleted}]
    <2> DEFINE r == [scripts[i] EXCEPT !.end = end]
    <2>1. edit' = [id |-> i, row |-> r] /\ ~scripts[i].deleted
      BY <1>3 DEF ValidateEnd, Edit
    <2>2. r \in Scripts /\ r.deleted = scripts[i].deleted
      BY ScriptTypes DEF Scripts
    <2> QED
      BY <2>1, <2>2, ScriptTypes
  <1>4. \/ edit' = edit \/ edit' = None
        \/ \E i \in DOMAIN scripts : \/ \E end \in Periods : ValidateEnd(i, end)
             \/ \E data \in Versions, start \in Periods \cup {Unset},
                   end \in Periods \cup {Forever} : ValidateEdit(i, data, start, end)
    BY DEF Serve, PutModule, SetState, SetPriority, BeginQuote, PostScript,
       UpdateScript, DeleteScript, DeleteRule, requests
  <1> QED
    BY <1>1, <1>2, <1>3, <1>4

-----------------------------------------------------------------------------
(***************************************************************************)
(* What is so, and what stays so while the API changes the tables.         *)
(***************************************************************************)
Date == IF worker.date = Building THEN now ELSE worker.date

LEMMA FactsAre ==
  /\ \A i : <<"active", i>> \in Facts <=> i \in Active(Date)
  /\ \A i \in DOMAIN scripts : <<"text", i, scripts[i].data>> \in Facts
  /\ worker.date = Building =>
       \A m \in Modules : <<"enabled", m>> \in Facts <=> IsEnabled(m)
  <1>1. \A i : <<"active", i>> \in ScriptFacts(scripts, Date) <=> i \in Active(Date)
    BY DEF ScriptFacts, Active
  <1>2. \A i \in DOMAIN scripts :
          <<"text", i, scripts[i].data>> \in ScriptFacts(scripts, Date)
    BY DEF ScriptFacts
  <1>3. \A m : <<"enabled", m>> \notin ScriptFacts(scripts, Date)
    BY DEF ScriptFacts
  <1>4. \A m \in Modules : <<"enabled", m>> \in ModuleFacts <=> IsEnabled(m)
    BY DEF ModuleFacts
  <1>5. \A i : <<"active", i>> \notin ModuleFacts
    BY DEF ModuleFacts
  <1>6. Facts = ScriptFacts(scripts, Date)
                \cup IF worker.date = Building THEN ModuleFacts ELSE {}
    BY DEF Facts, Date
  <1> QED
    BY <1>1, <1>2, <1>3, <1>4, <1>5, <1>6

LEMMA ActiveAre ==
  ASSUME NEW t
  PROVE  /\ Active(t) \subseteq DOMAIN scripts
         /\ \A i \in Active(t) : ~scripts[i].deleted
  BY DEF Active, Applies

(* The invariants that a change of the tables leaves alone.                *)
LEMMA Observed ==
  ASSUME ModulesInv, UNCHANGED worker,
         Reading => seen' = seen \cup Facts' /\ steady' = steady \cap Facts',
         ~Reading => UNCHANGED <<seen, steady>>,
         missed \subseteq missed'
  PROVE  Remembered' /\ Places' /\ FoundEnabled' /\ AllFound' /\ ScriptsInv'
  <1>1. seen \subseteq seen' /\ steady' \subseteq steady
    OBVIOUS
  <1>2. Remembered'
    BY DEF Remembered, Reading
  <1>3. Places'
    BY <1>1 DEF ModulesInv, Places, Before, Entry
  <1>4. FoundEnabled'
    BY <1>1 DEF ModulesInv, FoundEnabled
  <1>5. AllFound'
    BY <1>1 DEF ModulesInv, AllFound, Built
  <1>6. ScriptsInv'
    BY <1>1 DEF ModulesInv, ScriptsInv, HasScripts
  <1> QED
    BY <1>2, <1>3, <1>4, <1>5, <1>6

LEMMA ServedIsObserved ==
  ASSUME ModulesInv, Serve \/ Tick, ~BeginQuote
  PROVE  /\ UNCHANGED <<worker, mark>>
         /\ Reading => seen' = seen \cup Facts' /\ steady' = steady \cap Facts'
         /\ ~Reading => UNCHANGED <<seen, steady>>
         /\ missed \subseteq missed'
  <1> DEFINE Left == /\ UNCHANGED <<now, tables, worker, mark, seen, steady>>
                     /\ missed \subseteq missed'
  <1>1. CASE Left
    <2>1. Facts' = Facts
      BY <1>1 DEF Facts, tables, ModuleFacts, IsEnabled, Priority
    <2> QED
      BY <1>1, <2>1 DEF ModulesInv, Remembered
  <1>2. CASE Observe /\ UNCHANGED <<worker, mark>> /\ (missed \subseteq missed')
    BY <1>2 DEF Observe
  <1>3. CASE Tick
    BY <1>2, <1>3 DEF Tick
  <1>4. CASE Serve /\ ~BeginQuote
    <2>1. \A m, asked : PutModule(m, asked) => Left
      BY DEF PutModule, history
    <2>2. \A i, row : Edit(i, row) => Left
      BY DEF Edit, history
    <2>3. DeleteRule => Left
      BY DEF DeleteRule
    <2>4. \/ Left
          \/ SetState \/ SetPriority \/ UpdateScript
          \/ \E data, start, end, force : PostScript(data, start, end, force)
          \/ \E i : DeleteScript(i)
      BY <1>4, <2>1, <2>2, <2>3, Zenon DEF Serve, ValidateEdit, ValidateEnd
    <2>5. \/ Left
          \/ Observe /\ UNCHANGED <<worker, mark>> /\ (missed \subseteq missed')
      BY <2>4 DEF SetState, SetPriority, UpdateScript, PostScript, DeleteScript
    <2> QED
      BY <1>1, <1>2, <2>5
  <1> QED
    BY <1>3, <1>4

LEMMA ServedKeepsInv ==
  ASSUME ModulesInv, Serve \/ Tick, ~BeginQuote
  PROVE  ModulesInv'
  <1>1. /\ UNCHANGED <<worker, mark>>
        /\ Reading => seen' = seen \cup Facts' /\ steady' = steady \cap Facts'
        /\ ~Reading => UNCHANGED <<seen, steady>>
        /\ missed \subseteq missed'
    BY ServedIsObserved
  <1>2. /\ scripts' \in Seq(Scripts)
        /\ DOMAIN scripts \subseteq DOMAIN scripts'
        /\ \A i \in DOMAIN scripts :
             \/ scripts'[i].deleted => scripts[i].deleted
             \/ DeleteScript(i)
    <2>1. CASE Tick
      BY <2>1 DEF Tick, tables, ModulesInv, TypeOK
    <2> QED
      BY <2>1, ScriptsServed DEF ModulesInv
  <1>3. edit' = None \/ edit' \in [id : Nat, row : {r \in Scripts : ~r.deleted}]
    <2>1. CASE Tick
      BY <2>1 DEF Tick, requests, ModulesInv, TypeOK
    <2> QED
      BY <2>1, EditServed DEF ModulesInv
  <1>4. now' \in Nat
    <2>1. now' = now \/ now' = now + 1
      BY DEF Tick, Serve, PutModule, SetState, SetPriority, PostScript,
         ValidateEdit, ValidateEnd, Edit, UpdateScript, DeleteScript, DeleteRule
    <2> QED
      BY <2>1 DEF ModulesInv, TypeOK
  <1>5. TypeOK'
    BY <1>1, <1>2, <1>3, <1>4 DEF ModulesInv, TypeOK
  <1>6. MissingIsNoted'
    BY <1>1, <1>2 DEF ModulesInv, MissingIsNoted, TypeOK, DeleteScript
  <1>7. Remembered' /\ Places' /\ FoundEnabled' /\ AllFound' /\ ScriptsInv'
    BY <1>1, Observed
  <1> QED
    BY <1>5, <1>6, <1>7 DEF ModulesInv

-----------------------------------------------------------------------------
(***************************************************************************)
(* The steps of the worker.                                                *)
(***************************************************************************)
LEMMA IdleFields ==
  /\ Idle = [f \in Fields |-> Idle[f]]
  /\ Idle.pc = "idle" /\ Idle.date = Building /\ Idle.todo = {}
  /\ Idle.found = {} /\ Idle.entry = 0
  BY DEF Idle, Fields

(* What a worker's step leaves of the types.                               *)
LEMMA WorkerTypes ==
  ASSUME TypeOK, UNCHANGED <<now, tables, requests>>,
         mark' \in Nat,
         worker' = [f \in Fields |-> worker'[f]],
         worker'.pc \in {"idle", "enter", "load", "get", "next"},
         worker'.date \in Nat \cup {Building},
         worker'.pc \in {"enter", "load"} => worker'.date = Building,
         worker'.todo \subseteq DOMAIN scripts,
         worker'.pc # "get" => worker'.todo = {}
  PROVE  TypeOK'
  BY DEF TypeOK, tables, requests

LEMMA StopKeepsInv ==
  ASSUME ModulesInv, Stop, UNCHANGED <<now, tables, requests, mark>>
  PROVE  ModulesInv'
  <1>1. worker' = Idle
    BY DEF Stop
  <1>2. TypeOK'
    BY <1>1, IdleFields, WorkerTypes DEF ModulesInv, TypeOK
  <1> QED
    BY <1>1, <1>2, IdleFields DEF ModulesInv, Remembered, Reading, MissingIsNoted,
       Places, FoundEnabled, AllFound, Built, ScriptsInv, HasScripts

LEMMA BeginKeepsInv ==
  ASSUME ModulesInv, Begin \/ BeginQuote
  PROVE  ModulesInv'
  <1>1. /\ worker' = [f \in Fields |-> worker'[f]]
        /\ worker'.pc = "enter" /\ worker'.date = Building /\ worker'.todo = {}
        /\ worker'.found = {} /\ worker'.entry = 1
    BY DEF Begin, BeginQuote, Fresh, Idle, Fields
  <1>2. /\ UNCHANGED <<now, tables, requests, mark>>
        /\ seen' = Facts' /\ steady' = Facts'
    BY DEF Begin, BeginQuote, Fresh, WorkerOnly
  <1>3. TypeOK'
    BY <1>1, <1>2, WorkerTypes DEF ModulesInv, TypeOK
  <1>4. Remembered'
    BY <1>2 DEF Remembered
  <1>5. Places'
    BY <1>1, EntryFacts DEF Places, Before
  <1> QED
    BY <1>1, <1>3, <1>4, <1>5 DEF ModulesInv, MissingIsNoted, FoundEnabled, AllFound,
       Built, ScriptsInv, HasScripts

(* What a listing of the scripts brings, before the modules are made or    *)
(* before a period.                                                        *)
LEMMA ListingFields ==
  ASSUME ModulesInv, NEW date \in Nat \cup {Building}
  PROVE  LET w   == Listing(worker, date)
             ids == Active(IF date = Building THEN now ELSE date)
         IN  /\ w = [f \in Fields |-> w[f]]
             /\ w.pc = "get" /\ w.date = date /\ w.todo = ids
             /\ DOMAIN w.code \subseteq ids
             /\ w.found = worker.found /\ w.entry = worker.entry
  <1> DEFINE ids == Active(IF date = Building THEN now ELSE date)
             code == Purge(worker.code, ids)
  <1>1. DOMAIN code \subseteq ids
    BY DEF Purge
  <1>2. Listing(worker, date)
          = [worker EXCEPT !.pc = "get", !.date = date, !.todo = ids, !.code = code]
    BY DEF Listing
  <1> HIDE DEF ids, code
  <1>3. worker = [f \in Fields |-> worker[f]]
    BY DEF ModulesInv, TypeOK
  <1>4. LET w == Listing(worker, date)
        IN  /\ w = [f \in Fields |-> w[f]]
            /\ w.pc = "get" /\ w.date = date /\ w.todo = ids /\ w.code = code
            /\ w.found = worker.found /\ w.entry = worker.entry
    BY <1>2, <1>3 DEF Fields
  <1> QED
    BY <1>1, <1>4 DEF ids

LEMMA ListScriptsKeepsInv ==
  ASSUME ModulesInv, ListScripts
  PROVE  ModulesInv'
  <1>1. /\ worker.pc = "enter" /\ worker.date = Building
        /\ worker.entry <= Len(EntryPoints) /\ Entry = PyScripts
        /\ worker' = Listing(worker, Building)
        /\ UNCHANGED <<now, tables, requests, mark, seen, steady, missed>>
    BY DEF ListScripts, Entering, WorkerOnly, history, ModulesInv, TypeOK
  <1>2. /\ worker' = [f \in Fields |-> worker'[f]]
        /\ worker'.pc = "get" /\ worker'.date = Building /\ worker'.todo = Active(now)
        /\ DOMAIN worker'.code \subseteq Active(now)
        /\ worker'.found = worker.found /\ worker'.entry = worker.entry
    BY <1>1, ListingFields
  <1>3. Active(now) \subseteq DOMAIN scripts /\ \A i \in Active(now) : ~scripts[i].deleted
    BY ActiveAre
  <1>4. TypeOK'
    BY <1>1, <1>2, <1>3, WorkerTypes DEF ModulesInv, TypeOK
  <1>5. Facts' = Facts
    BY <1>1, <1>2 DEF Facts, tables, ModuleFacts, IsEnabled, Priority
  <1>6. Facts \subseteq seen /\ steady \subseteq Facts
    BY <1>1 DEF ModulesInv, Remembered, Reading
  <1>7. Remembered' /\ MissingIsNoted'
    BY <1>1, <1>2, <1>3, <1>5, <1>6 DEF Remembered, MissingIsNoted, tables
  <1>8. Places'
    <2>1. PyScripts \notin Before
      BY <1>1, EntryFacts DEF Before, Entry, ModulesInv, Places
    <2>2. Before' = Before /\ Entry' = Entry
      BY <1>2 DEF Before, Entry
    <2> QED
      BY <1>1, <1>2, <2>1, <2>2 DEF ModulesInv, Places
  <1>9. FoundEnabled' /\ AllFound'
    BY <1>1, <1>2 DEF ModulesInv, FoundEnabled, AllFound, Built
  <1>10. ScriptsInv'
    <2>1. \A i : <<"active", i>> \in Facts <=> i \in Active(now)
      BY <1>1, FactsAre DEF Date
    <2> QED
      BY <1>1, <1>2, <1>6, <2>1 DEF ScriptsInv
  <1> QED
    BY <1>4, <1>7, <1>8, <1>9, <1>10 DEF ModulesInv

LEMMA NextPeriodKeepsInv ==
  ASSUME ModulesInv, NextPeriod
  PROVE  ModulesInv'
  <1>1. worker.pc = "next" /\ UNCHANGED <<now, tables, requests, mark>>
    BY DEF NextPeriod, WorkerOnly
  <1>2. CASE ~Ready
    BY <1>1, <1>2, StopKeepsInv DEF NextPeriod
  <1>3. CASE Ready
    <2>1. mark \in Nat /\ mark # Building
      BY <1>3, Numbers DEF Ready
    <2>2. seen' = Facts' /\ steady' = Facts'
      BY <1>3 DEF NextPeriod, Fresh
    <2>3. /\ Active(mark) \subseteq DOMAIN scripts
          /\ \A i \in Active(mark) : ~scripts[i].deleted
      BY ActiveAre
    <2>4. /\ worker' = [f \in Fields |-> worker'[f]]
          /\ worker'.pc = "get" /\ worker'.date = mark
          /\ worker'.found = worker.found
          /\ \/ /\ worker'.todo = Active(mark)
                /\ DOMAIN worker'.code \subseteq Active(mark)
             \/ worker'.todo = {} /\ PyScripts \notin worker.found
      <3>1. CASE PyScripts \in worker.found
        <4>1. worker' = Listing(worker, mark)
          BY <1>3, <3>1 DEF NextPeriod, Fresh
        <4> QED
          BY <2>1, <4>1, ListingFields
      <3>2. CASE PyScripts \notin worker.found
        <4>1. worker' = [worker EXCEPT !.pc = "get", !.date = mark]
          BY <1>3, <3>2 DEF NextPeriod, Fresh
        <4>2. worker = [f \in Fields |-> worker[f]] /\ worker.todo = {}
          BY <1>1 DEF ModulesInv, TypeOK
        <4> QED
          BY <3>2, <4>1, <4>2 DEF Fields
      <3> QED
        BY <3>1, <3>2
    <2>5. TypeOK'
      BY <1>1, <2>1, <2>3, <2>4, WorkerTypes DEF ModulesInv
    <2>6. Remembered' /\ MissingIsNoted'
      BY <1>1, <2>2, <2>3, <2>4 DEF Remembered, MissingIsNoted, tables
    <2>7. Places' /\ FoundEnabled' /\ AllFound'
      BY <2>1, <2>4 DEF Places, FoundEnabled, AllFound, Built
    <2>8. ScriptsInv'
      <3>1. \A i : <<"active", i>> \in Facts' <=> i \in Active(mark)
        <4>1. Date' = mark /\ Active(Date)' = Active(mark)
          BY <1>1, <2>1, <2>4 DEF Date, Active, tables
        <4>2. (\A i : <<"active", i>> \in Facts <=> i \in Active(Date))'
          BY FactsAre, PTL
        <4> QED
          BY <4>1, <4>2
      <3> QED
        BY <2>1, <2>2, <2>4, <3>1 DEF ScriptsInv, HasScripts
    <2> QED
      BY <2>5, <2>6, <2>7, <2>8 DEF ModulesInv
  <1> QED
    BY <1>2, <1>3

LEMMA GetScriptKeepsInv ==
  ASSUME ModulesInv, NEW i \in DOMAIN scripts, GetScript(i)
  PROVE  ModulesInv'
  <1> DEFINE code == Loaded(worker.code, i)
  <1>1. /\ worker.pc = "get" /\ i \in worker.todo
        /\ worker' = [worker EXCEPT !.todo = @ \ {i}, !.code = code]
        /\ UNCHANGED <<now, tables, requests, mark, seen, steady, missed>>
    BY DEF GetScript, WorkerOnly, history
  <1>2. /\ DOMAIN code = DOMAIN worker.code \cup {i}
        /\ code[i] = scripts[i].data
        /\ \A j \in DOMAIN worker.code \ {i} : code[j] = worker.code[j]
    BY DEF Loaded
  <1> HIDE DEF code
  <1>3. /\ worker' = [f \in Fields |-> worker'[f]]
        /\ worker'.pc = "get" /\ worker'.date = worker.date
        /\ worker'.todo = worker.todo \ {i} /\ worker'.code = code
        /\ worker'.found = worker.found /\ worker'.entry = worker.entry
    <2>1. worker = [f \in Fields |-> worker[f]]
      BY DEF ModulesInv, TypeOK
    <2> QED
      BY <1>1, <2>1 DEF Fields
  <1>4. TypeOK'
    BY <1>1, <1>3, WorkerTypes DEF ModulesInv, TypeOK
  <1>5. Facts' = Facts
    BY <1>1, <1>3 DEF Facts, tables, ModuleFacts, IsEnabled, Priority
  <1>6. Facts \subseteq seen /\ steady \subseteq Facts
    BY <1>1 DEF ModulesInv, Remembered, Reading
  <1>7. Remembered' /\ MissingIsNoted'
    BY <1>1, <1>3, <1>5, <1>6 DEF Remembered, ModulesInv, MissingIsNoted, tables
  <1>8. Places' /\ FoundEnabled' /\ AllFound'
    BY <1>1, <1>3 DEF ModulesInv, Places, FoundEnabled, AllFound, Built, Before, Entry
  <1>9. ScriptsInv'
    <2>1. <<"text", i, scripts[i].data>> \in seen
      BY <1>6, FactsAre
    <2> QED
      BY <1>1, <1>2, <1>3, <2>1 DEF ModulesInv, ScriptsInv, HasScripts
  <1> QED
    BY <1>4, <1>7, <1>8, <1>9 DEF ModulesInv

(* Once an entry is done with, it is among those before.                   *)
LEMMA NextBefore ==
  ASSUME worker.entry \in 1..Len(EntryPoints), worker'.entry = worker.entry + 1
  PROVE  /\ Before' = Before \cup {Entry} /\ Entry \in Modules
         /\ Entry \notin Before
         /\ worker'.entry \in 1..(Len(EntryPoints) + 1)
  <1>1. /\ 1..(worker'.entry - 1) = (1..(worker.entry - 1)) \cup {worker.entry}
        /\ worker'.entry \in 1..(Len(EntryPoints) + 1)
    BY EntryFacts
  <1>2. Before' = Before \cup {Entry}
    BY <1>1 DEF Before, Entry
  <1>3. Entry \in Modules
    BY EntryFacts DEF Entry
  <1>4. Entry \notin Before
    BY EntryFacts DEF Entry, Before
  <1> QED
    BY <1>1, <1>2, <1>3, <1>4

(* HashMap's constructor reads its rules before it is asked anything.      *)
LEMMA ListRulesKeepsInv ==
  ASSUME ModulesInv, ListRules
  PROVE  ModulesInv'
  <1>1. /\ worker.pc = "enter" /\ worker.entry <= Len(EntryPoints)
        /\ Entry = HashMap /\ worker' = [worker EXCEPT !.pc = "load"]
        /\ UNCHANGED <<now, tables, requests, mark, history>>
    BY DEF ListRules, Entering, WorkerOnly
  <1>2. /\ worker = [f \in Fields |-> worker[f]]
        /\ worker.date = Building /\ worker.todo = {}
    BY <1>1 DEF ModulesInv, TypeOK
  <1>3. /\ worker' = [f \in Fields |-> worker'[f]]
        /\ worker'.pc = "load" /\ worker'.date = Building /\ worker'.todo = {}
        /\ worker'.found = worker.found /\ worker'.entry = worker.entry
        /\ worker'.code = worker.code
    BY <1>1, <1>2 DEF Fields
  <1>4. TypeOK'
    BY <1>1, <1>3, WorkerTypes DEF ModulesInv, TypeOK
  <1>5. Facts' = Facts
    BY <1>1, <1>2, <1>3 DEF Facts, tables, ModuleFacts, IsEnabled, Priority
  <1>6. Remembered' /\ MissingIsNoted'
    BY <1>1, <1>3, <1>5 DEF ModulesInv, Remembered, Reading, MissingIsNoted, history
  <1>7. Places'
    BY <1>1, <1>2, <1>3 DEF ModulesInv, Places, Before, Entry, history
  <1>8. FoundEnabled' /\ AllFound'
    BY <1>1, <1>2, <1>3 DEF ModulesInv, FoundEnabled, AllFound, Built, history
  <1>9. ScriptsInv'
    BY <1>1, <1>2, <1>3 DEF ModulesInv, ScriptsInv, HasScripts, history
  <1> QED
    BY <1>4, <1>6, <1>7, <1>8, <1>9 DEF ModulesInv

(* A module is left out with its scripts, if it has any.                   *)
LEMMA SkipKeepsInv ==
  ASSUME ModulesInv, worker' = Skip(worker), worker.date = Building,
         worker.pc \in {"enter", "load", "get"}, worker.entry <= Len(EntryPoints),
         Entry \in missed \/ ~IsEnabled(Entry),
         UNCHANGED <<now, tables, requests, mark, history>>
  PROVE  ModulesInv'
  <1>1. /\ worker' = [f \in Fields |-> worker'[f]]
        /\ worker'.pc = "enter" /\ worker'.date = Building /\ worker'.todo = {}
        /\ worker'.found = worker.found /\ worker'.entry = worker.entry + 1
        /\ Entry # PyScripts => worker'.code = worker.code
    <2>1. worker = [f \in Fields |-> worker[f]]
      BY DEF ModulesInv, TypeOK
    <2> QED
      BY <2>1 DEF Skip, Fields
  <1>2. TypeOK'
    BY <1>1, WorkerTypes DEF ModulesInv, TypeOK
  <1>3. Facts' = Facts
    BY <1>1 DEF Facts, tables, ModuleFacts, IsEnabled, Priority
  <1>4. Facts \subseteq seen /\ steady \subseteq Facts
    BY DEF ModulesInv, Remembered, Reading
  <1>5. Remembered' /\ MissingIsNoted'
    BY <1>1, <1>3, <1>4 DEF Remembered, MissingIsNoted, history
  <1>6. /\ Before' = Before \cup {Entry} /\ Entry \in Modules
        /\ Entry \notin Before
        /\ worker'.entry \in 1..(Len(EntryPoints) + 1)
    BY <1>1, NextBefore, EntryFacts DEF ModulesInv, Places
  <1>7. <<"enabled", Entry>> \in steady => Entry \in missed
    BY <1>4, <1>6, FactsAre
  <1>8. /\ worker.found \subseteq Before
        /\ worker.pc = "get" => Entry = PyScripts
        /\ \A m \in Before : <<"enabled", m>> \in steady
             => m \in worker.found \/ m \in missed
    BY DEF ModulesInv, Places
  <1>9. Places'
    BY <1>1, <1>6, <1>7, <1>8 DEF Places, history
  <1>10. FoundEnabled' /\ AllFound'
    BY <1>1 DEF ModulesInv, FoundEnabled, AllFound, Built, history
  <1>11. ScriptsInv'
    <2>1. CASE Entry = PyScripts
      BY <1>1, <1>6, <1>8, <2>1 DEF ScriptsInv, HasScripts
    <2>2. CASE Entry # PyScripts
      <3>1. worker.todo = {} /\ worker.pc \in {"enter", "load"}
        BY <1>8, <2>2 DEF ModulesInv, TypeOK
      <3>2. HasScripts' => HasScripts
        BY <1>1, <3>1 DEF HasScripts
      <3> QED
        BY <1>1, <2>2, <3>1, <3>2 DEF ModulesInv, ScriptsInv, history
    <2> QED
      BY <2>1, <2>2
  <1> QED
    BY <1>2, <1>5, <1>9, <1>10, <1>11 DEF ModulesInv

LEMMA LoadFailsKeepsInv ==
  ASSUME ModulesInv, NEW i \in DOMAIN scripts, LoadFails(i)
  PROVE  ModulesInv'
  <1>1. /\ worker.pc = "get" /\ i \in worker.todo /\ scripts[i].deleted
        /\ UNCHANGED <<now, tables, requests, mark>>
    BY DEF LoadFails, WorkerOnly
  <1>2. CASE worker.date # Building
    BY <1>1, <1>2, StopKeepsInv DEF LoadFails
  <1>3. CASE worker.date = Building
    <2>1. PyScripts \in missed
      BY <1>1 DEF ModulesInv, MissingIsNoted
    <2>2. worker.entry <= Len(EntryPoints) /\ Entry = PyScripts
      BY <1>1, <1>3 DEF ModulesInv, Places
    <2>3. worker' = Skip(worker) /\ UNCHANGED history
      BY <1>3 DEF LoadFails
    <2> QED
      BY <1>1, <1>3, <2>1, <2>2, <2>3, SkipKeepsInv
  <1> QED
    BY <1>2, <1>3

LEMMA RulesFailKeepsInv ==
  ASSUME ModulesInv, RulesFail
  PROVE  ModulesInv'
  <1>1. HashMap \in missed /\ UNCHANGED <<now, tables, requests, mark>>
    BY DEF RulesFail, WorkerOnly
  <1>2. CASE Stop
    BY <1>1, <1>2, StopKeepsInv
  <1>3. CASE worker.pc = "load" /\ worker' = Skip(worker) /\ UNCHANGED history
    <2>1. worker.date = Building
      BY <1>3 DEF ModulesInv, TypeOK
    <2>2. worker.entry <= Len(EntryPoints) /\ Entry = HashMap
      BY <1>3, <2>1 DEF ModulesInv, Places
    <2> QED
      BY <1>1, <1>3, <2>1, <2>2, SkipKeepsInv
  <1> QED
    BY <1>2, <1>3 DEF RulesFail

LEMMA CheckEnabledKeepsInv ==
  ASSUME ModulesInv, CheckEnabled
  PROVE  ModulesInv'
  <1>1. /\ worker.pc \in {"enter", "load", "get"} /\ worker.date = Building
        /\ worker.entry \in 1..Len(EntryPoints) /\ worker.todo = {}
        /\ worker.pc = "get" <=> Entry = PyScripts
        /\ UNCHANGED <<now, tables, requests, mark, history>>
    <2>1. Made /\ UNCHANGED <<now, tables, requests, mark, history>>
      BY DEF CheckEnabled, WorkerOnly
    <2>2. /\ worker.pc \in {"enter", "load", "get"} /\ worker.date = Building
          /\ worker.todo = {}
      BY <2>1 DEF Made, Entering, ModulesInv, TypeOK
    <2>3. worker.entry <= Len(EntryPoints) /\ (worker.pc = "get" <=> Entry = PyScripts)
      BY <2>1, <2>2, RatingModulesAssumption DEF Made, Entering, ModulesInv, Places
    <2>4. worker.entry \in 1..Len(EntryPoints)
      BY <2>2, <2>3, EntryFacts DEF ModulesInv, Places
    <2> QED
      BY <2>1, <2>2, <2>3, <2>4
  <1>2. worker = [f \in Fields |-> worker[f]]
    BY DEF ModulesInv, TypeOK
  <1>3. Facts \subseteq seen /\ steady \subseteq Facts
    BY <1>1 DEF ModulesInv, Remembered, Reading
  <1>4. <<"enabled", Entry>> \in Facts <=> IsEnabled(Entry)
    BY <1>1, EntryFacts, FactsAre DEF Entry
  <1>5. /\ worker.found \subseteq Before
        /\ \A m \in Before : <<"enabled", m>> \in steady
             => m \in worker.found \/ m \in missed
        /\ \A m \in worker.found : <<"enabled", m>> \in seen
    BY <1>1 DEF ModulesInv, Places, FoundEnabled
  <1>6. CASE IsEnabled(Entry)
    <2>1. /\ worker' = [f \in Fields |-> worker'[f]]
          /\ worker'.pc = "enter" /\ worker'.date = Building
          /\ worker'.todo = {} /\ worker'.code = worker.code
          /\ worker'.entry = worker.entry + 1
          /\ worker'.found = worker.found \cup {Entry}
      BY <1>1, <1>2, <1>6 DEF CheckEnabled, Fields
    <2>2. TypeOK'
      BY <1>1, <2>1, WorkerTypes DEF ModulesInv, TypeOK
    <2>3. Facts' = Facts
      BY <1>1, <2>1 DEF Facts, tables, ModuleFacts, IsEnabled, Priority
    <2>4. Remembered' /\ MissingIsNoted'
      BY <1>1, <1>3, <2>1, <2>3 DEF Remembered, MissingIsNoted, history
    <2>5. /\ Before' = Before \cup {Entry} /\ Entry \notin Before
          /\ worker'.entry \in 1..(Len(EntryPoints) + 1)
      BY <1>1, <2>1, NextBefore
    <2>6. Places'
      BY <1>1, <1>5, <2>1, <2>5 DEF Places, history
    <2>7. FoundEnabled' /\ AllFound'
      BY <1>1, <1>3, <1>4, <1>5, <1>6, <2>1 DEF FoundEnabled, AllFound, Built, history
    <2>8. ScriptsInv'
      <3>1. PyScripts \in worker'.found => HasScripts
        BY <1>1, <2>1 DEF HasScripts
      <3> QED
        BY <1>1, <2>1, <3>1 DEF ModulesInv, ScriptsInv, HasScripts, history
    <2> QED
      BY <2>2, <2>4, <2>6, <2>7, <2>8 DEF ModulesInv
  <1>7. CASE ~IsEnabled(Entry)
    BY <1>1, <1>7, SkipKeepsInv DEF CheckEnabled
  <1> QED
    BY <1>6, <1>7

LEMMA ReadPriorityKeepsInv ==
  ASSUME ModulesInv, ReadPriority
  PROVE  ModulesInv'
  <1>1. /\ worker.pc = "enter" /\ worker.entry > Len(EntryPoints)
        /\ worker.date = Building /\ worker.todo = {}
        /\ UNCHANGED <<now, tables, requests, mark, history>>
    BY DEF ReadPriority, WorkerOnly, ModulesInv, TypeOK
  <1>2. \/ \E order : worker' = [worker EXCEPT !.pc = "next", !.keys = <<>>,
                                              !.order = order]
        \/ \E keys : worker' = [worker EXCEPT !.keys = keys]
    BY DEF ReadPriority
  <1>3. /\ worker' = [f \in Fields |-> worker'[f]]
        /\ worker'.pc \in {"enter", "next"} /\ worker'.date = Building
        /\ worker'.todo = {} /\ worker'.found = worker.found
        /\ worker'.entry = worker.entry /\ worker'.code = worker.code
    <2>1. worker = [f \in Fields |-> worker[f]]
      BY DEF ModulesInv, TypeOK
    <2> QED
      BY <1>1, <1>2, <2>1 DEF Fields
  <1>4. TypeOK'
    BY <1>1, <1>3, WorkerTypes DEF ModulesInv, TypeOK
  <1>5. Facts' = Facts
    BY <1>1, <1>3 DEF Facts, tables, ModuleFacts, IsEnabled, Priority
  <1>6. Remembered' /\ MissingIsNoted'
    BY <1>1, <1>3, <1>5 DEF ModulesInv, Remembered, Reading, MissingIsNoted, history
  <1>7. Places' /\ FoundEnabled'
    BY <1>1, <1>3 DEF ModulesInv, Places, FoundEnabled, Before, history
  <1>8. AllFound'
    <2>1. Modules \subseteq Before
      BY <1>1, EntryFacts DEF ModulesInv, Places, Before
    <2> QED
      BY <1>1, <1>3, <2>1 DEF ModulesInv, Places, AllFound, history
  <1>9. ScriptsInv'
    BY <1>1, <1>3 DEF ModulesInv, ScriptsInv, HasScripts, history
  <1> QED
    BY <1>4, <1>6, <1>7, <1>8, <1>9 DEF ModulesInv

LEMMA RateKeepsInv ==
  ASSUME ModulesInv, Rate
  PROVE  ModulesInv'
  <1>1. /\ worker.todo = {} /\ worker.date # Building /\ mark' \in Nat
        /\ worker' = [worker EXCEPT !.pc = "next"]
        /\ UNCHANGED <<now, tables, requests>>
    <2>1. mark' \in Nat
      BY DEF Rate, ModulesInv, TypeOK
    <2> QED
      BY <2>1 DEF Rate
  <1>2. /\ worker' = [f \in Fields |-> worker'[f]]
        /\ worker'.pc = "next" /\ worker'.date = worker.date /\ worker'.todo = {}
    <2>1. worker = [f \in Fields |-> worker[f]]
      BY DEF ModulesInv, TypeOK
    <2> QED
      BY <1>1, <2>1 DEF Fields
  <1>3. TypeOK'
    BY <1>1, <1>2, WorkerTypes DEF ModulesInv, TypeOK
  <1> QED
    BY <1>1, <1>2, <1>3 DEF ModulesInv, Remembered, Reading, MissingIsNoted, Places,
       FoundEnabled, AllFound, Built, ScriptsInv, HasScripts

-----------------------------------------------------------------------------
LEMMA InitModulesInv ==
  ASSUME Init
  PROVE  ModulesInv
  <1>1. scripts \in Seq(Scripts)
    <2> DEFINE data == CHOOSE d \in Versions : TRUE
    <2>1. data \in Versions
      BY RatingModulesAssumption
    <2>2. scripts = <<Script(data, 0, Forever)>>
      BY DEF Init
    <2> HIDE DEF data
    <2>3. Script(data, 0, Forever) \in Scripts
      BY <2>1, Numbers DEF Script, Scripts
    <2> QED
      BY <2>2, <2>3
  <1>2. TypeOK
    BY <1>1, IdleFields DEF Init, TypeOK
  <1> QED
    BY <1>2, IdleFields DEF Init, ModulesInv, Remembered, Reading, MissingIsNoted,
       Places, FoundEnabled, AllFound, Built, ScriptsInv, HasScripts

LEMMA StepModulesInv ==
  ASSUME ModulesInv, [Next]_vars
  PROVE  ModulesInv'
  <1>1. CASE UNCHANGED vars
    <2>1. UNCHANGED <<now, info, scripts, put, edit, worker, mark, seen, steady,
                      missed>>
      BY <1>1 DEF vars, tables, requests, history
    <2>2. Facts' = Facts
      BY <2>1 DEF Facts, ModuleFacts, IsEnabled, Priority
    <2>3. Remembered' /\ Places' /\ FoundEnabled' /\ AllFound' /\ ScriptsInv'
      BY <2>1, <2>2, Observed DEF ModulesInv, Remembered
    <2>4. TypeOK' /\ MissingIsNoted'
      BY <2>1 DEF ModulesInv, TypeOK, MissingIsNoted
    <2> QED
      BY <2>3, <2>4 DEF ModulesInv
  <1>2. CASE Work
    <2>1. CASE \E i \in DOMAIN scripts : GetScript(i) \/ LoadFails(i)
      BY <2>1, GetScriptKeepsInv, LoadFailsKeepsInv
    <2>2. CASE Quote
      BY <2>2, StopKeepsInv DEF Quote, WorkerOnly
    <2> QED
      BY <1>2, <2>1, <2>2, BeginKeepsInv, ListScriptsKeepsInv, ListRulesKeepsInv,
         RulesFailKeepsInv, CheckEnabledKeepsInv, ReadPriorityKeepsInv,
         NextPeriodKeepsInv, RateKeepsInv DEF Work
  <1>3. CASE Serve \/ Tick
    BY <1>3, ServedKeepsInv, BeginKeepsInv
  <1>4. CASE Crash
    BY <1>4, StopKeepsInv DEF Crash
  <1> QED
    BY <1>1, <1>2, <1>3, <1>4 DEF Next

LEMMA AlwaysModulesInv == Spec => []ModulesInv
  BY InitModulesInv, StepModulesInv, PTL DEF Spec

(* A worker rates with modules that were each enabled at some time while   *)
(* it was made, and leaves out none that was enabled all that time, unless *)
(* a script or a rule it was reading was deleted, so that it could not be  *)
(* made: check_enabled runs for each module apart, and                     *)
(* _load_rating_processors takes what it leaves.                           *)
THEOREM RatesWithTheEnabled == Spec => []EnabledModulesRate
  <1>1. ModulesInv => EnabledModulesRate
    BY DEF ModulesInv, FoundEnabled, AllFound, EnabledModulesRate, Built
  <1> QED
    BY <1>1, AlwaysModulesInv, PTL

(* The scripts that rate a period, or a quote, were each active and had    *)
(* their text at some time while they were read, and none that was active  *)
(* all that time is missing: load_scripts_in_memory lists them, drops what *)
(* it does not find and reads each one again.                              *)
THEOREM RatesWithItsScripts == Spec => []RatedByItsScripts
  <1>1. ASSUME ModulesInv, PyScripts \in worker.found, PeriodLoaded \/ Built
        PROVE  /\ \A i \in DOMAIN worker.code :
                    <<"active", i>> \in seen /\ <<"text", i, worker.code[i]>> \in seen
               /\ \A i \in DOMAIN scripts :
                    <<"active", i>> \in steady => i \in DOMAIN worker.code
    <2>1. worker.todo = {} /\ HasScripts
      BY <1>1 DEF PeriodLoaded, Built, HasScripts, ModulesInv, TypeOK
    <2> QED
      BY <1>1, <2>1 DEF ModulesInv, ScriptsInv
  <1>2. ModulesInv => RatedByItsScripts
    BY <1>1 DEF RatedByItsScripts
  <1> QED
    BY <1>2, AlwaysModulesInv, PTL

-----------------------------------------------------------------------------
LEMMA PositionFacts ==
  /\ IsFiniteSet(Modules)
  /\ \A m \in Modules : /\ Position(m) \in 1..Len(EntryPoints)
                        /\ EntryPoints[Position(m)] = m
  <1> DEFINE N == Len(EntryPoints)
  <1>1. N \in Nat /\ IsFiniteSet(1..N)
    BY EntryFacts, FS_Interval
  <1> DEFINE f == [j \in 1..N |-> EntryPoints[j]]
  <1>2. f \in Surjection(1..N, Modules)
    BY EntryFacts DEF Surjection
  <1>3. IsFiniteSet(Modules)
    BY <1>1, <1>2, FS_Surjection
  <1>4. \A m \in Modules : /\ Position(m) \in 1..N
                           /\ EntryPoints[Position(m)] = m
    <2> TAKE m \in Modules
    <2>1. \E j \in DOMAIN EntryPoints : EntryPoints[j] = m
      BY EntryFacts
    <2> QED
      BY <2>1, EntryFacts DEF Position
  <1> QED
    BY <1>3, <1>4

(* By its keys a set of modules is put in order: no two are equal.         *)
Keyed(S, keys) ==
  /\ S \in SUBSET Modules
  /\ \A m \in S : keys[m] \in Nat

LEMMA PrecedesOrders ==
  ASSUME NEW S, NEW keys, Keyed(S, keys)
  PROVE  /\ \A m \in S : ~Precedes(m, m, keys)
         /\ \A m, n \in S : m = n \/ Precedes(m, n, keys) \/ Precedes(n, m, keys)
         /\ \A m, n, o \in S : Precedes(m, n, keys) /\ Precedes(n, o, keys)
                                 => Precedes(m, o, keys)
  <1>1. \A m \in S : Position(m) \in Int /\ keys[m] \in Int
    BY PositionFacts, EntryFacts DEF Keyed
  <1>2. \A m, n \in S : Position(m) = Position(n) => m = n
    BY PositionFacts DEF Keyed
  <1> QED
    BY <1>1, <1>2 DEF Precedes

Ahead(m, S, keys) == {n \in S : Precedes(n, m, keys)}
Rank(m, S, keys) == Cardinality(Ahead(m, S, keys))

LEMMA RankOrders ==
  ASSUME NEW S, NEW keys, Keyed(S, keys)
  PROVE  /\ IsFiniteSet(S) /\ Cardinality(S) \in Nat
         /\ \A m \in S : Rank(m, S, keys) \in 0..(Cardinality(S) - 1)
         /\ \A m, n \in S : Precedes(m, n, keys)
                              => Rank(m, S, keys) < Rank(n, S, keys)
  <1>1. IsFiniteSet(S)
    BY PositionFacts, FS_Subset DEF Keyed
  <1>2. Cardinality(S) \in Nat
    BY <1>1, FS_CardinalityType
  <1>3. \A m \in S : Ahead(m, S, keys) \in SUBSET S /\ m \notin Ahead(m, S, keys)
    BY PrecedesOrders DEF Ahead
  <1>4. \A m \in S : IsFiniteSet(Ahead(m, S, keys)) /\ Rank(m, S, keys) \in Nat
    BY <1>1, <1>3, FS_Subset, FS_CardinalityType DEF Rank
  <1>5. \A m \in S : Rank(m, S, keys) < Cardinality(S)
    <2> TAKE m \in S
    <2>1. Rank(m, S, keys) <= Cardinality(S)
          /\ (Cardinality(S) = Rank(m, S, keys) => S = Ahead(m, S, keys))
      BY <1>1, <1>3, FS_Subset DEF Rank
    <2> QED
      BY <1>2, <1>3, <1>4, <2>1
  <1>6. \A m, n \in S : Precedes(m, n, keys)
                              => Rank(m, S, keys) < Rank(n, S, keys)
    <2> SUFFICES ASSUME NEW m \in S, NEW n \in S, Precedes(m, n, keys)
                 PROVE  Rank(m, S, keys) < Rank(n, S, keys)
      OBVIOUS
    <2>1. Ahead(m, S, keys) \in SUBSET Ahead(n, S, keys)
      BY PrecedesOrders DEF Ahead
    <2>2. m \in Ahead(n, S, keys)
      BY DEF Ahead
    <2>3. Rank(m, S, keys) <= Rank(n, S, keys)
          /\ (Rank(n, S, keys) = Rank(m, S, keys)
                => Ahead(n, S, keys) = Ahead(m, S, keys))
      BY <1>4, <2>1, FS_Subset DEF Rank
    <2> QED
      BY <1>3, <1>4, <2>2, <2>3
  <1> QED
    BY <1>1, <1>2, <1>4, <1>5, <1>6

(* As many ranks as modules: every place in the order is taken.            *)
LEMMA EveryRank ==
  ASSUME NEW S, NEW keys, Keyed(S, keys), NEW i \in 1..Cardinality(S)
  PROVE  \E m \in S : Rank(m, S, keys) = i - 1
  <1> DEFINE C == Cardinality(S)
             T == 0..(C - 1)
             f == [m \in S |-> Rank(m, S, keys)]
  <1>1. IsFiniteSet(S) /\ C \in Nat
    BY RankOrders
  <1>2. IsFiniteSet(T) /\ Cardinality(T) = C
    <2> HIDE DEF C
    <2>1. 0 \in Int /\ C - 1 \in Int
      BY <1>1
    <2>2. Cardinality(T) = IF 0 > C - 1 THEN 0 ELSE C - 1 - 0 + 1
      BY <2>1, FS_Interval
    <2> QED
      BY <1>1, <2>1, <2>2, FS_Interval
  <1>3. \A m, n \in S : f[m] = f[n] => m = n
    <2> SUFFICES ASSUME NEW m \in S, NEW n \in S, m # n,
                        Rank(m, S, keys) = Rank(n, S, keys)
                 PROVE  FALSE
      OBVIOUS
    <2>1. Rank(m, S, keys) \in Int /\ Rank(n, S, keys) \in Int
      BY <1>1, RankOrders
    <2>2. Rank(m, S, keys) < Rank(n, S, keys) \/ Rank(n, S, keys) < Rank(m, S, keys)
      BY PrecedesOrders, RankOrders
    <2> QED
      BY <2>1, <2>2
  <1>4. f \in [S -> T]
    BY RankOrders
  <1>5. f \in Injection(S, T)
    BY <1>3, <1>4 DEF Injection, IsInjective
  <1> HIDE DEF f
  <1>6. f \in Surjection(S, T)
    BY <1>1, <1>2, <1>5, FS_Injection
  <1>7. i - 1 \in T
    BY <1>1
  <1>8. PICK m \in S : f[m] = i - 1
    BY <1>6, <1>7 DEF Surjection
  <1> QED
    BY <1>8 DEF f

LEMMA SortedOrders ==
  ASSUME NEW S, NEW keys, Keyed(S, keys)
  PROVE  LET order == Sorted(S, keys)
         IN  \A i, j \in DOMAIN order : i < j =>
               /\ order[i] \in S /\ order[j] \in S
               /\ keys[order[i]] >= keys[order[j]]
  <1>1. Sorted(S, keys)
          = [i \in 1..Cardinality(S) |-> CHOOSE m \in S : Rank(m, S, keys) = i - 1]
    BY DEF Sorted, Rank, Ahead
  <1> DEFINE order == Sorted(S, keys)
  <1>2. DOMAIN order = 1..Cardinality(S)
    BY <1>1
  <1>3. \A i \in DOMAIN order : order[i] \in S /\ Rank(order[i], S, keys) = i - 1
    <2> SUFFICES ASSUME NEW i \in 1..Cardinality(S)
                 PROVE  order[i] \in S /\ Rank(order[i], S, keys) = i - 1
      BY <1>2
    <2>1. \E m \in S : Rank(m, S, keys) = i - 1
      BY EveryRank
    <2>2. order[i] = CHOOSE m \in S : Rank(m, S, keys) = i - 1
      BY <1>1
    <2> QED
      BY <2>1, <2>2
  <1> HIDE DEF order
  <1>4. ASSUME NEW i \in DOMAIN order, NEW j \in DOMAIN order, i < j
        PROVE  keys[order[i]] >= keys[order[j]]
    <2>1. Cardinality(S) \in Nat
      BY RankOrders
    <2>2. ~(Rank(order[j], S, keys) < Rank(order[i], S, keys))
          /\ Rank(order[j], S, keys) # Rank(order[i], S, keys)
      BY <1>2, <1>3, <1>4, <2>1
    <2>3. Precedes(order[i], order[j], keys)
      BY <1>3, <1>4, <2>2, RankOrders, PrecedesOrders
    <2>4. keys[order[i]] \in Nat /\ keys[order[j]] \in Nat
      BY <1>3, <1>4 DEF Keyed
    <2> QED
      BY <2>3, <2>4 DEF Precedes
  <1> QED
    BY <1>3, <1>4 DEF order

-----------------------------------------------------------------------------
(***************************************************************************)
(* The priorities a worker has read.                                       *)
(***************************************************************************)
Choosing == worker.pc \in {"enter", "load", "get"} /\ worker.date = Building

PriorityTypes ==
  /\ info \in [Modules -> [state : BOOLEAN, priority : Nat]]
  /\ put = NoPut \/ put \in [module : Modules, asked : Asked]

(* A priority that was read was there at some time since the reading began.*)
KeysSeen ==
  Choosing => \A m \in DOMAIN worker.keys \cap Modules :
                /\ worker.keys[m] \in Nat
                /\ <<"priority", m, worker.keys[m]>> \in seen

PrioritiesInv == PriorityTypes /\ KeysSeen /\ HighestFirst

LEMMA PriorityFacts ==
  ASSUME PriorityTypes, NEW m \in Modules
  PROVE  /\ Priority(m) \in Nat
         /\ worker.date = Building => <<"priority", m, Priority(m)>> \in Facts
  BY DEF PriorityTypes, Priority, Facts, ModuleFacts

(* The API keeps the rows of the modules well formed.                      *)
LEMMA PutsKeepTypes ==
  ASSUME PriorityTypes,
         \/ SetState \/ SetPriority
         \/ \E m \in Modules, asked \in Asked : PutModule(m, asked)
  PROVE  PriorityTypes'
  <1>1. CASE \E m \in Modules, asked \in Asked : PutModule(m, asked)
    BY <1>1 DEF PutModule, PriorityTypes, tables
  <1>2. ASSUME DOMAIN put.asked # {}
        PROVE  put.module \in Modules /\ put.asked \in Asked
    BY <1>2 DEF PriorityTypes, NoPut
  <1>3. CASE SetState
    <2>1. /\ put.module \in Modules /\ put.asked \in Asked
          /\ "state" \in DOMAIN put.asked
      BY <1>2, <1>3 DEF SetState
    <2>2. put.asked.state \in BOOLEAN
      BY <2>1 DEF Asked
    <2>3. info' = [info EXCEPT ![put.module].state = put.asked.state]
      BY <1>3 DEF SetState
    <2>4. info' \in [Modules -> [state : BOOLEAN, priority : Nat]]
      BY <2>1, <2>2, <2>3 DEF PriorityTypes
    <2>5. put' = NoPut \/ put' \in [module : Modules, asked : Asked]
      <3>1. CASE "priority" \in DOMAIN put.asked
        <4>1. put' = [put EXCEPT !.asked = [priority |-> put.asked.priority]]
          BY <1>3, <3>1 DEF SetState
        <4>2. put \in [module : Modules, asked : Asked]
          BY <2>1, <3>1 DEF PriorityTypes, NoPut
        <4>3. [priority |-> put.asked.priority] \in Asked
          BY <2>1, <3>1 DEF Asked
        <4> HIDE DEF Asked
        <4> QED
          BY <4>1, <4>2, <4>3
      <3> QED
        BY <1>3, <3>1 DEF SetState
    <2> QED
      BY <2>4, <2>5 DEF PriorityTypes
  <1>4. CASE SetPriority
    <2>1. put.module \in Modules /\ put.asked \in Asked /\ "priority" \in DOMAIN put.asked
      BY <1>2, <1>4 DEF SetPriority
    <2>2. put.asked.priority \in Priorities
      BY <2>1 DEF Asked
    <2>3. put.asked.priority \in Nat
      BY <2>2, RatingModulesAssumption
    <2> QED
      BY <1>4, <2>1, <2>3 DEF SetPriority, PriorityTypes
  <1> QED
    BY <1>1, <1>3, <1>4

(* The API and the clock leave what the worker has read.                   *)
LEMMA ServedKeepsPriorities ==
  ASSUME ModulesInv, PrioritiesInv, Serve \/ Tick, ~BeginQuote
  PROVE  PrioritiesInv'
  <1>1. /\ UNCHANGED worker
        /\ Reading => seen' = seen \cup Facts'
        /\ ~Reading => seen' = seen
    BY ServedIsObserved
  <1>2. PriorityTypes'
    <2>1. CASE UNCHANGED <<info, put>>
      BY <2>1 DEF PrioritiesInv, PriorityTypes
    <2>2. CASE \/ SetState \/ SetPriority
               \/ \E m \in Modules, asked \in Asked : PutModule(m, asked)
      BY <2>2, PutsKeepTypes DEF PrioritiesInv
    <2>3. Tick => UNCHANGED <<info, put>>
      BY DEF Tick, tables, requests
    <2>4. \A i, row : Edit(i, row) => UNCHANGED <<info, put>>
      BY DEF Edit, tables
    <2>5. UpdateScript => UNCHANGED <<info, put>>
      BY DEF UpdateScript
    <2>6. /\ \A i : DeleteScript(i) => UNCHANGED <<info, put>>
          /\ DeleteRule => UNCHANGED <<info, put>>
      BY DEF DeleteScript, DeleteRule, tables, requests
    <2>7. \A data, start, end, force : PostScript(data, start, end, force)
                                          => UNCHANGED <<info, put>>
      BY DEF PostScript, requests
    <2> QED
      BY <2>1, <2>2, <2>3, <2>4, <2>5, <2>6, <2>7, Zenon
         DEF Serve, ValidateEdit, ValidateEnd
  <1>3. seen \subseteq seen'
    BY <1>1
  <1>4. KeysSeen'
    BY <1>1, <1>3 DEF PrioritiesInv, KeysSeen, Choosing
  <1>5. HighestFirst'
    BY <1>1, <1>3 DEF PrioritiesInv, HighestFirst, Built
  <1> QED
    BY <1>2, <1>4, <1>5 DEF PrioritiesInv

(* Most steps of the worker leave the priorities it has read, or are no    *)
(* longer about them.                                                      *)
LEMMA LeftKeepsPriorities ==
  ASSUME PrioritiesInv, UNCHANGED <<info, put>>,
         \/ worker'.pc = "idle" \/ worker'.date # Building
         \/ worker'.pc = "enter" /\ worker'.keys = <<>>
         \/ Choosing /\ Choosing' /\ worker'.keys = worker.keys /\ seen' = seen
  PROVE  PrioritiesInv'
  <1>1. PriorityTypes'
    BY DEF PrioritiesInv, PriorityTypes
  <1>2. ~Built'
    BY DEF Built, Choosing
  <1>3. KeysSeen'
    BY DEF PrioritiesInv, KeysSeen, Choosing
  <1> QED
    BY <1>1, <1>2, <1>3 DEF PrioritiesInv, HighestFirst

LEMMA WorkKeepsPriorities ==
  ASSUME ModulesInv, PrioritiesInv, Work \/ BeginQuote \/ Crash, ~ReadPriority
  PROVE  PrioritiesInv'
  <1>1. /\ worker = [f \in Fields |-> worker[f]]
        /\ worker.pc \in {"enter", "load"} => worker.date = Building
    BY DEF ModulesInv, TypeOK
  <1>2. CASE Stop /\ UNCHANGED <<info, put>>
    BY <1>2, IdleFields, LeftKeepsPriorities DEF Stop
  <1>3. CASE Begin \/ BeginQuote
    <2>1. worker'.pc = "enter" /\ worker'.keys = <<>>
      BY <1>3 DEF Begin, BeginQuote, Fresh, Idle
    <2>2. UNCHANGED <<info, put>>
      BY <1>3 DEF Begin, BeginQuote, WorkerOnly, tables, requests
    <2> QED
      BY <2>1, <2>2, LeftKeepsPriorities
  <1>4. CASE ListScripts
    <2>1. Choosing /\ UNCHANGED <<info, put, seen>>
      BY <1>1, <1>4 DEF ListScripts, Entering, WorkerOnly, tables, requests, history,
         Choosing
    <2>2. worker' = Listing(worker, Building)
      BY <1>4 DEF ListScripts
    <2>3. Choosing' /\ worker'.keys = worker.keys
      BY <1>1, <2>2 DEF Listing, Choosing, Fields
    <2> QED
      BY <2>1, <2>3, LeftKeepsPriorities
  <1>5. ASSUME NEW i \in DOMAIN scripts, GetScript(i)
        PROVE  PrioritiesInv'
    <2>1. UNCHANGED <<info, put, seen>>
      BY <1>5 DEF GetScript, WorkerOnly, tables, requests, history
    <2>2. /\ worker.pc = "get"
          /\ worker' = [worker EXCEPT !.todo = @ \ {i}, !.code = Loaded(@, i)]
      BY <1>5 DEF GetScript
    <2>3. worker'.pc = "get" /\ worker'.date = worker.date /\ worker'.keys = worker.keys
      BY <1>1, <2>2 DEF Fields
    <2> QED
      BY <2>1, <2>2, <2>3, LeftKeepsPriorities DEF Choosing
  <1>6. ASSUME worker' = Skip(worker), worker.pc \in {"enter", "load", "get"},
               worker.date = Building,
               UNCHANGED <<info, put, seen>>
        PROVE  PrioritiesInv'
    <2>1. worker'.pc = "enter" /\ worker'.date = worker.date /\ worker'.keys = worker.keys
      BY <1>1, <1>6 DEF Skip, Fields
    <2> QED
      BY <1>6, <2>1, LeftKeepsPriorities DEF Choosing
  <1>7. ASSUME NEW i \in DOMAIN scripts, LoadFails(i)
        PROVE  PrioritiesInv'
    <2>1. UNCHANGED <<info, put>> /\ worker.pc = "get"
      BY <1>7 DEF LoadFails, WorkerOnly, tables, requests
    <2>2. CASE worker.date # Building
      BY <1>2, <1>7, <2>1, <2>2 DEF LoadFails
    <2>3. CASE worker.date = Building
      BY <1>6, <1>7, <2>1, <2>3 DEF LoadFails, history
    <2> QED
      BY <2>2, <2>3
  <1>8. CASE CheckEnabled
    <2>1. /\ UNCHANGED <<info, put, seen>>
          /\ worker.pc \in {"enter", "load", "get"} /\ worker.date = Building
      BY <1>1, <1>8 DEF CheckEnabled, WorkerOnly, tables, requests, history, Made,
         Entering
    <2>2. CASE worker' = Skip(worker)
      BY <1>6, <2>1, <2>2
    <2>3. CASE worker' = [worker EXCEPT !.pc = "enter", !.entry = @ + 1,
                                        !.found = @ \cup {Entry}]
      <3>1. /\ worker'.pc \in {"enter", "load", "get"} /\ worker'.date = worker.date
            /\ worker'.keys = worker.keys
        BY <1>1, <2>1, <2>3 DEF Fields
      <3> QED
        BY <2>1, <3>1, LeftKeepsPriorities DEF Choosing
    <2> QED
      BY <1>8, <2>2, <2>3 DEF CheckEnabled
  <1>9. CASE NextPeriod
    <2>1. UNCHANGED <<info, put>>
      BY <1>9 DEF NextPeriod, WorkerOnly, tables, requests
    <2>2. CASE ~Ready
      BY <1>2, <1>9, <2>1, <2>2 DEF NextPeriod
    <2>3. CASE Ready
      <3>1. mark # Building
        BY <2>3, Numbers DEF Ready
      <3>2. \/ worker' = Listing(worker, mark)
            \/ worker' = [worker EXCEPT !.pc = "get", !.date = mark]
        BY <1>9, <2>3 DEF NextPeriod, Fresh
      <3>3. worker'.date = mark
        BY <1>1, <3>2 DEF Listing, Fields
      <3> QED
        BY <2>1, <3>1, <3>3, LeftKeepsPriorities
    <2> QED
      BY <2>2, <2>3
  <1>10. CASE Rate
    <2>1. UNCHANGED <<info, put>> /\ worker.date # Building
      BY <1>10 DEF Rate, tables, requests
    <2>2. worker'.date = worker.date
      BY <1>1, <1>10 DEF Rate, Fields
    <2> QED
      BY <2>1, <2>2, LeftKeepsPriorities
  <1>11. CASE ListRules
    <2>1. Choosing /\ UNCHANGED <<info, put, seen>>
      BY <1>1, <1>11 DEF ListRules, Entering, WorkerOnly, tables, requests, history,
         Choosing
    <2>2. worker' = [worker EXCEPT !.pc = "load"]
      BY <1>11 DEF ListRules
    <2>3. Choosing' /\ worker'.keys = worker.keys
      BY <1>1, <2>1, <2>2 DEF Choosing, Fields
    <2> QED
      BY <2>1, <2>3, LeftKeepsPriorities
  <1>12. CASE RulesFail
    <2>1. UNCHANGED <<info, put>>
      BY <1>12 DEF RulesFail, WorkerOnly, tables, requests
    <2>2. CASE worker.pc = "load" /\ worker' = Skip(worker) /\ UNCHANGED history
      BY <1>1, <1>6, <2>1, <2>2 DEF history
    <2> QED
      BY <1>2, <1>12, <2>1, <2>2 DEF RulesFail
  <1>13. CASE Quote \/ Crash
    BY <1>2, <1>13 DEF Quote, Crash, WorkerOnly, tables, requests
  <1> QED
    BY <1>3, <1>4, <1>5, <1>7, <1>8, <1>9, <1>10, <1>11, <1>12, <1>13, Zenon DEF Work

(* Reading the last priority puts the modules in order.                    *)
LEMMA ReadPriorityKeepsPriorities ==
  ASSUME ModulesInv, PrioritiesInv, ReadPriority
  PROVE  PrioritiesInv'
  <1> DEFINE left == worker.found \ DOMAIN worker.keys
             m == CHOOSE x \in left : \A y \in left : Position(x) <= Position(y)
             keys == [x \in DOMAIN worker.keys \cup {m} |->
                        IF x = m THEN Priority(m) ELSE worker.keys[x]]
  <1>1. /\ worker.pc = "enter" /\ UNCHANGED <<info, put, seen>>
        /\ worker' = IF left = {m}
                     THEN [worker EXCEPT !.pc = "next", !.keys = <<>>,
                             !.order = Sorted(worker.found, keys)]
                     ELSE [worker EXCEPT !.keys = keys]
    BY DEF ReadPriority, WorkerOnly, tables, requests, history
  <1>2. /\ worker = [f \in Fields |-> worker[f]]
        /\ worker.date = Building /\ worker.found \subseteq Modules
        /\ Facts \subseteq seen
    <2>1. worker = [f \in Fields |-> worker[f]] /\ worker.date = Building
      BY <1>1 DEF ModulesInv, TypeOK
    <2>2. worker.found \subseteq Before /\ worker.entry \in 1..(Len(EntryPoints) + 1)
      BY <1>1, <2>1 DEF ModulesInv, Places
    <2>3. Before \subseteq Modules
      BY <2>2, EntryFacts DEF Before
    <2>4. Facts \subseteq seen
      BY <1>1 DEF ModulesInv, Remembered, Reading
    <2> QED
      BY <2>1, <2>2, <2>3, <2>4
  <1>3. /\ DOMAIN keys = DOMAIN worker.keys \cup {m}
        /\ keys[m] = Priority(m)
        /\ \A x \in DOMAIN worker.keys : x # m => keys[x] = worker.keys[x]
    OBVIOUS
  <1>4. \A x \in DOMAIN keys \cap Modules :
          keys[x] \in Nat /\ <<"priority", x, keys[x]>> \in seen
    <2>1. m \in Modules => Priority(m) \in Nat /\ <<"priority", m, Priority(m)>> \in seen
      BY <1>2, PriorityFacts DEF PrioritiesInv
    <2>2. \A x \in DOMAIN worker.keys \cap Modules :
            worker.keys[x] \in Nat /\ <<"priority", x, worker.keys[x]>> \in seen
      BY <1>1, <1>2 DEF PrioritiesInv, KeysSeen, Choosing
    <2> HIDE DEF keys, m
    <2> QED
      BY <1>3, <2>1, <2>2
  <1>5. left = {m} => worker.found \subseteq DOMAIN keys
    BY <1>3
  <1> HIDE DEF keys, m
  <1>6. PriorityTypes'
    BY <1>1 DEF PrioritiesInv, PriorityTypes
  <1>7. CASE left = {m}
    <2> DEFINE order == Sorted(worker.found, keys)
    <2>1. worker' = [worker EXCEPT !.pc = "next", !.keys = <<>>, !.order = order]
      BY <1>1, <1>7
    <2>2. Keyed(worker.found, keys)
      BY <1>2, <1>4, <1>5, <1>7 DEF Keyed
    <2>3. \A i, j \in DOMAIN order : i < j =>
            /\ order[i] \in worker.found /\ order[j] \in worker.found
            /\ keys[order[i]] >= keys[order[j]]
      BY <2>2, SortedOrders
    <2> HIDE DEF order
    <2>4. worker'.pc = "next" /\ worker'.order = order
      BY <1>2, <2>1 DEF Fields
    <2>5. ASSUME NEW i \in DOMAIN order, NEW j \in DOMAIN order, i < j
          PROVE  \E f, g \in {x \in seen : x[1] = "priority"} :
                   f[2] = order[i] /\ g[2] = order[j] /\ f[3] >= g[3]
      <3> DEFINE f == <<"priority", order[i], keys[order[i]]>>
                 g == <<"priority", order[j], keys[order[j]]>>
      <3>1. f \in seen /\ g \in seen
        BY <1>2, <1>4, <1>5, <1>7, <2>3, <2>5
      <3>2. /\ f[1] = "priority" /\ f[2] = order[i] /\ f[3] = keys[order[i]]
            /\ g[1] = "priority" /\ g[2] = order[j] /\ g[3] = keys[order[j]]
        OBVIOUS
      <3> HIDE DEF f, g
      <3>3. f[3] >= g[3]
        BY <2>3, <2>5, <3>2
      <3> QED
        BY <3>1, <3>2, <3>3
    <2>6. HighestFirst'
      BY <1>1, <2>4, <2>5 DEF HighestFirst
    <2>7. KeysSeen'
      BY <2>4 DEF KeysSeen, Choosing
    <2> QED
      BY <1>6, <2>6, <2>7 DEF PrioritiesInv
  <1>8. CASE left # {m}
    <2>1. worker' = [worker EXCEPT !.keys = keys]
      BY <1>1, <1>8
    <2>2. worker'.pc = "enter" /\ worker'.keys = keys
      BY <1>1, <1>2, <2>1 DEF Fields
    <2>3. KeysSeen'
      BY <1>1, <1>4, <2>2 DEF KeysSeen
    <2> QED
      BY <1>6, <2>2, <2>3 DEF PrioritiesInv, HighestFirst, Built
  <1> QED
    BY <1>7, <1>8

LEMMA InitPrioritiesInv ==
  ASSUME Init
  PROVE  PrioritiesInv
  <1>1. PriorityTypes
    BY DEF Init, PriorityTypes
  <1> QED
    BY <1>1, IdleFields DEF Init, PrioritiesInv, KeysSeen, Choosing, HighestFirst, Built

LEMMA StepPrioritiesInv ==
  ASSUME ModulesInv, PrioritiesInv, [Next]_vars
  PROVE  PrioritiesInv'
  <1>1. CASE UNCHANGED vars
    BY <1>1 DEF vars, tables, requests, history, PrioritiesInv, PriorityTypes,
       KeysSeen, Choosing, HighestFirst, Built
  <1>2. CASE Next
    BY <1>2, ServedKeepsPriorities, WorkKeepsPriorities, ReadPriorityKeepsPriorities
       DEF Next
  <1> QED
    BY <1>1, <1>2

(* Of the modules a worker rates with, one comes before another only if    *)
(* its priority was, at some time while the worker was made, at least the  *)
(* other's at some such time: _load_rating_processors sorts by priorities  *)
(* it reads one by one.                                                    *)
THEOREM RatesByPriority == Spec => []HighestFirst
  <1>1. Init => PrioritiesInv
    BY InitPrioritiesInv
  <1>2. ModulesInv /\ PrioritiesInv /\ [Next]_vars => PrioritiesInv'
    BY StepPrioritiesInv
  <1>3. PrioritiesInv => HighestFirst
    BY DEF PrioritiesInv
  <1> QED
    BY <1>1, <1>2, <1>3, AlwaysModulesInv, PTL DEF Spec
=============================================================================
