----------------------------- MODULE Reprocessing -----------------------------
(***************************************************************************)
(* Rating again what was already rated: the API validates a request and    *)
(* writes one schedule per scope, the CloudKittyReprocessor processes      *)
(* carry the schedules out, one period after the other, under a            *)
(* distributed lock per schedule.                                          *)
(*                                                                         *)
(* The ordinary processors are not here: every scope starts rated up to    *)
(* some period, or without a row, and stays so.  As in ScopeProcessing     *)
(* there is one action for each access to a table, the storage backend or  *)
(* the lock service.                                                       *)
(***************************************************************************)
EXTENDS RatingStore, Sequences, FiniteSets

CONSTANTS
  Reprocessors, (* CloudKittyReprocessor processes                         *)
  Callers,      (* API threads that serve POST /v2/task/reprocesses        *)
  Free,         (* the owner of a lock nobody holds                        *)
  NoKey,
  Limit,        (* how many schedules get_all answers, 100 in the code     *)
  Budget        (* bounds: how often each kind of event below may happen   *)

(* What names a schedule in its lock and in the queries on its row.        *)
Keys == {k \in [scope : Scopes, start : Periods, end : Periods] :
           k.start <= k.end}

(* pushError counts what the backend refuses or fails to do.               *)
Events == {"post", "toggle", "crash", "error", "pushError"}

ASSUME ReprocessingAssumption ==
  /\ Free \notin Reprocessors
  /\ NoKey \notin Keys
  /\ Limit \in Nat \ {0}
  /\ Budget \in [Events -> Nat]

VARIABLES
  lastProcessed, (* IdentifierState.last_processed_timestamp, or Never     *)
  active,        (* IdentifierState.active                                 *)
  frames,        (* the storage backend                                    *)
  schedules,     (* the rows of ReprocessingScheduler, the oldest first    *)
  lock,          (* the owner of each schedule's tooz lock                 *)
  pc, todo, key, ts,   (* each reprocessor: its step, the schedules left   *)
                       (* in its cycle, its schedule and the period        *)
  buffer,        (* each reprocessor: frames its client has not sent       *)
  apc, window, unchecked, accepted, (* each caller: its step, the window   *)
                 (* asked for, its scopes still to check and to schedule   *)
  overlooked,    (* history: a request was taken for free of an overlap    *)
                 (* that its check could not see                           *)
  spent          (* how often each kind of event happened                  *)

tableVars  == <<lastProcessed, active>>
workerVars == <<lock, pc, todo, key, ts, buffer>>
callerVars == <<apc, window, unchecked, accepted, overlooked>>
vars == <<tableVars, frames, schedules, workerVars, callerVars, spent>>

(* A reprocessor holds the lock of its schedule in these steps.            *)
Working == {"process", "scope", "next", "check", "clean", "collect", "push",
            "save", "unlock"}

KeyOf(r) == [scope |-> r.scope, start |-> r.start, end |-> r.end]

(* remove_finished_processing_schedules                                    *)
Unfinished(r) == r.cur = Never \/ r.cur < r.end

Rows == DOMAIN schedules

(* The newest rows of a query, which get_all orders by id.                 *)
Newest(rows) == {i \in rows : Cardinality({j \in rows : j > i}) < Limit}

(* get_all, of one scope or of all.                                        *)
UnfinishedOf(S) ==
  {i \in Rows : schedules[i].scope \in S /\ Unfinished(schedules[i])}

Pending(k) ==
  {i \in Rows : KeyOf(schedules[i]) = k /\ Unfinished(schedules[i])}

(* generate_next_timestamp                                                 *)
NextOf(r) == IF r.cur = Never THEN r.start ELSE r.cur + 1

Init ==
  /\ lastProcessed \in [Scopes -> Periods \cup {Never}]
  /\ active = [s \in Scopes |-> TRUE]
  /\ frames = [f \in Frames |->
                 IF f \in Idle \/ f[2] > lastProcessed[f[1]] THEN 0 ELSE 1]
  /\ schedules = <<>>
  /\ lock = [k \in Keys |-> Free]
  /\ pc = [q \in Reprocessors |-> "idle"]
  /\ todo = [q \in Reprocessors |-> {}]
  /\ key = [q \in Reprocessors |-> NoKey]
  /\ ts = [q \in Reprocessors |-> NoTimestamp]
  /\ buffer = [q \in Reprocessors |-> NoDocs]
  /\ apc = [c \in Callers |-> "idle"]
  /\ window = [c \in Callers |-> [start |-> 0, end |-> 0]]
  /\ unchecked = [c \in Callers |-> {}]
  /\ accepted = [c \in Callers |-> {}]
  /\ overlooked = FALSE
  /\ spent = [e \in Events |-> 0]

Spend(e) ==
  /\ spent[e] < Budget[e]
  /\ spent' = [spent EXCEPT ![e] = @ + 1]

Goto(q, from, to) ==
  /\ pc[q] = from
  /\ pc' = [pc EXCEPT ![q] = to]

-----------------------------------------------------------------------------
(***************************************************************************)
(* POST /v2/task/reprocesses: the scopes are read once, their schedules    *)
(* are looked at one scope after the other, and only then the rows are     *)
(* written, each in a transaction of its own.                              *)
(***************************************************************************)
(* Faulty variant: the end of the window is not compared with the row.     *)
RequestAhead(c, S, b, e) ==
  /\ apc[c] = "idle" /\ S # {} /\ b <= e
  /\ \A s \in S : active[s] /\ b <= lastProcessed[s]
  /\ Spend("post")
  /\ apc' = [apc EXCEPT ![c] = "validate"]
  /\ window' = [window EXCEPT ![c] = [start |-> b, end |-> e]]
  /\ unchecked' = [unchecked EXCEPT ![c] = S]
  /\ UNCHANGED <<tableVars, frames, schedules, workerVars, accepted,
                 overlooked>>

(* The requested scopes are active and rated up to the window's end.  (A   *)
(* request that asks for anything else changes nothing.)                   *)
Request(c, S, b, e) ==
  /\ apc[c] = "idle" /\ S # {} /\ b <= e
  /\ \A s \in S : active[s] /\ b <= lastProcessed[s] /\ e <= lastProcessed[s]
  /\ Spend("post")
  /\ apc' = [apc EXCEPT ![c] = "validate"]
  /\ window' = [window EXCEPT ![c] = [start |-> b, end |-> e]]
  /\ unchecked' = [unchecked EXCEPT ![c] = S]
  /\ UNCHANGED <<tableVars, frames, schedules, workerVars, accepted,
                 overlooked>>

(* Faulty variant: windows that share a bound do not meet.                 *)
IntersectsInside(v, w) == v.start < w.end /\ w.start < v.end

(* DateTimeRange.is_intersection: the bounds belong to the range.          *)
Intersects(v, w) == v.start <= w.end /\ w.start <= v.end

(* The unfinished schedules of s that overlap what c asks for.             *)
Overlapping(c, s) ==
  {i \in UnfinishedOf({s}) : Intersects(schedules[i], window[c])}

(* Another request that overlaps this one is checked and not yet written.  *)
Concurrent(c, s) ==
  \E d \in Callers \ {c} : s \in accepted[d] /\ Intersects(window[d], window[c])

CheckOverlap(c, s) ==
  /\ apc[c] = "validate" /\ s \in unchecked[c]
  /\ Overlapping(c, s) \cap Newest(UnfinishedOf({s})) = {}
  /\ unchecked' = [unchecked EXCEPT ![c] = @ \ {s}]
  /\ accepted' = [accepted EXCEPT ![c] = @ \cup {s}]
  /\ apc' = [apc EXCEPT ![c] = IF unchecked'[c] = {} THEN "persist" ELSE @]
  /\ overlooked' = (overlooked \/ Overlapping(c, s) # {} \/ Concurrent(c, s))
  /\ UNCHANGED <<tableVars, frames, schedules, workerVars, window, spent>>

Reject(c, s) ==
  /\ apc[c] = "validate" /\ s \in unchecked[c]
  /\ Overlapping(c, s) \cap Newest(UnfinishedOf({s})) # {}
  /\ apc' = [apc EXCEPT ![c] = "idle"]
  /\ unchecked' = [unchecked EXCEPT ![c] = {}]
  /\ accepted' = [accepted EXCEPT ![c] = {}]
  /\ UNCHANGED <<tableVars, frames, schedules, workerVars, window, overlooked,
                 spent>>

Persist(c, s) ==
  /\ apc[c] = "persist" /\ s \in accepted[c]
  /\ schedules' = Append(schedules,
                          [scope |-> s, start |-> window[c].start,
                           end |-> window[c].end, cur |-> Never])
  /\ accepted' = [accepted EXCEPT ![c] = @ \ {s}]
  /\ apc' = [apc EXCEPT ![c] = IF accepted'[c] = {} THEN "idle" ELSE @]
  /\ UNCHANGED <<tableVars, frames, workerVars, window, unchecked, overlooked,
                 spent>>

(* A database error, or the death of the API process: the rows already     *)
(* written stay.                                                           *)
PostFails(c) ==
  /\ apc[c] # "idle"
  /\ Spend("error")
  /\ apc' = [apc EXCEPT ![c] = "idle"]
  /\ unchecked' = [unchecked EXCEPT ![c] = {}]
  /\ accepted' = [accepted EXCEPT ![c] = {}]
  /\ UNCHANGED <<tableVars, frames, schedules, workerVars, window, overlooked>>

(* PATCH /v2/scope with active, for a scope that has a row.                *)
Toggle(s) ==
  /\ lastProcessed[s] # Never
  /\ Spend("toggle")
  /\ active' = [active EXCEPT ![s] = ~@]
  /\ UNCHANGED <<lastProcessed, frames, schedules, workerVars, callerVars>>

-----------------------------------------------------------------------------
(***************************************************************************)
(* CloudKittyReprocessor: the cycle it inherits, over the newest schedules *)
(* that are not finished, each named by a key read once per cycle.         *)
(***************************************************************************)
LoadSchedules(q) ==
  /\ Goto(q, "idle", "scan")
  /\ LET loaded == Newest(UnfinishedOf(Scopes))
     IN  todo' = [todo EXCEPT ![q] = {k \in Keys : Pending(k) \cap loaded # {}}]
  /\ UNCHANGED <<tableVars, frames, schedules, lock, key, ts, buffer,
                 callerVars, spent>>

(* Faulty variant: the answer of lock.acquire is ignored.                  *)
TryLockBlindly(q, k) ==
  /\ pc[q] = "scan" /\ k \in todo[q]
  /\ todo' = [todo EXCEPT ![q] = @ \ {k}]
  /\ lock' = [lock EXCEPT ![k] = q]
  /\ pc' = [pc EXCEPT ![q] = "process"]
  /\ key' = [key EXCEPT ![q] = k]
  /\ UNCHANGED <<tableVars, frames, schedules, ts, buffer, callerVars, spent>>

TryLock(q, k) ==
  /\ pc[q] = "scan" /\ k \in todo[q]
  /\ todo' = [todo EXCEPT ![q] = @ \ {k}]
  /\ \/ /\ lock[k] = Free
        /\ lock' = [lock EXCEPT ![k] = q]
        /\ pc' = [pc EXCEPT ![q] = "process"]
        /\ key' = [key EXCEPT ![q] = k]
     \/ /\ lock[k] # Free
        /\ UNCHANGED <<lock, pc, key>>
  /\ UNCHANGED <<tableVars, frames, schedules, ts, buffer, callerVars, spent>>

EndCycle(q) ==
  /\ todo[q] = {}
  /\ Goto(q, "scan", "idle")
  /\ UNCHANGED <<tableVars, frames, schedules, lock, todo, key, ts, buffer,
                 callerVars, spent>>

(* The schedule may have been finished by another process meanwhile.       *)
ProcessSchedule(q) ==
  /\ Goto(q, "process", IF Pending(key[q]) = {} THEN "unlock" ELSE "scope")
  /\ UNCHANGED <<tableVars, frames, schedules, lock, todo, key, ts, buffer,
                 callerVars, spent>>

(* ReprocessingWorker.load_scope_key raises an exception for a scope that  *)
(* is not active.                                                          *)
LoadScopeKey(q) ==
  /\ Goto(q, "scope", IF active[key[q].scope] THEN "next" ELSE "unlock")
  /\ UNCHANGED <<tableVars, frames, schedules, lock, todo, key, ts, buffer,
                 callerVars, spent>>

Release(q) ==
  /\ Goto(q, "unlock", "scan")
  /\ lock' = [lock EXCEPT ![key[q]] = Free]
  /\ key' = [key EXCEPT ![q] = NoKey]
  /\ UNCHANGED <<tableVars, frames, schedules, todo, ts, buffer, callerVars,
                 spent>>

-----------------------------------------------------------------------------
(***************************************************************************)
(* ReprocessingWorker.run: the cleaning, then period after period.         *)
(***************************************************************************)
(* Which of two unfinished rows with one key the query answers first is    *)
(* not specified.                                                          *)
NextTimestamp(q) ==
  /\ \/ /\ Pending(key[q]) = {}
        /\ Goto(q, "next", "unlock")
        /\ ts' = [ts EXCEPT ![q] = NoTimestamp]
     \/ \E i \in Pending(key[q]) :
          /\ Goto(q, "next", "check")
          /\ ts' = [ts EXCEPT ![q] = NextOf(schedules[i])]
  /\ UNCHANGED <<tableVars, frames, schedules, lock, todo, key, buffer,
                 callerVars, spent>>

CheckActive(q) ==
  /\ Goto(q, "check", IF active[key[q].scope] THEN "clean" ELSE "unlock")
  /\ UNCHANGED <<tableVars, frames, schedules, lock, todo, key, ts, buffer,
                 callerVars, spent>>

(* Faulty variant: the window is cleaned again before each period.         *)
CleanAlways(q) ==
  /\ Goto(q, "clean", "collect")
  /\ frames' = DeleteBetween(frames, key[q].scope, key[q].start, key[q].end)
  /\ UNCHANGED <<tableVars, schedules, lock, todo, key, ts, buffer, callerVars,
                 spent>>

(* Faulty variant: the window is cleaned before its last period.           *)
CleanLate(q) ==
  /\ Goto(q, "clean", "collect")
  /\ frames' = IF ts[q] = key[q].end
               THEN DeleteBetween(frames, key[q].scope, key[q].start, key[q].end)
               ELSE frames
  /\ UNCHANGED <<tableVars, schedules, lock, todo, key, ts, buffer, callerVars,
                 spent>>

(* Before the first period the whole window is deleted.                    *)
Clean(q) ==
  /\ Goto(q, "clean", "collect")
  /\ frames' = IF ts[q] = key[q].start
               THEN DeleteBetween(frames, key[q].scope, key[q].start, key[q].end)
               ELSE frames
  /\ UNCHANGED <<tableVars, schedules, lock, todo, key, ts, buffer, callerVars,
                 spent>>

Collect(q) ==
  /\ Goto(q, "collect",
          IF <<key[q].scope, ts[q]>> \in Idle THEN "save" ELSE "push")
  /\ UNCHANGED <<tableVars, frames, schedules, lock, todo, key, ts, buffer,
                 callerVars, spent>>

Push(q) ==
  /\ Goto(q, "push", "save")
  /\ frames' = Commit(frames, AddDoc(buffer[q], key[q].scope, ts[q]))
  /\ buffer' = [buffer EXCEPT ![q] = NoDocs]
  /\ UNCHANGED <<tableVars, schedules, lock, todo, key, ts, callerVars, spent>>

(* The write fails, or its answer is lost; the client keeps the frames.    *)
PushFails(q) ==
  LET docs == AddDoc(buffer[q], key[q].scope, ts[q])
  IN  /\ Goto(q, "push", "unlock")
      /\ buffer' = [buffer EXCEPT ![q] = docs]
      /\ frames' \in {frames, Commit(frames, docs)}
  /\ Spend("pushError")
  /\ UNCHANGED <<tableVars, schedules, lock, todo, key, ts, callerVars>>

(* Loki answers with an error status, which is logged and no more: nothing *)
(* is deleted, or the client keeps the frames.                             *)
CleanRefused(q) ==
  /\ Backend = "loki"
  /\ Goto(q, "clean", "collect")
  /\ ts[q] = key[q].start
  /\ Spend("pushError")
  /\ UNCHANGED <<tableVars, frames, schedules, lock, todo, key, ts, buffer,
                 callerVars>>

PushRefused(q) ==
  /\ Backend = "loki"
  /\ Goto(q, "push", "save")
  /\ buffer' = [buffer EXCEPT ![q] = AddDoc(@, key[q].scope, ts[q])]
  /\ Spend("pushError")
  /\ UNCHANGED <<tableVars, frames, schedules, lock, todo, key, ts, callerVars>>

(* update_reprocessing_time, which forgives a row it does not find.        *)
SaveProgress(q) ==
  /\ Goto(q, "save", "next")
  /\ \/ Pending(key[q]) = {} /\ UNCHANGED schedules
     \/ \E i \in Pending(key[q]) :
          schedules' = [schedules EXCEPT ![i].cur = ts[q]]
  /\ UNCHANGED <<tableVars, frames, lock, todo, key, ts, buffer, callerVars,
                 spent>>

(* Any other exception: the schedule is left for the next cycle.           *)
ProcessingFails(q) ==
  /\ pc[q] \in Working \ {"push", "unlock"}
  /\ pc' = [pc EXCEPT ![q] = "unlock"]
  /\ Spend("error")
  /\ UNCHANGED <<tableVars, frames, schedules, lock, todo, key, ts, buffer,
                 callerVars>>

(* Faulty variant: the lock survives its owner.                            *)
CrashKeepingLock(q) ==
  /\ Spend("crash")
  /\ pc' = [pc EXCEPT ![q] = "idle"]
  /\ todo' = [todo EXCEPT ![q] = {}]
  /\ key' = [key EXCEPT ![q] = NoKey]
  /\ ts' = [ts EXCEPT ![q] = NoTimestamp]
  /\ buffer' = [buffer EXCEPT ![q] = NoDocs]
  /\ UNCHANGED <<tableVars, frames, schedules, lock, callerVars>>

Crash(q) ==
  /\ Spend("crash")
  /\ pc' = [pc EXCEPT ![q] = "idle"]
  /\ lock' = [k \in Keys |-> IF lock[k] = q THEN Free ELSE lock[k]]
  /\ todo' = [todo EXCEPT ![q] = {}]
  /\ key' = [key EXCEPT ![q] = NoKey]
  /\ ts' = [ts EXCEPT ![q] = NoTimestamp]
  /\ buffer' = [buffer EXCEPT ![q] = NoDocs]
  /\ UNCHANGED <<tableVars, frames, schedules, callerVars>>

-----------------------------------------------------------------------------
ReprocessorStep(q) ==
  \/ LoadSchedules(q) \/ EndCycle(q) \/ ProcessSchedule(q) \/ LoadScopeKey(q)
  \/ Release(q) \/ NextTimestamp(q) \/ CheckActive(q) \/ Clean(q)
  \/ Collect(q) \/ Push(q) \/ SaveProgress(q)
  \/ \E k \in Keys : TryLock(q, k)

CallerStep(c) ==
  \/ \E S \in SUBSET Scopes, b \in Periods, e \in Periods : Request(c, S, b, e)
  \/ \E s \in Scopes : CheckOverlap(c, s) \/ Reject(c, s) \/ Persist(c, s)

Fault ==
  \/ \E q \in Reprocessors :
       \/ PushFails(q) \/ PushRefused(q) \/ CleanRefused(q)
       \/ ProcessingFails(q) \/ Crash(q)
  \/ \E c \in Callers : PostFails(c)

Next ==
  \/ \E q \in Reprocessors : ReprocessorStep(q)
  \/ \E c \in Callers : CallerStep(c)
  \/ \E s \in Scopes : Toggle(s)
  \/ Fault

Spec == Init /\ [][Next]_vars

(* A reprocessor cycles for ever.                                          *)
FairSpec == Spec /\ \A q \in Reprocessors : WF_vars(ReprocessorStep(q))

-----------------------------------------------------------------------------
(***************************************************************************)
(* Properties.                                                             *)
(***************************************************************************)
Row == [scope : Scopes, start : Periods, end : Periods,
        cur : Periods \cup {Never}]
Window == {w \in [start : Periods, end : Periods] : w.start <= w.end}

(* Every variable keeps its type.                                          *)
TypeOK ==
  /\ lastProcessed \in [Scopes -> Periods \cup {Never}]
  /\ active \in [Scopes -> BOOLEAN]
  /\ frames \in [Frames -> Nat]
  /\ schedules \in Seq(Row)
  /\ lock \in [Keys -> Reprocessors \cup {Free}]
  /\ pc \in [Reprocessors -> Working \cup {"idle", "scan"}]
  /\ todo \in [Reprocessors -> SUBSET Keys]
  /\ key \in [Reprocessors -> Keys \cup {NoKey}]
  /\ ts \in [Reprocessors -> Periods \cup {NoTimestamp}]
  /\ buffer \in [Reprocessors -> [Frames -> Nat]]
  /\ apc \in [Callers -> {"idle", "validate", "persist"}]
  /\ window \in [Callers -> Window]
  /\ unchecked \in [Callers -> SUBSET Scopes]
  /\ accepted \in [Callers -> SUBSET Scopes]
  /\ overlooked \in BOOLEAN
  /\ spent \in [Events -> Nat]

(* Period t is among those the schedule r has still to rate.               *)
Remains(r, t) == r.start <= t /\ t <= r.end /\ (r.cur = Never \/ r.cur < t)

(* A period of a rated scope that has usage is stored, or an unfinished    *)
(* schedule of the scope has still to rate it: the cleaning, which deletes *)
(* a whole window at once, loses nothing for good whatever crashes, fails  *)
(* or is deactivated afterwards.  (Where an overlap was overlooked, the    *)
(* progress of one of two equal schedules can be recorded in the other.)   *)
NothingLost ==
  ~overlooked =>
    \A s \in Scopes, t \in Periods :
      t <= lastProcessed[s] /\ <<s, t>> \notin Idle
        => \/ frames[<<s, t>>] > 0
           \/ \E i \in Rows : schedules[i].scope = s /\ Remains(schedules[i], t)

(* As long as nothing has failed and no overlap was overlooked, rating a   *)
(* window again leaves no period stored twice, except the one that ends a  *)
(* window, which the cleaning leaves alone and the worker rates again: two *)
(* reprocessors never carry out one schedule together.                     *)
OneCopyButAtEnds ==
  ~overlooked /\ (\A e \in {"crash", "error", "pushError"} : spent[e] = 0)
     => \A f \in Frames :
          frames[f] > 1 => \E i \in Rows :
                             schedules[i].scope = f[1] /\ schedules[i].end = f[2]

Covers(r, t) == r.start <= t /\ t <= r.end

(* The unfinished schedules of a scope never share a period.               *)
OneScheduleAtATime ==
  \A i, j \in Rows :
    /\ i # j
    /\ schedules[i].scope = schedules[j].scope
    /\ Unfinished(schedules[i]) /\ Unfinished(schedules[j])
    => \A t \in Periods : ~(Covers(schedules[i], t) /\ Covers(schedules[j], t))

(* They do where a request was checked while another that overlaps it was  *)
(* checked and not yet written, or where an older schedule that overlaps   *)
(* it was behind the Limit newest ones, and nowhere else: no crash, error  *)
(* or progress of a reprocessor between the check of some scopes and the   *)
(* writing of their rows makes an overlap.                                 *)
NoOverlap == ~overlooked => OneScheduleAtATime

(* The progress of a schedule visits every period of its window in order,  *)
(* and no row is changed otherwise, unless an overlap was overlooked.      *)
ProgressInOrder ==
  [][~overlooked =>
       \A i \in Rows :
         \/ schedules'[i] = schedules[i]
         \/ /\ Unfinished(schedules[i])
            /\ schedules'[i] = [schedules[i] EXCEPT !.cur = NextOf(schedules[i])]]_vars

(* A schedule that is never loaded: it is behind the Limit newest ones,    *)
(* and none of these goes on, the scopes being deactivated.                *)
Starved(k) ==
  LET loaded == Newest(UnfinishedOf(Scopes))
  IN  /\ Pending(k) \cap loaded = {}
      /\ \A i \in loaded : ~active[schedules[i].scope]

(* Every schedule is eventually carried out, whatever crashes and errors   *)
(* came before, unless its scope is deactivated, or newer schedules of     *)
(* deactivated scopes keep it from being loaded for ever.                  *)
SchedulesFinish ==
  \A k \in Keys :
    (Pending(k) # {})
      ~> (Pending(k) = {} \/ ~active[k.scope] \/ overlooked \/ []Starved(k))
=============================================================================
