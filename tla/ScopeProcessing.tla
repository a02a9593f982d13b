--------------------------- MODULE ScopeProcessing ---------------------------
(***************************************************************************)
(* The heart of cloudkitty-processor: several CloudKittyProcessor          *)
(* processes rate the scopes, one period after the other, under one        *)
(* distributed lock per scope, while the API deactivates scopes and asks,  *)
(* with a message to any processor's ScopeEndpoint, to reset them.         *)
(*                                                                         *)
(* There is one action for each access to the state table, the storage     *)
(* backend, the lock service or the message queue: between two of them     *)
(* any other process may run, and the process may die.                     *)
(***************************************************************************)
EXTENDS RatingStore, FiniteSets

CONSTANTS
  Processors,  (* CloudKittyProcessor processes                            *)
  Endpoints,   (* RPC threads that execute ScopeEndpoint.reset_state       *)
  Free,        (* the owner of a lock nobody holds                         *)
  NoScope,
  Budget       (* bounds: how often each kind of event below may happen    *)

Events == {"crash", "error", "pushError", "resetFault", "reset", "toggle"}

ASSUME ScopeProcessingAssumption ==
  /\ Processors \cap Endpoints = {}
  /\ Free \notin Processors \cup Endpoints
  /\ NoScope \notin Scopes
  /\ Budget \in [Events -> Nat]

VARIABLES
  now,           (* the wall clock                                         *)
  lastProcessed, (* IdentifierState.last_processed_timestamp, or Never     *)
  active,        (* IdentifierState.active                                 *)
  frames,        (* the storage backend                                    *)
  lock,          (* the owner of each scope's tooz lock                    *)
  pc, todo, cur, ts,   (* each processor: its step, the scopes left in its *)
                       (* cycle, its scope and the period it rates         *)
  buffer,        (* each processor: frames its storage client has not sent *)
  requests,      (* reset_state messages in the queue                      *)
  hpc, hcur, hreq,     (* each endpoint: its step, its scope, its request  *)
  exempt,        (* history: the periods nobody promised to keep rated     *)
  overrun,       (* history: frames pushed since a scope was deactivated   *)
  spent          (* how often each kind of event happened                  *)

processorVars == <<pc, todo, cur, ts, buffer>>
endpointVars  == <<requests, hpc, hcur, hreq>>
tableVars     == <<lastProcessed, active>>
historyVars   == <<exempt, overrun>>
vars == <<now, tableVars, frames, lock, processorVars, endpointVars,
          historyVars, spent>>

(* A processor holds the lock of its scope in these steps.                 *)
Working == {"process", "next", "check", "collect", "push", "save", "unlock"}
(* An endpoint holds the lock of its scope in these steps.                 *)
Resetting == {"delete", "set", "release"}

Request == [id : Nat, scopes : SUBSET Scopes, ts : Periods]
NoRequest == [id |-> 0, scopes |-> {}, ts |-> 0]

Init ==
  /\ now = 0
  /\ lastProcessed = [s \in Scopes |-> Never]
  /\ active = [s \in Scopes |-> TRUE]
  /\ frames = NoDocs
  /\ lock = [s \in Scopes |-> Free]
  /\ pc = [p \in Processors |-> "idle"]
  /\ todo = [p \in Processors |-> {}]
  /\ cur = [p \in Processors |-> NoScope]
  /\ ts = [p \in Processors |-> NoTimestamp]
  /\ buffer = [p \in Processors |-> NoDocs]
  /\ requests = {}
  /\ hpc = [h \in Endpoints |-> "idle"]
  /\ hcur = [h \in Endpoints |-> NoScope]
  /\ hreq = [h \in Endpoints |-> NoRequest]
  /\ exempt = [s \in Scopes |-> {}]
  /\ overrun = [s \in Scopes |-> 0]
  /\ spent = [e \in Events |-> 0]

Spend(e) ==
  /\ spent[e] < Budget[e]
  /\ spent' = [spent EXCEPT ![e] = @ + 1]

(* The state table has a row for s.                                        *)
Known(s) == lastProcessed[s] # Never

Goto(p, from, to) ==
  /\ pc[p] = from
  /\ pc' = [pc EXCEPT ![p] = to]

-----------------------------------------------------------------------------
(***************************************************************************)
(* CloudKittyProcessor.internal_run: one cycle over the fetched scopes, in *)
(* a shuffled order, skipping the ones another process has locked.         *)
(***************************************************************************)
LoadScopes(p) ==
  /\ Goto(p, "idle", "scan")
  /\ todo' = [todo EXCEPT ![p] = Scopes]
  /\ UNCHANGED <<now, tableVars, frames, lock, cur, ts, buffer, endpointVars,
                 historyVars, spent>>

(* Faulty variant: the answer of lock.acquire is ignored.                  *)
TryLockBlindly(p, s) ==
  /\ pc[p] = "scan" /\ s \in todo[p]
  /\ todo' = [todo EXCEPT ![p] = @ \ {s}]
  /\ lock' = [lock EXCEPT ![s] = p]
  /\ pc' = [pc EXCEPT ![p] = "process"]
  /\ cur' = [cur EXCEPT ![p] = s]
  /\ UNCHANGED <<now, tableVars, frames, ts, buffer, endpointVars,
                 historyVars, spent>>

TryLock(p, s) ==
  /\ pc[p] = "scan" /\ s \in todo[p]
  /\ todo' = [todo EXCEPT ![p] = @ \ {s}]
  /\ \/ /\ lock[s] = Free
        /\ lock' = [lock EXCEPT ![s] = p]
        /\ pc' = [pc EXCEPT ![p] = "process"]
        /\ cur' = [cur EXCEPT ![p] = s]
     \/ /\ lock[s] # Free
        /\ UNCHANGED <<lock, pc, cur>>
  /\ UNCHANGED <<now, tableVars, frames, ts, buffer, endpointVars,
                 historyVars, spent>>

EndCycle(p) ==
  /\ todo[p] = {}
  /\ Goto(p, "scan", "idle")
  /\ UNCHANGED <<now, tableVars, frames, lock, todo, cur, ts, buffer,
                 endpointVars, historyVars, spent>>

(* The first look at the state table, before a Worker is built.            *)
ProcessScope(p) ==
  /\ Goto(p, "process",
          IF CheckTimeState(lastProcessed[cur[p]], now) = NoTimestamp
          THEN "unlock" ELSE "next")
  /\ UNCHANGED <<now, tableVars, frames, lock, todo, cur, ts, buffer,
                 endpointVars, historyVars, spent>>

(* Faulty variant: the lock is not released.                               *)
ReleaseForgotten(p) ==
  /\ Goto(p, "unlock", "scan")
  /\ cur' = [cur EXCEPT ![p] = NoScope]
  /\ UNCHANGED <<now, tableVars, frames, lock, todo, ts, buffer, endpointVars,
                 historyVars, spent>>

(* The finally clause of internal_run.                                     *)
Release(p) ==
  /\ Goto(p, "unlock", "scan")
  /\ lock' = [lock EXCEPT ![cur[p]] = Free]
  /\ cur' = [cur EXCEPT ![p] = NoScope]
  /\ UNCHANGED <<now, tableVars, frames, todo, ts, buffer, endpointVars,
                 historyVars, spent>>

-----------------------------------------------------------------------------
(***************************************************************************)
(* Worker.run: rate period after period until none is due.                 *)
(***************************************************************************)
NextTimestamp(p) ==
  LET t == CheckTimeState(lastProcessed[cur[p]], now)
  IN  /\ Goto(p, "next", IF t = NoTimestamp THEN "unlock" ELSE "check")
      /\ ts' = [ts EXCEPT ![p] = t]
  /\ UNCHANGED <<now, tableVars, frames, lock, todo, cur, buffer,
                 endpointVars, historyVars, spent>>

(* Faulty variant: the flag is not read.                                   *)
CheckActiveNever(p) ==
  /\ Goto(p, "check", "collect")
  /\ UNCHANGED <<now, tableVars, frames, lock, todo, cur, ts, buffer,
                 endpointVars, historyVars, spent>>

(* Only a scope that has a row can be inactive.                            *)
CheckActive(p) ==
  /\ Goto(p, "check",
          IF Known(cur[p]) /\ ~active[cur[p]]
          THEN "unlock" ELSE "collect")
  /\ UNCHANGED <<now, tableVars, frames, lock, todo, cur, ts, buffer,
                 endpointVars, historyVars, spent>>

(* Collection and rating; a period without usage data is not pushed.       *)
Collect(p) ==
  /\ Goto(p, "collect",
          IF <<cur[p], ts[p]>> \in Idle THEN "save" ELSE "push")
  /\ UNCHANGED <<now, tableVars, frames, lock, todo, cur, ts, buffer,
                 endpointVars, historyVars, spent>>

(* storage.push: the client sends all it holds, what an earlier failed     *)
(* push has left in it included.                                           *)
Push(p) ==
  /\ Goto(p, "push", "save")
  /\ frames' = Commit(frames, AddDoc(buffer[p], cur[p], ts[p]))
  /\ buffer' = [buffer EXCEPT ![p] = NoDocs]
  /\ overrun' = [overrun EXCEPT ![cur[p]] = IF active[cur[p]] THEN 0 ELSE @ + 1]
  /\ UNCHANGED <<now, tableVars, lock, todo, cur, ts, endpointVars, exempt,
                 spent>>

(* The write fails, or its answer is lost: the exception leaves the frames *)
(* in the client, whether the backend has applied them or not.             *)
PushFails(p) ==
  LET docs == AddDoc(buffer[p], cur[p], ts[p])
  IN  /\ Goto(p, "push", "unlock")
      /\ buffer' = [buffer EXCEPT ![p] = docs]
      /\ frames' \in {frames, Commit(frames, docs)}
  /\ Spend("pushError")
  /\ UNCHANGED <<now, tableVars, lock, todo, cur, ts, endpointVars,
                 historyVars>>

(* Faulty variant: what could not be sent is dropped.                      *)
PushRefusedDropping(p) ==
  /\ Backend = "loki"
  /\ Goto(p, "push", "save")
  /\ buffer' = [buffer EXCEPT ![p] = NoDocs]
  /\ Spend("pushError")
  /\ UNCHANGED <<now, tableVars, frames, lock, todo, cur, ts, endpointVars,
                 historyVars>>

(* Loki answers with an error status: it is logged, and no more.           *)
PushRefused(p) ==
  /\ Backend = "loki"
  /\ Goto(p, "push", "save")
  /\ buffer' = [buffer EXCEPT ![p] = AddDoc(@, cur[p], ts[p])]
  /\ Spend("pushError")
  /\ UNCHANGED <<now, tableVars, frames, lock, todo, cur, ts, endpointVars,
                 historyVars>>

(* update_scope_processing_state_db, a transaction of its own.  The first  *)
(* one creates the row: what lies before it was never promised.            *)
SaveState(p) ==
  LET s == cur[p]
  IN  /\ Goto(p, "save", "next")
      /\ lastProcessed' = [lastProcessed EXCEPT ![s] = ts[p]]
      /\ exempt' = [exempt EXCEPT
                      ![s] = (IF Known(s) THEN @ ELSE {t \in Periods : t < ts[p]})
                             \ {ts[p]}]
  /\ UNCHANGED <<now, active, frames, lock, todo, cur, ts, buffer,
                 endpointVars, overrun, spent>>

(* Faulty variant: a failed collection counts as an empty one.             *)
ProcessingFailsSwallowed(p) ==
  /\ Goto(p, "collect", "save")
  /\ Spend("error")
  /\ UNCHANGED <<now, tableVars, frames, lock, todo, cur, ts, buffer,
                 endpointVars, historyVars>>

(* Any exception outside the storage client: a database error, a failed or *)
(* late collection, a rating error.  The scope is left for the next cycle. *)
ProcessingFails(p) ==
  /\ pc[p] \in {"process", "next", "check", "collect", "save"}
  /\ pc' = [pc EXCEPT ![p] = "unlock"]
  /\ Spend("error")
  /\ UNCHANGED <<now, tableVars, frames, lock, todo, cur, ts, buffer,
                 endpointVars, historyVars>>

(* Faulty variant: the lock survives its owner.                            *)
CrashKeepingLock(p) ==
  /\ Spend("crash")
  /\ pc' = [pc EXCEPT ![p] = "idle"]
  /\ todo' = [todo EXCEPT ![p] = {}]
  /\ cur' = [cur EXCEPT ![p] = NoScope]
  /\ ts' = [ts EXCEPT ![p] = NoTimestamp]
  /\ buffer' = [buffer EXCEPT ![p] = NoDocs]
  /\ UNCHANGED <<now, tableVars, frames, lock, endpointVars, historyVars>>

(* The process dies and is respawned; the coordination backend frees the   *)
(* locks of its dead session.                                              *)
Crash(p) ==
  /\ Spend("crash")
  /\ pc' = [pc EXCEPT ![p] = "idle"]
  /\ lock' = [s \in Scopes |-> IF lock[s] = p THEN Free ELSE lock[s]]
  /\ todo' = [todo EXCEPT ![p] = {}]
  /\ cur' = [cur EXCEPT ![p] = NoScope]
  /\ ts' = [ts EXCEPT ![p] = NoTimestamp]
  /\ buffer' = [buffer EXCEPT ![p] = NoDocs]
  /\ UNCHANGED <<now, tableVars, frames, endpointVars, historyVars>>

-----------------------------------------------------------------------------
(***************************************************************************)
(* The API of scopes and the endpoint that serves its reset messages.      *)
(***************************************************************************)
(* PATCH /v2/scope with active.                                            *)
Toggle(s) ==
  /\ Known(s)
  /\ Spend("toggle")
  /\ active' = [active EXCEPT ![s] = ~@]
  /\ overrun' = [overrun EXCEPT ![s] = 0]
  /\ UNCHANGED <<now, lastProcessed, frames, lock, processorVars,
                 endpointVars, exempt>>

(* PUT /v2/scope: the active scopes its filters select, in one message.    *)
RequestReset(S, t) ==
  /\ S # {} /\ \A s \in S : Known(s) /\ active[s]
  /\ Spend("reset")
  /\ requests' = requests \cup {[id |-> spent'["reset"], scopes |-> S, ts |-> t]}
  /\ UNCHANGED <<now, tableVars, frames, lock, processorVars, hpc, hcur, hreq,
                 historyVars>>

TakeRequest(h, m) ==
  /\ m \in requests /\ hpc[h] = "idle"
  /\ requests' = requests \ {m}
  /\ hpc' = [hpc EXCEPT ![h] = "scan"]
  /\ hreq' = [hreq EXCEPT ![h] = m]
  /\ UNCHANGED <<now, tableVars, frames, lock, processorVars, hcur,
                 historyVars, spent>>

(* acquire(blocking=True)                                                  *)
AcquireForReset(h, s) ==
  /\ hpc[h] = "scan" /\ s \in hreq[h].scopes
  /\ lock[s] = Free
  /\ lock' = [lock EXCEPT ![s] = h]
  /\ hpc' = [hpc EXCEPT ![h] = "delete"]
  /\ hcur' = [hcur EXCEPT ![h] = s]
  /\ hreq' = [hreq EXCEPT ![h].scopes = @ \ {s}]
  /\ UNCHANGED <<now, tableVars, frames, processorVars, requests,
                 historyVars, spent>>

(* Faulty variant: the lock protects the deletion alone.                   *)
DeleteDataReleasing(h) ==
  LET s == hcur[h]
      t == hreq[h].ts
  IN  /\ hpc[h] = "delete"
      /\ hpc' = [hpc EXCEPT ![h] = "set"]
      /\ frames' = DeleteFrom(frames, s, t, now)
      /\ lock' = [lock EXCEPT ![s] = Free]
      /\ exempt' = [exempt EXCEPT ![s] = @ \cup {u \in Periods : t <= u}]
  /\ UNCHANGED <<now, tableVars, processorVars, requests, hcur, hreq, overrun,
                 spent>>

(* The operator gives up what is stored from the requested timestamp on.   *)
DeleteData(h) ==
  LET s == hcur[h]
      t == hreq[h].ts
  IN  /\ hpc[h] = "delete"
      /\ hpc' = [hpc EXCEPT ![h] = "set"]
      /\ frames' = DeleteFrom(frames, s, t, now)
      /\ exempt' = [exempt EXCEPT ![s] = @ \cup {u \in Periods : t <= u}]
  /\ UNCHANGED <<now, tableVars, lock, processorVars, requests, hcur, hreq,
                 overrun, spent>>

(* Loki answers with an error status: it is logged, and the reset goes on  *)
(* with the data still there.                                              *)
DeleteRefused(h) ==
  /\ Backend = "loki" /\ hpc[h] = "delete"
  /\ Spend("pushError")
  /\ hpc' = [hpc EXCEPT ![h] = "set"]
  /\ exempt' = [exempt EXCEPT ![hcur[h]] = @ \cup {u \in Periods : hreq[h].ts <= u}]
  /\ UNCHANGED <<now, tableVars, frames, lock, processorVars, requests, hcur,
                 hreq, overrun>>

(* With the row at the requested timestamp, the periods after it are to be *)
(* rated again; those a move forward jumps over are given up as well.      *)
SetState(h) ==
  LET s == hcur[h]
      t == hreq[h].ts
  IN  /\ hpc[h] = "set"
      /\ hpc' = [hpc EXCEPT ![h] = "release"]
      /\ lastProcessed' = [lastProcessed EXCEPT ![s] = t]
      /\ exempt' = [exempt EXCEPT
                      ![s] = {u \in @ : u <= t}
                             \cup {u \in Periods : lastProcessed[s] < u /\ u < t}]
  /\ UNCHANGED <<now, active, frames, lock, processorVars, requests, hcur,
                 hreq, overrun, spent>>

ReleaseAfterReset(h) ==
  /\ hpc[h] = "release"
  /\ hpc' = [hpc EXCEPT ![h] = "scan"]
  /\ lock' = [lock EXCEPT ![hcur[h]] = Free]
  /\ hcur' = [hcur EXCEPT ![h] = NoScope]
  /\ UNCHANGED <<now, tableVars, frames, processorVars, requests, hreq,
                 historyVars, spent>>

EndReset(h) ==
  /\ hpc[h] = "scan" /\ hreq[h].scopes = {}
  /\ hpc' = [hpc EXCEPT ![h] = "idle"]
  /\ hreq' = [hreq EXCEPT ![h] = NoRequest]
  /\ UNCHANGED <<now, tableVars, frames, lock, processorVars, requests, hcur,
                 historyVars, spent>>

(* An exception, after which the lock is released and the other scopes are *)
(* forgotten, or the death of the process: a cast is never redelivered.    *)
ResetFails(h) ==
  /\ hpc[h] # "idle"
  /\ Spend("resetFault")
  /\ hpc' = [hpc EXCEPT ![h] = "idle"]
  /\ lock' = [s \in Scopes |-> IF lock[s] = h THEN Free ELSE lock[s]]
  /\ hcur' = [hcur EXCEPT ![h] = NoScope]
  /\ hreq' = [hreq EXCEPT ![h] = NoRequest]
  /\ UNCHANGED <<now, tableVars, frames, processorVars, requests, historyVars>>

-----------------------------------------------------------------------------
Tick ==
  /\ now < MaxTime
  /\ now' = now + 1
  /\ UNCHANGED <<tableVars, frames, lock, processorVars, endpointVars,
                 historyVars, spent>>

ProcessorStep(p) ==
  \/ LoadScopes(p) \/ EndCycle(p) \/ ProcessScope(p) \/ Release(p)
  \/ NextTimestamp(p) \/ CheckActive(p) \/ Collect(p) \/ Push(p)
  \/ SaveState(p)
  \/ \E s \in Scopes : TryLock(p, s)

EndpointStep(h) ==
  \/ DeleteData(h) \/ SetState(h) \/ ReleaseAfterReset(h) \/ EndReset(h)
  \/ \E m \in requests : TakeRequest(h, m)
  \/ \E s \in Scopes : AcquireForReset(h, s)

ApiStep ==
  \/ \E s \in Scopes : Toggle(s)
  \/ \E S \in SUBSET Scopes, t \in Periods : RequestReset(S, t)

Fault ==
  \/ \E p \in Processors :
       PushFails(p) \/ PushRefused(p) \/ ProcessingFails(p) \/ Crash(p)
  \/ \E h \in Endpoints : DeleteRefused(h) \/ ResetFails(h)

Next ==
  \/ Tick
  \/ \E p \in Processors : ProcessorStep(p)
  \/ \E h \in Endpoints : EndpointStep(h)
  \/ ApiStep
  \/ Fault

Spec == Init /\ [][Next]_vars

(* A process runs as long as it has something to do.  A blocking acquire   *)
(* waits for a lock that the processors, which sleep a period between two  *)
(* cycles, leave free again and again.                                     *)
Fairness ==
  /\ WF_vars(Tick)
  /\ \A p \in Processors : WF_vars(ProcessorStep(p))
  /\ \A h \in Endpoints :
       /\ WF_vars(EndpointStep(h))
       /\ SF_vars(\E s \in Scopes : AcquireForReset(h, s))

FairSpec == Spec /\ Fairness

-----------------------------------------------------------------------------
(***************************************************************************)
(* Properties.                                                             *)
(***************************************************************************)
(* Every variable keeps its type.                                          *)
TypeOK ==
  /\ now \in Times
  /\ lastProcessed \in [Scopes -> Periods \cup {Never}]
  /\ active \in [Scopes -> BOOLEAN]
  /\ frames \in [Frames -> Nat]
  /\ lock \in [Scopes -> Processors \cup Endpoints \cup {Free}]
  /\ pc \in [Processors -> Working \cup {"idle", "scan"}]
  /\ todo \in [Processors -> SUBSET Scopes]
  /\ cur \in [Processors -> Scopes \cup {NoScope}]
  /\ ts \in [Processors -> Periods \cup {NoTimestamp}]
  /\ buffer \in [Processors -> [Frames -> Nat]]
  /\ requests \subseteq Request
  /\ hpc \in [Endpoints -> Resetting \cup {"idle", "scan"}]
  /\ hcur \in [Endpoints -> Scopes \cup {NoScope}]
  /\ hreq \in [Endpoints -> Request]
  /\ exempt \in [Scopes -> SUBSET Periods]
  /\ overrun \in [Scopes -> Nat]
  /\ spent \in [Events -> Nat]

(* The lock of a scope is held exactly by the process that works on it:    *)
(* two processes never rate or reset one scope together, and no error path *)
(* or crash leaves a lock nobody will release (orchestrator.get_lock,      *)
(* internal_run, reset_state).                                             *)
LocksAccounted ==
  \A s \in Scopes :
    /\ \A p \in Processors : lock[s] = p <=> pc[p] \in Working /\ cur[p] = s
    /\ \A h \in Endpoints : lock[s] = h <=> hpc[h] \in Resetting /\ hcur[h] = s

(* Every period up to last_processed_timestamp that has usage is in the    *)
(* storage backend, those a reset gave up and has not had rated again      *)
(* apart: the row is written after the data, in a step of its own, and an  *)
(* interrupted worker starts again at the period it had not recorded.      *)
NoGap ==
  \A s \in Scopes, t \in Periods :
    t <= lastProcessed[s] /\ t \notin exempt[s] /\ <<s, t>> \notin Idle
      => frames[<<s, t>>] > 0

(* With Loki, whose client hides the errors of a push, such a period may   *)
(* still be in the memory of a process, and a crash loses it.              *)
StoredOrBuffered ==
  spent["crash"] = 0 /\ spent["reset"] = 0 =>
    \A s \in Scopes, t \in Periods :
      t <= lastProcessed[s] /\ t \notin exempt[s] /\ <<s, t>> \notin Idle
        => frames[<<s, t>>] > 0 \/ \E p \in Processors : buffer[p][<<s, t>>] > 0

(* No frame is stored twice as long as no process has crashed and no call  *)
(* has failed: two processors, or a processor and a reset, never rate the  *)
(* same period of a scope.                                                 *)
NoDuplicates ==
  (\A e \in {"crash", "error", "pushError", "resetFault"} : spent[e] = 0)
     => \A f \in Frames : frames[f] <= 1

(* After a scope is deactivated at most the one period a worker has begun  *)
(* is still stored: is_storage_scope_active is read before each period,    *)
(* and the value may be stale when the period is pushed.                   *)
OverrunBounded == \A s \in Scopes : overrun[s] <= 1

(* A period of a known scope is collected only when the waiting periods    *)
(* after it are past, whatever happened since the timestamp was chosen.    *)
WaitRespected ==
  \A p \in Processors :
    /\ pc[p] \in {"check", "collect", "push", "save"}
    /\ Known(cur[p])
    => Due(ts[p], now) /\ ts[p] = lastProcessed[cur[p]] + 1

(* The owner of the lock of s works on s.                                  *)
Owns(s) ==
  \/ \E p \in Processors : lock[s] = p /\ cur[p] = s
  \/ \E h \in Endpoints : lock[s] = h /\ hcur[h] = s

(* The data and the row of a scope change only in the hands of the process *)
(* that holds its lock, until a push has failed.                           *)
LockedWrites ==
  [][\A s \in Scopes :
       \/ /\ lastProcessed'[s] = lastProcessed[s]
          /\ \A t \in Periods : frames'[<<s, t>>] = frames[<<s, t>>]
       \/ Owns(s)
       \/ spent["pushError"] > 0]_vars

(* A reset deletes what it was asked to delete: stored data disappear only *)
(* in the hands of an endpoint, for the scope it handles and from the      *)
(* requested timestamp on (BaseStorage.delete, reset_state).  Loki's lines *)
(* bear the end of their period: the period before the timestamp goes, too.*)
DeletesWhatWasAsked ==
  [][\A f \in Frames :
       \/ frames'[f] >= frames[f]
       \/ \E h \in Endpoints :
            /\ hpc[h] = "delete" /\ hcur[h] = f[1]
            /\ \/ hreq[h].ts <= f[2]
               \/ Backend = "loki" /\ hreq[h].ts = f[2] + 1]_vars

(* The promise of RatingLedger, read in the tables of the code.            *)
StoredPeriods ==
  [s \in Scopes |-> {t \in Periods : frames[<<s, t>>] > 0}]

Ledger == INSTANCE RatingLedger WITH mark <- lastProcessed,
                                     stored <- StoredPeriods

KeepsLedger == Ledger!Spec

(* A due period of an active scope is eventually rated (or the scope       *)
(* deactivated), whatever crashes and errors came before.                  *)
EventuallyRated ==
  \A s \in Scopes :
    (active[s] /\ CheckTimeState(lastProcessed[s], now) # NoTimestamp)
      ~> (~active[s] \/ CheckTimeState(lastProcessed[s], now) = NoTimestamp)

(* A reset message is eventually consumed and its scopes dealt with.       *)
ResetsComplete ==
  (requests # {} \/ \E h \in Endpoints : hpc[h] # "idle")
     ~> (requests = {} /\ \A h \in Endpoints : hpc[h] = "idle")
=============================================================================
