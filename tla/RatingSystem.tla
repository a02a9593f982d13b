----------------------------- MODULE RatingSystem -----------------------------
(***************************************************************************)
(* cloudkitty-processor as it is run: the processors and the endpoints of  *)
(* ScopeProcessing beside the reprocessors and the schedules of            *)
(* Reprocessing, on one state table and one storage backend.  The ones     *)
(* lock scopes, the others schedules: no lock is common to both.           *)
(***************************************************************************)
EXTENDS RatingStore, Sequences, FiniteSets

CONSTANTS
  Processors, Endpoints, NoScope, Budget,         (* of ScopeProcessing    *)
  Reprocessors, Callers, NoKey, Limit, ScheduleBudget, (* of Reprocessing  *)
  Free

VARIABLES
  lastProcessed, active, frames,                  (* what both share       *)
  now, lock, pc, todo, cur, ts, buffer, requests, hpc, hcur, hreq,
  exempt, overrun, spent,                         (* of ScopeProcessing    *)
  schedules, slock, rpc, rtodo, key, rts, rbuffer, apc, window, unchecked,
  accepted, overlooked, rspent                    (* of Reprocessing       *)

Rating == INSTANCE ScopeProcessing

Again == INSTANCE Reprocessing WITH
  Budget <- ScheduleBudget, lock <- slock, pc <- rpc, todo <- rtodo,
  ts <- rts, buffer <- rbuffer, spent <- rspent

ASSUME RatingSystemAssumption ==
  Rating!ScopeProcessingAssumption /\ Again!ReprocessingAssumption

ratingVars == <<now, lock, pc, todo, cur, ts, buffer, requests, hpc, hcur,
                hreq, exempt, overrun, spent>>
againVars == <<schedules, slock, rpc, rtodo, key, rts, rbuffer, apc, window,
               unchecked, accepted, overlooked, rspent>>
vars == <<lastProcessed, active, frames, ratingVars, againVars>>

(* The tables and the backend are empty.                                   *)
Init == Rating!Init /\ Again!Init

Next ==
  \/ Rating!Next /\ UNCHANGED againVars
  \/ Again!Next /\ UNCHANGED ratingVars

Spec == Init /\ [][Next]_vars

-----------------------------------------------------------------------------
(* Period t of s is in the window of a schedule, finished or not.          *)
Scheduled(s, t) ==
  \E i \in DOMAIN schedules :
    schedules[i].scope = s /\ Again!Covers(schedules[i], t)

(* A schedule has still to rate period t of s.                             *)
Awaited(s, t) ==
  \E i \in DOMAIN schedules :
    schedules[i].scope = s /\ Again!Remains(schedules[i], t)

(* Every period recorded as rated that has usage is stored, was given up   *)
(* by a reset, or is still to be rated by a schedule: neither the cleaning *)
(* of a reprocessor nor a reset undoes for good what the other has written *)
(* in between, whatever crashes and fails, until a request is taken for    *)
(* free of an overlap that it has.                                         *)
NothingLost ==
  ~overlooked =>
    \A s \in Scopes, t \in Periods :
      t <= lastProcessed[s] /\ t \notin exempt[s] /\ <<s, t>> \notin Idle
        => frames[<<s, t>>] > 0 \/ Awaited(s, t)

(* As long as nothing has failed, and no overlap is overlooked, no period  *)
(* is stored twice, but for the one that ends a schedule, and for those of *)
(* a schedule's window once a reset was asked for, which may move the row  *)
(* behind the window: the lock of the scope is not needed as long as only  *)
(* rated periods are scheduled.                                            *)
OneCopy ==
  /\ ~overlooked
  /\ \A e \in {"crash", "error", "pushError"} : spent[e] + rspent[e] = 0
  /\ spent["resetFault"] = 0
  => \A s \in Scopes, t \in Periods :
       frames[<<s, t>>] > 1 =>
         \/ \E i \in DOMAIN schedules :
              schedules[i].scope = s /\ schedules[i].end = t
         \/ spent["reset"] > 0 /\ Scheduled(s, t)
=============================================================================
