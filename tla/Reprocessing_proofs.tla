-------------------------- MODULE Reprocessing_proofs --------------------------
(***************************************************************************)
(* What holds of Reprocessing for every number of scopes, reprocessors,    *)
(* periods and events.                                                     *)
(***************************************************************************)
EXTENDS Reprocessing, TLAPS

(* A deletion is confined to what it was asked for, and a failed push is   *)
(* reported: InfluxDB, or Elasticsearch with a single scope.               *)
Confined ==
  \/ Backend = "influxdb"
  \/ Backend = "elasticsearch" /\ \A r, s \in Scopes : r = s

(* The documents of a client, and the content of a backend, are counts.    *)
LEMMA StoreTypes ==
  ASSUME NEW docs \in [Frames -> Nat], NEW stored \in [Frames -> Nat],
         NEW s, NEW t, NEW begin, NEW end
  PROVE  /\ NoDocs \in [Frames -> Nat]
         /\ AddDoc(docs, s, t) \in [Frames -> Nat]
         /\ Commit(stored, docs) \in [Frames -> Nat]
         /\ DeleteBetween(stored, s, begin, end) \in [Frames -> Nat]
  <1>1. NoDocs \in [Frames -> Nat]
    BY DEF NoDocs
  <1>2. AddDoc(docs, s, t) \in [Frames -> Nat]
    <2>1. \A f \in Frames : docs[f] + 1 \in Nat
      OBVIOUS
    <2> QED
      BY <2>1, Zenon DEF AddDoc
  <1>3. Commit(stored, docs) \in [Frames -> Nat]
    BY DEF Commit
  <1>4. DeleteBetween(stored, s, begin, end) \in [Frames -> Nat]
    BY DEF DeleteBetween
  <1> QED
    BY <1>1, <1>2, <1>3, <1>4

(* A push stores what it sends and loses nothing.                          *)
LEMMA CommitKeeps ==
  ASSUME NEW stored \in [Frames -> Nat], NEW docs \in [Frames -> Nat],
         NEW f \in Frames, stored[f] > 0 \/ docs[f] > 0
  PROVE  Commit(stored, docs)[f] > 0
  BY DEF Commit

LEMMA AddDocAdds ==
  ASSUME NEW docs \in [Frames -> Nat], NEW s \in Scopes, NEW t \in Periods
  PROVE  AddDoc(docs, s, t)[<<s, t>>] > 0
  <1>1. <<s, t>> \in Frames
    BY DEF Frames
  <1>2. AddDoc(docs, s, t)[<<s, t>>] = docs[<<s, t>>] + 1
    BY <1>1 DEF AddDoc
  <1>3. docs[<<s, t>>] \in Nat
    BY <1>1
  <1> QED
    BY <1>2, <1>3

(* What a confined deletion takes is within its bounds.                    *)
LEMMA CleaningConfined ==
  ASSUME Confined, NEW r \in Scopes, NEW s \in Scopes, NEW t \in Periods,
         NEW stored, NEW begin, NEW end,
         DeleteBetween(stored, r, begin, end)[<<s, t>>] # stored[<<s, t>>]
  PROVE  r = s /\ begin <= t /\ t < end
  <1>1. <<s, t>> \in Frames /\ <<s, t>>[1] = s /\ <<s, t>>[2] = t
    BY DEF Frames
  <1>2. Selects(r, <<s, t>>) /\ InClosedRange(begin, end, t)
    BY <1>1 DEF DeleteBetween
  <1> QED
    BY <1>1, <1>2 DEF Confined, Selects, InClosedRange

USE DEF Never, NoTimestamp

-----------------------------------------------------------------------------
(***************************************************************************)
(* Type correctness.                                                       *)
(***************************************************************************)
LEMMA SpendType ==
  ASSUME TypeOK, NEW e \in Events, Spend(e)
  PROVE  spent' \in [Events -> Nat]
  BY DEF TypeOK, Spend

(* An unfinished schedule has a period of its window to rate.              *)
LEMMA NextOfType ==
  ASSUME NEW r \in Row, Unfinished(r)
  PROVE  NextOf(r) \in Periods
  BY RatingStoreAssumption DEF Row, Unfinished, NextOf, Periods

LEMMA TypeInit == Init => TypeOK
  <1> SUFFICES ASSUME Init PROVE TypeOK
    OBVIOUS
  <1> USE RatingStoreAssumption
  <1>1. 0 \in Periods
    BY DEF Periods
  <1>2. [start |-> 0, end |-> 0] \in Window
    BY <1>1 DEF Window
  <1>3. NoDocs \in [Frames -> Nat] /\ frames \in [Frames -> Nat]
    BY DEF NoDocs, Init
  <1>4. schedules \in Seq(Row)
    BY DEF Init
  <1> QED
    BY <1>1, <1>2, <1>3, <1>4 DEF Init, TypeOK

LEMMA TypeReprocessor ==
  ASSUME TypeOK, NEW q \in Reprocessors, ReprocessorStep(q)
  PROVE  TypeOK'
  <1> USE DEF TypeOK, Goto, Working, tableVars, callerVars
  <1>1. CASE LoadSchedules(q)
    BY <1>1 DEF LoadSchedules
  <1>2. CASE EndCycle(q)
    BY <1>2 DEF EndCycle
  <1>3. CASE ProcessSchedule(q)
    BY <1>3 DEF ProcessSchedule
  <1>4. CASE LoadScopeKey(q)
    BY <1>4 DEF LoadScopeKey
  <1>5. CASE Release(q)
    BY <1>5 DEF Release
  <1>6. CASE NextTimestamp(q)
    <2>1. \A i \in Pending(key[q]) : NextOf(schedules[i]) \in Periods
      BY NextOfType DEF Pending, Rows
    <2>2. \E t \in Periods \cup {NoTimestamp} : ts' = [ts EXCEPT ![q] = t]
      BY <1>6, <2>1 DEF NextTimestamp
    <2>3. pc' \in [Reprocessors -> Working \cup {"idle", "scan"}]
      BY <1>6 DEF NextTimestamp
    <2>4. ts' \in [Reprocessors -> Periods \cup {NoTimestamp}]
      BY <2>2
    <2> QED
      BY <1>6, <2>3, <2>4 DEF NextTimestamp
  <1>7. CASE CheckActive(q)
    BY <1>7 DEF CheckActive
  <1>8. CASE Clean(q)
    <2>1. frames' \in [Frames -> Nat]
      BY <1>8, StoreTypes DEF Clean
    <2> QED
      BY <1>8, <2>1 DEF Clean
  <1>9. CASE Collect(q)
    BY <1>9 DEF Collect
  <1>10. CASE Push(q)
    <2>1. AddDoc(buffer[q], key[q].scope, ts[q]) \in [Frames -> Nat]
      BY StoreTypes
    <2>2. frames' \in [Frames -> Nat] /\ NoDocs \in [Frames -> Nat]
      BY <1>10, <2>1, StoreTypes DEF Push
    <2> QED
      BY <1>10, <2>2 DEF Push
  <1>11. CASE SaveProgress(q)
    <2>1. ASSUME NEW i \in Pending(key[q]),
                 schedules' = [schedules EXCEPT ![i].cur = ts[q]]
          PROVE  schedules' \in Seq(Row)
      <3>1. i \in DOMAIN schedules /\ schedules[i] \in Row
        BY <2>1 DEF Pending, Rows
      <3>2. [schedules[i] EXCEPT !.cur = ts[q]] \in Row
        BY <3>1 DEF Row
      <3> QED
        BY <2>1, <3>1, <3>2
    <2>2. schedules' \in Seq(Row)
      BY <1>11, <2>1 DEF SaveProgress
    <2> QED
      BY <1>11, <2>2 DEF SaveProgress
  <1>12. ASSUME NEW k \in Keys, TryLock(q, k)
         PROVE  TypeOK'
    <2>1. UNCHANGED <<lock, pc, key>>
            \/ /\ lock' = [lock EXCEPT ![k] = q]
               /\ pc' = [pc EXCEPT ![q] = "process"]
               /\ key' = [key EXCEPT ![q] = k]
      BY <1>12 DEF TryLock
    <2>2. lock' \in [Keys -> Reprocessors \cup {Free}]
      BY <2>1
    <2>3. pc' \in [Reprocessors -> Working \cup {"idle", "scan"}]
      BY <2>1
    <2>5. key' \in [Reprocessors -> Keys \cup {NoKey}]
      BY <2>1
    <2>4. todo' \in [Reprocessors -> SUBSET Keys]
      BY <1>12 DEF TryLock
    <2> QED
      BY <1>12, <2>2, <2>3, <2>4, <2>5 DEF TryLock
  <1> QED
    BY <1>1, <1>2, <1>3, <1>4, <1>5, <1>6, <1>7, <1>8, <1>9, <1>10, <1>11,
       <1>12 DEF ReprocessorStep

LEMMA TypeCaller ==
  ASSUME TypeOK, NEW c \in Callers, CallerStep(c) \/ PostFails(c)
  PROVE  TypeOK'
  <1> USE DEF TypeOK, tableVars, workerVars
  <1>1. ASSUME NEW S \in SUBSET Scopes, NEW b \in Periods, NEW e \in Periods,
               Request(c, S, b, e)
        PROVE  TypeOK'
    <2>1. [start |-> b, end |-> e] \in Window
      BY <1>1 DEF Request, Window
    <2>2. spent' \in [Events -> Nat]
      BY <1>1, SpendType DEF Events, Request
    <2> QED
      BY <1>1, <2>1, <2>2 DEF Request
  <1>2. ASSUME NEW s \in Scopes, CheckOverlap(c, s)
        PROVE  TypeOK'
    BY <1>2 DEF CheckOverlap
  <1>3. ASSUME NEW s \in Scopes, Reject(c, s)
        PROVE  TypeOK'
    BY <1>3 DEF Reject
  <1>4. ASSUME NEW s \in Scopes, Persist(c, s)
        PROVE  TypeOK'
    <2>1. [scope |-> s, start |-> window[c].start, end |-> window[c].end,
           cur |-> Never] \in Row
      BY DEF Row, Window
    <2>2. schedules' \in Seq(Row)
      BY <1>4, <2>1 DEF Persist
    <2> QED
      BY <1>4, <2>2 DEF Persist
  <1>5. CASE PostFails(c)
    <2>1. spent' \in [Events -> Nat]
      BY <1>5, SpendType DEF Events, PostFails
    <2> QED
      BY <1>5, <2>1 DEF PostFails
  <1> QED
    BY <1>1, <1>2, <1>3, <1>4, <1>5 DEF CallerStep

LEMMA TypeFault ==
  ASSUME TypeOK, NEW q \in Reprocessors,
         PushFails(q) \/ PushRefused(q) \/ CleanRefused(q)
         \/ ProcessingFails(q) \/ Crash(q)
  PROVE  TypeOK'
  <1> USE DEF TypeOK, Goto, Working, tableVars, callerVars
  <1>1. spent' \in [Events -> Nat]
    BY SpendType DEF Events, PushFails, PushRefused, CleanRefused,
       ProcessingFails, Crash
  <1>2. CASE PushFails(q)
    <2>1. AddDoc(buffer[q], key[q].scope, ts[q]) \in [Frames -> Nat]
      BY StoreTypes
    <2>2. Commit(frames, AddDoc(buffer[q], key[q].scope, ts[q])) \in [Frames -> Nat]
      BY <2>1, StoreTypes
    <2> QED
      BY <1>1, <1>2, <2>1, <2>2 DEF PushFails
  <1>3. CASE ProcessingFails(q)
    BY <1>1, <1>3 DEF ProcessingFails
  <1>4. CASE Crash(q)
    <2>1. NoDocs \in [Frames -> Nat]
      BY DEF NoDocs
    <2> QED
      BY <1>1, <1>4, <2>1 DEF Crash
  <1>5. CASE PushRefused(q)
    <2>1. AddDoc(buffer[q], key[q].scope, ts[q]) \in [Frames -> Nat]
      BY StoreTypes
    <2> QED
      BY <1>1, <1>5, <2>1 DEF PushRefused
  <1>6. CASE CleanRefused(q)
    BY <1>1, <1>6 DEF CleanRefused
  <1> QED
    BY <1>2, <1>3, <1>4, <1>5, <1>6

LEMMA TypeNext == TypeOK /\ [Next]_vars => TypeOK'
  <1> SUFFICES ASSUME TypeOK, [Next]_vars PROVE TypeOK'
    OBVIOUS
  <1>1. CASE UNCHANGED vars
    BY <1>1 DEF TypeOK, vars, tableVars, workerVars, callerVars
  <1>2. ASSUME NEW s \in Scopes, Toggle(s)
        PROVE  TypeOK'
    <2>1. spent' \in [Events -> Nat]
      BY <1>2, SpendType DEF Events, Toggle
    <2> QED
      BY <1>2, <2>1 DEF TypeOK, Toggle, workerVars, callerVars
  <1> QED
    BY <1>1, <1>2, TypeReprocessor, TypeCaller, TypeFault DEF Next, Fault

(* Every variable keeps its type, with any number of scopes, reprocessors, *)
(* requests and faults.                                                    *)
THEOREM TypeCorrect == Spec => []TypeOK
  BY TypeInit, TypeNext, PTL DEF Spec
-----------------------------------------------------------------------------
(***************************************************************************)
(* Locks: whoever works on a schedule holds its lock.                      *)
(***************************************************************************)
LockHeld ==
  \A q \in Reprocessors :
    pc[q] \in Working => key[q] \in Keys /\ lock[key[q]] = q

LockInv == TypeOK /\ LockHeld

LEMMA LockNext == LockInv /\ [Next]_vars => LockInv'
  <1> SUFFICES ASSUME LockInv, [Next]_vars PROVE LockHeld'
    BY TypeNext DEF LockInv
  <1> USE ReprocessingAssumption
      DEF LockInv, TypeOK, LockHeld, Goto, Working, callerVars, workerVars
  <1>1. ASSUME NEW q \in Reprocessors, UNCHANGED <<lock, key>>,
               \E x : /\ pc' = [pc EXCEPT ![q] = x]
                      /\ x \in Working => pc[q] \in Working
        PROVE  LockHeld'
    BY <1>1
  <1>2. ASSUME NEW q \in Reprocessors,
               \/ LoadSchedules(q) \/ EndCycle(q) \/ ProcessSchedule(q)
               \/ LoadScopeKey(q)
        PROVE  LockHeld'
    BY <1>1, <1>2 DEF LoadSchedules, EndCycle, ProcessSchedule, LoadScopeKey
  <1>3. ASSUME NEW q \in Reprocessors,
               \/ NextTimestamp(q) \/ CheckActive(q) \/ Clean(q)
               \/ CleanRefused(q) \/ Collect(q)
        PROVE  LockHeld'
    BY <1>1, <1>3 DEF NextTimestamp, CheckActive, Clean, CleanRefused, Collect
  <1>4. ASSUME NEW q \in Reprocessors,
               \/ Push(q) \/ PushRefused(q) \/ SaveProgress(q) \/ PushFails(q)
               \/ ProcessingFails(q)
        PROVE  LockHeld'
    BY <1>1, <1>4 DEF Push, PushRefused, SaveProgress, PushFails,
       ProcessingFails
  <1>5. ASSUME NEW q \in Reprocessors, NEW k \in Keys, TryLock(q, k)
        PROVE  LockHeld'
    <2>1. CASE UNCHANGED <<lock, pc, key>>
      BY <2>1
    <2>2. CASE /\ lock[k] = Free
               /\ lock' = [lock EXCEPT ![k] = q]
               /\ pc' = [pc EXCEPT ![q] = "process"]
               /\ key' = [key EXCEPT ![q] = k]
      BY <2>2
    <2> QED
      BY <1>5, <2>1, <2>2 DEF TryLock
  <1>6. ASSUME NEW q \in Reprocessors, Release(q)
        PROVE  LockHeld'
    BY <1>6 DEF Release
  <1>7. ASSUME NEW q \in Reprocessors, Crash(q)
        PROVE  LockHeld'
    BY <1>7 DEF Crash
  <1>8. ASSUME UNCHANGED <<lock, pc, key>>
        PROVE  LockHeld'
    BY <1>8
  <1>9. ASSUME NEW c \in Callers, CallerStep(c) \/ PostFails(c)
        PROVE  LockHeld'
    BY <1>8, <1>9 DEF CallerStep, PostFails, Request, CheckOverlap, Reject,
       Persist
  <1>10. CASE (\E s \in Scopes : Toggle(s)) \/ UNCHANGED vars
    BY <1>8, <1>10 DEF Toggle, vars
  <1> QED
    BY <1>2, <1>3, <1>4, <1>5, <1>6, <1>7, <1>9, <1>10
       DEF Next, Fault, ReprocessorStep

(* Two reprocessors never work on one schedule.                            *)
LEMMA Exclusive ==
  ASSUME LockInv, NEW q \in Reprocessors, NEW r \in Reprocessors,
         pc[q] \in Working, pc[r] \in Working, key[q] = key[r]
  PROVE  q = r
  BY DEF LockInv, LockHeld

-----------------------------------------------------------------------------
(***************************************************************************)
(* Overlapping schedules.  Until a check overlooks one, what a caller has  *)
(* found free of unfinished schedules stays so until it writes its own.    *)
(***************************************************************************)
Overlaps(r, s, w) == r.scope = s /\ Unfinished(r) /\ Intersects(r, w)

AcceptedAreFree ==
  /\ \A c \in Callers : apc[c] = "idle" => accepted[c] = {}
  /\ \A c \in Callers : \A s \in accepted[c], i \in Rows :
       ~Overlaps(schedules[i], s, window[c])
  /\ \A c, d \in Callers : \A s \in accepted[c] \cap accepted[d] :
       c # d => ~Intersects(window[c], window[d])

(* The bounds of a schedule, and its progress within them.                 *)
RowsOrdered ==
  \A i \in Rows :
    /\ schedules[i].start <= schedules[i].end
    /\ \/ schedules[i].cur = Never
       \/ schedules[i].start <= schedules[i].cur

(* The period in hand is the next one of a row of the schedule.            *)
InHand == {"check", "clean", "collect", "push", "save"}

PeriodInHand ==
  \A q \in Reprocessors :
    pc[q] \in InHand =>
      \E i \in Pending(key[q]) : ts[q] = NextOf(schedules[i])

ProgressInv ==
  /\ LockInv /\ ~overlooked
  /\ OneScheduleAtATime /\ AcceptedAreFree /\ RowsOrdered /\ PeriodInHand

(* What was overlooked is so for good.                                     *)
LEMMA OverlookedBefore ==
  ASSUME [Next]_vars, ~overlooked'
  PROVE  ~overlooked
  BY DEF Next, ReprocessorStep, CallerStep, Fault, vars, callerVars,
     LoadSchedules, TryLock, EndCycle, ProcessSchedule, LoadScopeKey, Release,
     NextTimestamp, CheckActive, Clean, Collect, Push, SaveProgress, PushFails,
     PushRefused, CleanRefused, ProcessingFails, Crash, Request, CheckOverlap,
     Reject, Persist, PostFails, Toggle

(* Without overlaps the queries on a row by its key have one answer.       *)
LEMMA OneRow ==
  ASSUME TypeOK, OneScheduleAtATime, RowsOrdered,
         NEW k, NEW i \in Pending(k), NEW j \in Pending(k)
  PROVE  i = j
  <1>1. /\ i \in Rows /\ Unfinished(schedules[i]) /\ KeyOf(schedules[i]) = k
        /\ j \in Rows /\ Unfinished(schedules[j]) /\ KeyOf(schedules[j]) = k
    BY DEF Pending
  <1>2. /\ schedules[i].scope = schedules[j].scope
        /\ schedules[i].start = schedules[j].start
        /\ schedules[i].end = schedules[j].end
    BY <1>1 DEF KeyOf
  <1>3. /\ schedules[i].start \in Periods
        /\ Covers(schedules[i], schedules[i].start)
        /\ Covers(schedules[j], schedules[i].start)
    <2>1. schedules[i] \in Row
      BY <1>1 DEF TypeOK, Rows
    <2>2. schedules[i].start \in Periods /\ schedules[i].start \in Int
      BY <2>1, RatingStoreAssumption DEF Row, Periods
    <2>3. schedules[i].start <= schedules[i].end
      BY <1>1 DEF RowsOrdered
    <2> QED
      BY <1>2, <2>2, <2>3 DEF Covers
  <1> QED
    BY <1>1, <1>2, <1>3 DEF OneScheduleAtATime

(* A step that is neither a save nor the writing of a schedule.            *)
LEMMA RowsKept ==
  ASSUME [Next]_vars
  PROVE  \/ schedules' = schedules
         \/ \E q \in Reprocessors : SaveProgress(q)
         \/ \E c \in Callers, s \in Scopes : Persist(c, s)
  BY DEF Next, ReprocessorStep, CallerStep, Fault, vars, LoadSchedules,
     TryLock, EndCycle, ProcessSchedule, LoadScopeKey, Release, NextTimestamp,
     CheckActive, Clean, Collect, Push, PushFails, PushRefused, CleanRefused,
     ProcessingFails, Crash, Request, CheckOverlap, Reject, PostFails, Toggle

(* What a save does to the one row of its schedule.                        *)
LEMMA SaveMoves ==
  ASSUME ProgressInv, NEW q \in Reprocessors, SaveProgress(q)
  PROVE  \E i \in Pending(key[q]) :
           /\ ts[q] = NextOf(schedules[i]) /\ ts[q] \in Periods
           /\ schedules' = [schedules EXCEPT ![i].cur = ts[q]]
           /\ schedules'[i] = [schedules[i] EXCEPT !.cur = ts[q]]
           /\ Rows' = Rows
           /\ \A j \in Rows \ {i} : schedules'[j] = schedules[j]
  <1>1. pc[q] = "save" /\ TypeOK
    BY DEF SaveProgress, Goto, ProgressInv, LockInv
  <1>2. PICK i \in Pending(key[q]) : ts[q] = NextOf(schedules[i])
    BY <1>1 DEF ProgressInv, PeriodInHand, InHand
  <1>3. i \in Rows /\ schedules[i] \in Row /\ Unfinished(schedules[i])
    BY <1>1 DEF Pending, Rows, TypeOK
  <1>4. ts[q] \in Periods
    BY <1>2, <1>3, NextOfType
  <1>5. schedules' = [schedules EXCEPT ![i].cur = ts[q]]
    <2>1. PICK j \in Pending(key[q]) :
            schedules' = [schedules EXCEPT ![j].cur = ts[q]]
      BY <1>2 DEF SaveProgress
    <2>2. i = j
      BY <1>1, OneRow DEF ProgressInv
    <2> QED
      BY <2>1, <2>2
  <1>6. schedules'[i] = [schedules[i] EXCEPT !.cur = ts[q]]
    BY <1>1, <1>3, <1>5 DEF TypeOK, Rows
  <1>7. Rows' = Rows /\ \A j \in Rows \ {i} : schedules'[j] = schedules[j]
    BY <1>1, <1>3, <1>5 DEF TypeOK, Rows
  <1> QED
    BY <1>2, <1>4, <1>5, <1>6, <1>7

(* What the writing of a schedule does to the table.                       *)
LEMMA PersistAppends ==
  ASSUME TypeOK, NEW c \in Callers, NEW s \in Scopes, Persist(c, s)
  PROVE  \E i : /\ i \notin Rows /\ Rows' = Rows \cup {i}
                /\ schedules'[i] = [scope |-> s, start |-> window[c].start,
                                    end |-> window[c].end, cur |-> Never]
                /\ \A j \in Rows : schedules'[j] = schedules[j]
  <1> DEFINE r == [scope |-> s, start |-> window[c].start,
                   end |-> window[c].end, cur |-> Never]
  <1>1. schedules' = Append(schedules, r) /\ schedules \in Seq(Row) /\ r \in Row
    BY DEF Persist, TypeOK, Window, Row
  <1>2. /\ Len(schedules) + 1 \notin DOMAIN schedules
        /\ DOMAIN Append(schedules, r) = DOMAIN schedules \cup {Len(schedules) + 1}
        /\ Append(schedules, r)[Len(schedules) + 1] = r
        /\ \A j \in DOMAIN schedules : Append(schedules, r)[j] = schedules[j]
    BY <1>1
  <1> QED
    BY <1>1, <1>2 DEF Rows
LEMMA RowsNext ==
  ASSUME ProgressInv, [Next]_vars
  PROVE  OneScheduleAtATime' /\ RowsOrdered'
  <1>1. TypeOK
    BY DEF ProgressInv, LockInv
  <1>2. CASE schedules' = schedules
    BY <1>2 DEF ProgressInv, OneScheduleAtATime, RowsOrdered, Rows, Unfinished,
       Covers
  <1>3. ASSUME NEW q \in Reprocessors, SaveProgress(q)
        PROVE  OneScheduleAtATime' /\ RowsOrdered'
    <2>1. PICK i \in Pending(key[q]) :
             /\ ts[q] = NextOf(schedules[i]) /\ ts[q] \in Periods
             /\ schedules'[i] = [schedules[i] EXCEPT !.cur = ts[q]]
             /\ Rows' = Rows
             /\ \A j \in Rows \ {i} : schedules'[j] = schedules[j]
      BY <1>3, SaveMoves
    <2>2. i \in Rows /\ schedules[i] \in Row /\ Unfinished(schedules[i])
      BY <1>1 DEF Pending, Rows, TypeOK
    <2>3. /\ schedules'[i].scope = schedules[i].scope
          /\ schedules'[i].start = schedules[i].start
          /\ schedules'[i].end = schedules[i].end
          /\ schedules'[i].cur = ts[q]
      BY <2>1, <2>2 DEF Row
    <2>4. \A j \in Rows :
             /\ schedules'[j].scope = schedules[j].scope
             /\ schedules'[j].start = schedules[j].start
             /\ schedules'[j].end = schedules[j].end
             /\ Unfinished(schedules'[j]) => Unfinished(schedules[j])
      BY <2>1, <2>2, <2>3
    <2>5. OneScheduleAtATime'
      BY <2>1, <2>4 DEF ProgressInv, OneScheduleAtATime, Covers
    <2>6. schedules[i].start <= ts[q]
      BY <2>1, <2>2, RatingStoreAssumption
         DEF NextOf, ProgressInv, RowsOrdered, Row, Periods
    <2>7. RowsOrdered'
      BY <2>1, <2>3, <2>4, <2>6 DEF ProgressInv, RowsOrdered
    <2> QED
      BY <2>5, <2>7
  <1>4. ASSUME NEW c \in Callers, NEW s \in Scopes, Persist(c, s)
        PROVE  OneScheduleAtATime' /\ RowsOrdered'
    <2>1. PICK i : /\ i \notin Rows /\ Rows' = Rows \cup {i}
                   /\ schedules'[i] = [scope |-> s, start |-> window[c].start,
                                       end |-> window[c].end, cur |-> Never]
                   /\ \A j \in Rows : schedules'[j] = schedules[j]
      BY <1>1, <1>4, PersistAppends
    <2>2. s \in accepted[c] /\ window[c] \in Window
      BY <1>1, <1>4 DEF Persist, TypeOK
    <2>3. \A j \in Rows : ~Overlaps(schedules[j], s, window[c])
      BY <2>2 DEF ProgressInv, AcceptedAreFree
    <2>4. ASSUME NEW j \in Rows, schedules[j].scope = s, Unfinished(schedules[j])
          PROVE  \A t \in Periods :
                   ~(Covers(schedules'[j], t) /\ Covers(schedules'[i], t))
      <3>1. ~Intersects(schedules[j], window[c])
        BY <2>3, <2>4 DEF Overlaps
      <3>2. /\ schedules[j].start \in Int /\ schedules[j].end \in Int
            /\ window[c].start \in Int /\ window[c].end \in Int
        <4>1. schedules[j] \in Row
          BY <1>1 DEF TypeOK, Rows
        <4> QED
          BY <2>2, <4>1, RatingStoreAssumption DEF Row, Window, Periods
      <3>3. \A t \in Int : ~(Covers(schedules[j], t) /\ Covers(window[c], t))
        BY <3>1, <3>2 DEF Intersects, Covers
      <3> QED
        BY <2>1, <3>3, RatingStoreAssumption DEF Covers, Periods
    <2>5. OneScheduleAtATime'
      BY <2>1, <2>4 DEF ProgressInv, OneScheduleAtATime
    <2>6. RowsOrdered'
      BY <2>1, <2>2 DEF ProgressInv, RowsOrdered, Window
    <2> QED
      BY <2>5, <2>6
  <1> QED
    BY <1>2, <1>3, <1>4, RowsKept

LEMMA AcceptedNext ==
  ASSUME ProgressInv, ~overlooked', [Next]_vars
  PROVE  AcceptedAreFree'
  <1>1. TypeOK
    BY DEF ProgressInv, LockInv
  <1>2. CASE UNCHANGED <<schedules, callerVars>>
    BY <1>2 DEF ProgressInv, AcceptedAreFree, callerVars, Rows, Overlaps,
                Unfinished, Intersects
  <1>3. ASSUME NEW q \in Reprocessors, SaveProgress(q)
        PROVE  AcceptedAreFree'
    <2>1. PICK i \in Pending(key[q]) :
             /\ schedules'[i] = [schedules[i] EXCEPT !.cur = ts[q]]
             /\ Rows' = Rows
             /\ \A j \in Rows \ {i} : schedules'[j] = schedules[j]
      BY <1>3, SaveMoves
    <2>2. i \in Rows /\ schedules[i] \in Row /\ Unfinished(schedules[i])
      BY <1>1 DEF Pending, Rows, TypeOK
    <2>3. \A j \in Rows : \A s, w :
             Overlaps(schedules'[j], s, w) => Overlaps(schedules[j], s, w)
      BY <2>1, <2>2 DEF Overlaps, Intersects, Row
    <2>4. UNCHANGED callerVars
      BY <1>3 DEF SaveProgress
    <2> QED
      BY <2>1, <2>3, <2>4 DEF ProgressInv, AcceptedAreFree, callerVars
  <1>4. ASSUME NEW c \in Callers, CallerStep(c) \/ PostFails(c)
        PROVE  AcceptedAreFree'
    <2>1. /\ \A d \in Callers : apc[d] = "idle" => accepted[d] = {}
          /\ \A d \in Callers : \A s \in accepted[d], i \in Rows :
               ~Overlaps(schedules[i], s, window[d])
          /\ \A d, e \in Callers : \A s \in accepted[d] \cap accepted[e] :
               d # e => ~Intersects(window[d], window[e])
      BY DEF ProgressInv, AcceptedAreFree
    (* A caller that gives up what it had accepted.                        *)
    <2>2. ASSUME accepted'[c] = {}, schedules' = schedules,
                 \A d \in Callers \ {c} : /\ apc'[d] = apc[d]
                                          /\ window'[d] = window[d]
                                          /\ accepted'[d] = accepted[d]
          PROVE  AcceptedAreFree'
      BY <2>1, <2>2 DEF AcceptedAreFree, Rows, Overlaps, Unfinished, Intersects
    <2>3. ASSUME NEW S \in SUBSET Scopes, NEW b \in Periods, NEW e \in Periods,
                 Request(c, S, b, e)
          PROVE  AcceptedAreFree'
      BY <1>1, <2>1, <2>2, <2>3 DEF Request, TypeOK
    <2>4. ASSUME NEW s \in Scopes, Reject(c, s)
          PROVE  AcceptedAreFree'
      BY <1>1, <2>2, <2>4 DEF Reject, TypeOK
    <2>5. CASE PostFails(c)
      BY <1>1, <2>2, <2>5 DEF PostFails, TypeOK
    <2>6. ASSUME NEW s \in Scopes, CheckOverlap(c, s)
          PROVE  AcceptedAreFree'
      <3>1. /\ apc'[c] # "idle" /\ schedules' = schedules /\ window' = window
            /\ accepted'[c] = accepted[c] \cup {s}
            /\ \A d \in Callers \ {c} : apc'[d] = apc[d] /\ accepted'[d] = accepted[d]
        BY <1>1, <2>6 DEF CheckOverlap, TypeOK
      <3>2. Overlapping(c, s) = {} /\ ~Concurrent(c, s)
        BY <2>6 DEF CheckOverlap
      <3>3. \A i \in Rows : ~Overlaps(schedules[i], s, window[c])
        BY <3>2 DEF Overlapping, UnfinishedOf, Overlaps
      <3>4. \A d \in Callers \ {c} :
               s \in accepted[d] => /\ ~Intersects(window[d], window[c])
                                    /\ ~Intersects(window[c], window[d])
        BY <3>2 DEF Concurrent, Intersects
      <3>5. \A d \in Callers : apc'[d] = "idle" => accepted'[d] = {}
        BY <2>1, <3>1
      <3>6. \A d \in Callers : \A x \in accepted'[d], i \in Rows :
               ~Overlaps(schedules[i], x, window[d])
        BY <2>1, <3>1, <3>3
      <3>7. \A d, e \in Callers : \A x \in accepted'[d] \cap accepted'[e] :
               d # e => ~Intersects(window[d], window[e])
        BY <2>1, <3>1, <3>4
      <3> QED
        BY <3>1, <3>5, <3>6, <3>7
           DEF AcceptedAreFree, Rows, Overlaps, Unfinished, Intersects
    <2>7. ASSUME NEW s \in Scopes, Persist(c, s)
          PROVE  AcceptedAreFree'
      <3>1. PICK i : /\ i \notin Rows /\ Rows' = Rows \cup {i}
                     /\ schedules'[i] = [scope |-> s, start |-> window[c].start,
                                         end |-> window[c].end, cur |-> Never]
                     /\ \A j \in Rows : schedules'[j] = schedules[j]
        BY <1>1, <2>7, PersistAppends
      <3>2. /\ accepted'[c] = accepted[c] \ {s} /\ window' = window
            /\ s \in accepted[c] /\ apc[c] = "persist"
            /\ apc'[c] = IF accepted'[c] = {} THEN "idle" ELSE apc[c]
            /\ \A d \in Callers \ {c} : apc'[d] = apc[d] /\ accepted'[d] = accepted[d]
        BY <1>1, <2>7 DEF Persist, TypeOK
      <3>3. \A d \in Callers : apc'[d] = "idle" => accepted'[d] = {}
        BY <2>1, <3>2
      <3>4. \A d \in Callers : \A x \in accepted'[d] :
               ~Overlaps(schedules'[i], x, window'[d])
        <4> SUFFICES ASSUME NEW d \in Callers, s \in accepted'[d],
                            Intersects(window[c], window[d])
                     PROVE  FALSE
          BY <3>1, <3>2 DEF Overlaps, Intersects
        <4>1. d # c /\ s \in accepted[d]
          BY <3>2
        <4> QED
          BY <2>1, <3>2, <4>1
      <3>5. \A d \in Callers : \A x \in accepted'[d], j \in Rows :
               ~Overlaps(schedules'[j], x, window'[d])
        BY <2>1, <3>1, <3>2
      <3>6. \A d, e \in Callers : \A x \in accepted'[d] \cap accepted'[e] :
               d # e => ~Intersects(window'[d], window'[e])
        BY <2>1, <3>2
      <3> QED
        BY <3>1, <3>3, <3>4, <3>5, <3>6 DEF AcceptedAreFree
    <2> QED
      BY <1>4, <2>3, <2>4, <2>5, <2>6, <2>7 DEF CallerStep
  <1>5. \/ UNCHANGED <<schedules, callerVars>>
        \/ \E q \in Reprocessors : SaveProgress(q)
        \/ \E c \in Callers : CallerStep(c) \/ PostFails(c)
    BY DEF Next, ReprocessorStep, Fault, vars, LoadSchedules, TryLock,
       EndCycle, ProcessSchedule, LoadScopeKey, Release, NextTimestamp,
       CheckActive, Clean, Collect, Push, PushFails, PushRefused, CleanRefused,
       ProcessingFails, Crash, Toggle
  <1> QED
    BY <1>2, <1>3, <1>4, <1>5

(* A reprocessor with a period in hand just took it, or had it before.     *)
LEMMA HandKept ==
  ASSUME TypeOK, [Next]_vars, NEW q \in Reprocessors, pc'[q] \in InHand
  PROVE  \/ NextTimestamp(q)
         \/ /\ pc[q] \in InHand /\ key'[q] = key[q] /\ ts'[q] = ts[q]
            /\ ~SaveProgress(q)
  <1> USE DEF TypeOK, InHand, Goto
  <1>1. CASE UNCHANGED <<pc, key, ts>>
    BY <1>1 DEF SaveProgress
  <1>2. CASE \/ \E c \in Callers : CallerStep(c) \/ PostFails(c)
             \/ \E s \in Scopes : Toggle(s)
             \/ UNCHANGED vars
    BY <1>1, <1>2 DEF CallerStep, Request, CheckOverlap, Reject, Persist,
       PostFails, Toggle, vars, workerVars
  <1>3. ASSUME NEW r \in Reprocessors,
               \/ ReprocessorStep(r)
               \/ PushFails(r) \/ PushRefused(r) \/ CleanRefused(r)
               \/ ProcessingFails(r) \/ Crash(r)
        PROVE  \/ NextTimestamp(q)
               \/ /\ pc[q] \in InHand /\ key'[q] = key[q] /\ ts'[q] = ts[q]
                  /\ ~SaveProgress(q)
    <2>1. CASE LoadSchedules(r) \/ EndCycle(r) \/ ProcessSchedule(r)
               \/ LoadScopeKey(r) \/ NextTimestamp(r)
      <3>1. ~SaveProgress(q) \/ pc[q] = "save"
        BY DEF SaveProgress
      <3>2. CASE r = q
        BY <2>1, <3>1, <3>2 DEF LoadSchedules, EndCycle, ProcessSchedule,
           LoadScopeKey, NextTimestamp
      <3>3. CASE r # q
        <4>1. pc'[q] = pc[q] /\ key'[q] = key[q] /\ ts'[q] = ts[q]
          BY <2>1, <3>3 DEF LoadSchedules, EndCycle, ProcessSchedule,
             LoadScopeKey, NextTimestamp
        <4> QED
          BY <4>1 DEF SaveProgress
      <3> QED
        BY <3>2, <3>3
    <2>2. CASE \/ CheckActive(r) \/ Clean(r) \/ Collect(r) \/ Push(r)
               \/ CleanRefused(r) \/ PushRefused(r)
      BY <2>2 DEF CheckActive, Clean, Collect, Push, CleanRefused, PushRefused,
         SaveProgress
    <2>3. CASE SaveProgress(r)
      BY <2>3 DEF SaveProgress
    <2>4. CASE PushFails(r) \/ ProcessingFails(r) \/ Crash(r) \/ Release(r)
      BY <2>4 DEF PushFails, ProcessingFails, Crash, Release, SaveProgress
    <2>5. ASSUME NEW k \in Keys, TryLock(r, k)
          PROVE  \/ NextTimestamp(q)
                 \/ /\ pc[q] \in InHand /\ key'[q] = key[q] /\ ts'[q] = ts[q]
                    /\ ~SaveProgress(q)
      BY <2>5 DEF TryLock, SaveProgress
    <2> QED
      BY <1>3, <2>1, <2>2, <2>3, <2>4, <2>5 DEF ReprocessorStep
  <1> QED
    BY <1>2, <1>3 DEF Next, Fault
LEMMA HandNext ==
  ASSUME ProgressInv, [Next]_vars
  PROVE  PeriodInHand'
  <1> SUFFICES ASSUME NEW q \in Reprocessors, pc'[q] \in InHand
               PROVE  \E i \in Rows' :
                        /\ KeyOf(schedules'[i]) = key'[q]
                        /\ Unfinished(schedules'[i])
                        /\ ts'[q] = NextOf(schedules'[i])
    BY DEF PeriodInHand, Pending, Rows
  <1>1. TypeOK /\ LockInv
    BY DEF ProgressInv, LockInv
  <1>2. CASE NextTimestamp(q)
    <2>1. pc'[q] # "unlock" /\ schedules' = schedules /\ key' = key
      BY <1>2 DEF NextTimestamp, InHand
    <2>2. PICK i \in Pending(key[q]) : ts' = [ts EXCEPT ![q] = NextOf(schedules[i])]
      BY <1>1, <1>2, <2>1 DEF NextTimestamp, Goto, TypeOK
    <2>3. ts'[q] = NextOf(schedules[i])
      BY <1>1, <2>2 DEF TypeOK
    <2> QED
      BY <2>1, <2>2, <2>3 DEF Pending, Rows
  <1>3. CASE /\ pc[q] \in InHand /\ key'[q] = key[q] /\ ts'[q] = ts[q]
             /\ ~SaveProgress(q)
    <2>1. PICK i \in Pending(key[q]) : ts[q] = NextOf(schedules[i])
      BY <1>3 DEF ProgressInv, PeriodInHand
    <2>2. i \in Rows
      BY <2>1 DEF Pending
    <2>3. i \in Rows' /\ schedules'[i] = schedules[i]
      <3>1. CASE schedules' = schedules
        BY <2>2, <3>1 DEF Rows
      <3>2. ASSUME NEW r \in Reprocessors, SaveProgress(r)
            PROVE  i \in Rows' /\ schedules'[i] = schedules[i]
        <4>1. key[r] # key[q]
          BY <1>1, <1>3, <3>2, Exclusive DEF SaveProgress, Goto, InHand, Working
        <4>2. i \notin Pending(key[r])
          BY <2>1, <4>1 DEF Pending
        <4> QED
          BY <2>2, <3>2, <4>2, SaveMoves
      <3>3. ASSUME NEW c \in Callers, NEW s \in Scopes, Persist(c, s)
            PROVE  i \in Rows' /\ schedules'[i] = schedules[i]
        BY <1>1, <2>2, <3>3, PersistAppends
      <3> QED
        BY <3>1, <3>2, <3>3, RowsKept
    <2> QED
      BY <1>3, <2>1, <2>3 DEF Pending
  <1> QED
    BY <1>1, <1>2, <1>3, HandKept

LEMMA ProgressInit == Init => ProgressInv
  <1> SUFFICES ASSUME Init PROVE ProgressInv
    OBVIOUS
  <1>1. LockInv
    BY TypeInit DEF LockInv, LockHeld, Init, Working
  <1>2. Rows = {}
    BY DEF Init, Rows
  <1>3. ~overlooked /\ OneScheduleAtATime /\ AcceptedAreFree /\ RowsOrdered
    BY <1>2 DEF OneScheduleAtATime, AcceptedAreFree, RowsOrdered, Init
  <1>4. PeriodInHand
    BY DEF Init, PeriodInHand, InHand
  <1> QED
    BY <1>1, <1>3, <1>4 DEF ProgressInv

LEMMA ProgressNext ==
  ASSUME ProgressInv, [Next]_vars, ~overlooked'
  PROVE  ProgressInv'
  <1>1. LockInv'
    BY LockNext DEF ProgressInv
  <1> QED
    BY <1>1, RowsNext, AcceptedNext, HandNext DEF ProgressInv

(* The unfinished schedules of a scope never share a period, however many  *)
(* requests are served together, unless one was checked while another that *)
(* overlaps it was checked and not written, or against more schedules of   *)
(* its scope than a query answers: validate_reprocessing_schedules_overlaps*)
(* keeps its promise everywhere else.                                      *)
THEOREM SchedulesAreDisjoint == Spec => []NoOverlap
  <1>1. Init => ProgressInv
    BY ProgressInit
  <1>2. (overlooked \/ ProgressInv) /\ [Next]_vars => (overlooked \/ ProgressInv)'
    BY ProgressNext, OverlookedBefore
  <1>3. overlooked \/ ProgressInv => NoOverlap
    BY DEF ProgressInv, NoOverlap
  <1> QED
    BY <1>1, <1>2, <1>3, PTL DEF Spec

(* ... and then every schedule goes through its window in order, whatever  *)
(* reprocessor carries on after a crash: update_reprocessing_time never    *)
(* skips a period nor takes one back.                                      *)
THEOREM ProgressIsOrdered == Spec => ProgressInOrder
  <1> DEFINE Ordered ==
        \A i \in Rows :
          \/ schedules'[i] = schedules[i]
          \/ /\ Unfinished(schedules[i])
             /\ schedules'[i] = [schedules[i] EXCEPT !.cur = NextOf(schedules[i])]
  <1>1. Init => ProgressInv
    BY ProgressInit
  <1>2. (overlooked \/ ProgressInv) /\ [Next]_vars => (overlooked \/ ProgressInv)'
    BY ProgressNext, OverlookedBefore
  <1>3. (overlooked \/ ProgressInv) /\ [Next]_vars => [~overlooked => Ordered]_vars
    <2> SUFFICES ASSUME ProgressInv, [Next]_vars PROVE Ordered
      OBVIOUS
    <2>1. TypeOK
      BY DEF ProgressInv, LockInv
    <2>2. CASE schedules' = schedules
      BY <2>2
    <2>3. ASSUME NEW q \in Reprocessors, SaveProgress(q)
          PROVE  Ordered
      <3>1. PICK i \in Pending(key[q]) :
               /\ ts[q] = NextOf(schedules[i])
               /\ schedules'[i] = [schedules[i] EXCEPT !.cur = ts[q]]
               /\ \A j \in Rows \ {i} : schedules'[j] = schedules[j]
        BY <2>3, SaveMoves
      <3>2. Unfinished(schedules[i])
        BY <3>1 DEF Pending
      <3> QED
        BY <3>1, <3>2
    <2>4. ASSUME NEW c \in Callers, NEW s \in Scopes, Persist(c, s)
          PROVE  Ordered
      BY <2>1, <2>4, PersistAppends
    <2> QED
      BY <2>2, <2>3, <2>4, RowsKept
  <1> QED
    BY <1>1, <1>2, <1>3, PTL DEF Spec, ProgressInOrder

-----------------------------------------------------------------------------
(***************************************************************************)
(* What was rated stays rated.  The invariant adds to NothingLost the      *)
(* period that is pushed and not recorded yet.                             *)
(***************************************************************************)
PushedBeforeSave ==
  \A q \in Reprocessors :
    pc[q] = "save" /\ <<key[q].scope, ts[q]>> \notin Idle
      => frames[<<key[q].scope, ts[q]>>] > 0

LostInv == ProgressInv /\ PushedBeforeSave /\ NothingLost

(* What a reprocessor that has a period in hand works on.                  *)
LEMMA InHandFacts ==
  ASSUME ProgressInv, NEW q \in Reprocessors, pc[q] \in InHand
  PROVE  /\ key[q] \in Keys /\ ts[q] \in Periods
         /\ \E i \in Pending(key[q]) :
              /\ i \in Rows /\ Unfinished(schedules[i])
              /\ schedules[i].scope = key[q].scope
              /\ schedules[i].start = key[q].start
              /\ schedules[i].end = key[q].end
              /\ ts[q] = NextOf(schedules[i])
              /\ key[q].start <= ts[q] /\ ts[q] <= key[q].end
              /\ Remains(schedules[i], ts[q])
  <1>1. TypeOK /\ key[q] \in Keys
    BY DEF ProgressInv, LockInv, LockHeld, InHand, Working
  <1>2. PICK i \in Pending(key[q]) : ts[q] = NextOf(schedules[i])
    BY DEF ProgressInv, PeriodInHand
  <1>3. /\ i \in Rows /\ Unfinished(schedules[i]) /\ schedules[i] \in Row
        /\ KeyOf(schedules[i]) = key[q]
    BY <1>1, <1>2 DEF Pending, Rows, TypeOK
  <1>4. /\ schedules[i].scope = key[q].scope
        /\ schedules[i].start = key[q].start
        /\ schedules[i].end = key[q].end
    BY <1>3 DEF KeyOf
  <1>5. ts[q] \in Periods
    BY <1>2, <1>3, NextOfType
  <1>6. /\ schedules[i].start <= ts[q] /\ ts[q] <= schedules[i].end
        /\ Remains(schedules[i], ts[q])
    BY <1>2, <1>3, RatingStoreAssumption
       DEF ProgressInv, RowsOrdered, Unfinished, NextOf, Row, Periods, Remains
  <1> QED
    BY <1>1, <1>2, <1>3, <1>4, <1>5, <1>6

(* Who changes the content of the backend.                                 *)
LEMMA FramesKept ==
  ASSUME LockInv, [Next]_vars, Confined,
         NEW s \in Scopes, NEW t \in Periods, frames[<<s, t>>] > 0,
         ~(frames'[<<s, t>>] > 0)
  PROVE  \E q \in Reprocessors :
           /\ pc[q] = "clean" /\ schedules' = schedules
           /\ Clean(q) /\ ts[q] = key[q].start
           /\ key[q].scope = s /\ key[q].start <= t /\ t < key[q].end
  <1>1. <<s, t>> \in Frames /\ TypeOK
    BY DEF Frames, LockInv
  <1>2. ASSUME NEW q \in Reprocessors, Push(q) \/ PushFails(q)
        PROVE  frames'[<<s, t>>] > 0
    <2>1. AddDoc(buffer[q], key[q].scope, ts[q]) \in [Frames -> Nat]
      BY <1>1, StoreTypes DEF TypeOK
    <2>2. Commit(frames, AddDoc(buffer[q], key[q].scope, ts[q]))[<<s, t>>] > 0
      BY <1>1, <2>1, CommitKeeps DEF TypeOK
    <2> QED
      BY <1>2, <2>2 DEF Push, PushFails
  <1>3. ASSUME NEW q \in Reprocessors, Clean(q)
        PROVE  /\ pc[q] = "clean" /\ schedules' = schedules
               /\ ts[q] = key[q].start
               /\ key[q].scope = s /\ key[q].start <= t /\ t < key[q].end
    <2>1. frames' # frames /\ pc[q] = "clean" /\ schedules' = schedules
      BY <1>3 DEF Clean, Goto
    <2>2. /\ ts[q] = key[q].start
          /\ frames' = DeleteBetween(frames, key[q].scope, key[q].start, key[q].end)
      BY <1>3, <2>1 DEF Clean
    <2>3. key[q].scope \in Scopes
      BY <2>1 DEF LockInv, LockHeld, Working, Keys
    <2>4. key[q].scope = s /\ key[q].start <= t /\ t < key[q].end
      BY <2>2, <2>3, CleaningConfined
    <2> QED
      BY <2>1, <2>2, <2>4
  <1>4. \/ frames' = frames
        \/ \E q \in Reprocessors : Push(q) \/ PushFails(q) \/ Clean(q)
    BY DEF Next, ReprocessorStep, CallerStep, Fault, vars, LoadSchedules,
       TryLock, EndCycle, ProcessSchedule, LoadScopeKey, Release,
       NextTimestamp, CheckActive, Collect, SaveProgress, PushRefused,
       CleanRefused, ProcessingFails,
       Crash, Request, CheckOverlap, Reject, Persist, PostFails, Toggle
  <1> QED
    BY <1>2, <1>3, <1>4

(* The scopes' rows are not touched.                                       *)
LEMMA MarksKept == [Next]_vars => lastProcessed' = lastProcessed
  BY DEF Next, ReprocessorStep, CallerStep, Fault, vars, LoadSchedules,
     TryLock, EndCycle, ProcessSchedule, LoadScopeKey, Release, NextTimestamp,
     CheckActive, Clean, Collect, Push, PushFails, PushRefused, CleanRefused,
     SaveProgress, ProcessingFails, Crash, Request, CheckOverlap, Reject,
     Persist, PostFails, Toggle, tableVars

(* What the cleaning takes remains to be rated.                            *)
LEMMA CleanedRemains ==
  ASSUME ProgressInv, [Next]_vars, Confined, NEW s \in Scopes, NEW t \in Periods,
         frames[<<s, t>>] > 0, ~(frames'[<<s, t>>] > 0)
  PROVE  \E i \in Rows' : schedules'[i].scope = s /\ Remains(schedules'[i], t)
  <1>1. TypeOK /\ LockInv /\ t \in Int
    BY RatingStoreAssumption DEF ProgressInv, LockInv, Periods
  <1>2. PICK q \in Reprocessors :
           /\ pc[q] = "clean" /\ schedules' = schedules
           /\ ts[q] = key[q].start
           /\ key[q].scope = s /\ key[q].start <= t /\ t < key[q].end
    BY <1>1, FramesKept
  <1>3. PICK i \in Pending(key[q]) :
           /\ i \in Rows /\ schedules[i].scope = key[q].scope
           /\ schedules[i].start = key[q].start
           /\ schedules[i].end = key[q].end
           /\ Remains(schedules[i], ts[q])
    BY <1>2, InHandFacts DEF InHand
  <1>4. schedules[i] \in Row
    BY <1>1, <1>3 DEF TypeOK, Rows
  <1>5. Remains(schedules[i], t)
    BY <1>1, <1>2, <1>3, <1>4, RatingStoreAssumption DEF Remains, Row, Periods
  <1> QED
    BY <1>2, <1>3, <1>5 DEF Rows

(* What remains to be rated does so until it is recorded as rated.         *)
LEMMA RemainsKept ==
  ASSUME ProgressInv, [Next]_vars, NEW s \in Scopes, NEW t \in Periods,
         NEW i \in Rows, schedules[i].scope = s, Remains(schedules[i], t)
  PROVE  \/ \E j \in Rows' : schedules'[j].scope = s /\ Remains(schedules'[j], t)
         \/ \E q \in Reprocessors : /\ SaveProgress(q) /\ pc[q] = "save"
                                     /\ frames' = frames
                                     /\ key[q].scope = s /\ ts[q] = t
  <1>1. TypeOK /\ t \in Int
    BY RatingStoreAssumption DEF ProgressInv, LockInv, Periods
  <1>2. CASE schedules' = schedules
    BY <1>2 DEF Rows
  <1>3. ASSUME NEW c \in Callers, NEW x \in Scopes, Persist(c, x)
        PROVE  i \in Rows' /\ schedules'[i] = schedules[i]
    BY <1>1, <1>3, PersistAppends
  <1>4. ASSUME NEW q \in Reprocessors, SaveProgress(q),
               ~(key[q].scope = s /\ ts[q] = t)
        PROVE  \E j \in Rows' : schedules'[j].scope = s /\ Remains(schedules'[j], t)
    <2>1. PICK j \in Pending(key[q]) :
             /\ ts[q] = NextOf(schedules[j]) /\ ts[q] \in Periods
             /\ schedules'[j] = [schedules[j] EXCEPT !.cur = ts[q]]
             /\ Rows' = Rows
             /\ \A k \in Rows \ {j} : schedules'[k] = schedules[k]
      BY <1>4, SaveMoves
    <2>2. CASE i # j
      BY <2>1, <2>2
    <2>3. CASE i = j
      <3>1. schedules[i] \in Row
        BY <1>1 DEF TypeOK, Rows
      <3>2. /\ schedules'[i].scope = s /\ schedules'[i].cur = ts[q]
            /\ schedules'[i].start = schedules[i].start
            /\ schedules'[i].end = schedules[i].end
            /\ key[q].scope = s
        BY <2>1, <2>3, <3>1 DEF Row, Pending, KeyOf
      <3>3. ts[q] <= t
        BY <1>1, <2>1, <2>3, <3>1, RatingStoreAssumption
           DEF NextOf, Remains, Row, Periods
      <3>4. Remains(schedules'[i], t)
        BY <1>1, <1>4, <2>1, <3>2, <3>3, RatingStoreAssumption
           DEF Remains, Periods
      <3> QED
        BY <2>1, <3>2, <3>4
    <2> QED
      BY <2>2, <2>3
  <1>5. \A q \in Reprocessors : SaveProgress(q) => pc[q] = "save" /\ frames' = frames
    BY DEF SaveProgress, Goto
  <1> QED
    BY <1>2, <1>3, <1>4, <1>5, RowsKept

LEMMA LostNothing ==
  ASSUME LostInv, [Next]_vars, ~overlooked', Confined
  PROVE  NothingLost'
  <1> SUFFICES ASSUME NEW s \in Scopes, NEW t \in Periods,
                      t <= lastProcessed'[s], <<s, t>> \notin Idle,
                      ~(frames'[<<s, t>>] > 0)
               PROVE  \E i \in Rows' : /\ schedules'[i].scope = s
                                       /\ Remains(schedules'[i], t)
    BY DEF NothingLost, Remains
  <1>1. ProgressInv /\ lastProcessed' = lastProcessed
    BY MarksKept DEF LostInv
  <1>2. CASE frames[<<s, t>>] > 0
    BY <1>1, <1>2, CleanedRemains
  <1>3. CASE ~(frames[<<s, t>>] > 0)
    <2>1. PICK i \in Rows : schedules[i].scope = s /\ Remains(schedules[i], t)
      BY <1>1, <1>3 DEF LostInv, ProgressInv, NothingLost
    <2>2. ~ \E q \in Reprocessors : /\ pc[q] = "save"
                                    /\ key[q].scope = s /\ ts[q] = t
      BY <1>3 DEF LostInv, PushedBeforeSave
    <2> QED
      BY <1>1, <2>1, <2>2, RemainsKept
  <1> QED
    BY <1>2, <1>3

(* How a reprocessor comes to record a period.                             *)
LEMMA ReachesSave ==
  ASSUME TypeOK, [Next]_vars, NEW q \in Reprocessors, pc'[q] = "save"
  PROVE  /\ pc[q] \in InHand /\ key'[q] = key[q] /\ ts'[q] = ts[q]
         /\ \/ pc[q] = "save"
            \/ Push(q) \/ PushRefused(q)
            \/ <<key[q].scope, ts[q]>> \in Idle
  <1>1. ~NextTimestamp(q)
    BY DEF NextTimestamp, Goto, TypeOK
  <1>2. pc[q] \in InHand /\ key'[q] = key[q] /\ ts'[q] = ts[q]
    BY <1>1, HandKept DEF InHand
  <1>3. CASE pc[q] # "save"
    <2>1. ASSUME NEW r \in Reprocessors \ {q},
                 \/ ReprocessorStep(r)
                 \/ PushFails(r) \/ PushRefused(r) \/ CleanRefused(r)
                 \/ ProcessingFails(r) \/ Crash(r)
          PROVE  pc'[q] = pc[q]
      BY <2>1 DEF ReprocessorStep, LoadSchedules, TryLock, EndCycle,
         ProcessSchedule, LoadScopeKey, Release, NextTimestamp, CheckActive,
         Clean, Collect, Push, PushFails, PushRefused, CleanRefused,
         SaveProgress, ProcessingFails, Crash, Goto, TypeOK
    <2>2. \/ \E r \in Reprocessors :
               \/ ReprocessorStep(r)
               \/ PushFails(r) \/ PushRefused(r) \/ CleanRefused(r)
               \/ ProcessingFails(r) \/ Crash(r)
          \/ UNCHANGED pc
      BY DEF Next, CallerStep, Fault, vars, Request, CheckOverlap, Reject,
         Persist, PostFails, Toggle, workerVars
    <2>3. \/ ReprocessorStep(q)
          \/ PushFails(q) \/ PushRefused(q) \/ CleanRefused(q)
          \/ ProcessingFails(q) \/ Crash(q)
      BY <1>3, <2>1, <2>2
    <2> QED
      BY <1>2, <1>3, <2>3 DEF ReprocessorStep, LoadSchedules, TryLock,
         EndCycle, ProcessSchedule, LoadScopeKey, Release, NextTimestamp,
         CheckActive, Clean, Collect, PushFails, PushRefused, CleanRefused,
         SaveProgress, ProcessingFails, Crash, Goto, TypeOK
  <1> QED
    BY <1>2, <1>3

(* A push stores the period in hand.                                       *)
LEMMA PushStores ==
  ASSUME ProgressInv, NEW q \in Reprocessors, Push(q)
  PROVE  frames'[<<key[q].scope, ts[q]>>] > 0
  <1>1. TypeOK /\ pc[q] \in InHand
    BY DEF ProgressInv, LockInv, Push, Goto, InHand
  <1>2. key[q].scope \in Scopes /\ ts[q] \in Periods
    BY <1>1, InHandFacts DEF Keys
  <1>3. frames' = Commit(frames, AddDoc(buffer[q], key[q].scope, ts[q]))
    BY DEF Push
  <1>4. /\ AddDoc(buffer[q], key[q].scope, ts[q]) \in [Frames -> Nat]
        /\ AddDoc(buffer[q], key[q].scope, ts[q])[<<key[q].scope, ts[q]>>] > 0
    BY <1>1, <1>2, StoreTypes, AddDocAdds DEF TypeOK
  <1>5. <<key[q].scope, ts[q]>> \in Frames
    BY <1>2 DEF Frames
  <1> QED
    BY <1>1, <1>3, <1>4, <1>5, CommitKeeps DEF TypeOK

(* Nobody cleans what another reprocessor has just stored.                 *)
LEMMA OthersClean ==
  ASSUME ProgressInv, NEW q \in Reprocessors, NEW r \in Reprocessors,
         pc[q] = "save", pc[r] = "clean",
         key[r].scope = key[q].scope,
         key[r].start <= ts[q], ts[q] < key[r].end
  PROVE  FALSE
  <1>1. PICK i \in Pending(key[q]) :
           /\ ts[q] \in Periods
           /\ i \in Rows /\ Unfinished(schedules[i])
           /\ schedules[i].scope = key[q].scope
           /\ schedules[i].start = key[q].start
           /\ schedules[i].end = key[q].end
           /\ key[q].start <= ts[q] /\ ts[q] <= key[q].end
    BY InHandFacts DEF InHand
  <1>2. PICK j \in Pending(key[r]) :
           /\ key[r] \in Keys
           /\ j \in Rows /\ Unfinished(schedules[j])
           /\ schedules[j].scope = key[r].scope
           /\ schedules[j].start = key[r].start
           /\ schedules[j].end = key[r].end
    BY InHandFacts DEF InHand
  <1>3. key[r] # key[q]
    BY Exclusive DEF ProgressInv, Working
  <1>4. i # j
    BY <1>1, <1>2, <1>3 DEF Pending
  <1>5. ts[q] \in Int /\ key[r].end \in Int
    BY <1>1, <1>2, RatingStoreAssumption DEF Keys, Periods
  <1>6. Covers(schedules[i], ts[q]) /\ Covers(schedules[j], ts[q])
    BY <1>1, <1>2, <1>5 DEF Covers
  <1> QED
    BY <1>1, <1>2, <1>4, <1>6 DEF ProgressInv, OneScheduleAtATime

LEMMA LostPushed ==
  ASSUME LostInv, [Next]_vars, Confined
  PROVE  PushedBeforeSave'
  <1> SUFFICES ASSUME NEW q \in Reprocessors, pc'[q] = "save",
                      <<key'[q].scope, ts'[q]>> \notin Idle
               PROVE  frames'[<<key'[q].scope, ts'[q]>>] > 0
    BY DEF PushedBeforeSave
  <1>1. TypeOK /\ LockInv /\ ProgressInv
    BY DEF LostInv, ProgressInv, LockInv
  <1>2. pc[q] \in InHand /\ key'[q] = key[q] /\ ts'[q] = ts[q]
    BY <1>1, ReachesSave
  <1>3. CASE pc[q] = "save"
    <2>1. key[q].scope \in Scopes /\ ts[q] \in Periods
      BY <1>1, <1>2, InHandFacts DEF Keys
    <2>2. frames[<<key[q].scope, ts[q]>>] > 0
      BY <1>2, <1>3 DEF LostInv, PushedBeforeSave
    <2>3. ASSUME ~(frames'[<<key[q].scope, ts[q]>>] > 0)
          PROVE  FALSE
      <3>1. PICK r \in Reprocessors :
               /\ pc[r] = "clean" /\ key[r].scope = key[q].scope
               /\ key[r].start <= ts[q] /\ ts[q] < key[r].end
        BY <1>1, <2>1, <2>2, <2>3, FramesKept
      <3> QED
        BY <1>1, <1>3, <3>1, OthersClean
    <2> QED
      BY <1>2, <2>3
  <1>4. CASE Push(q)
    BY <1>1, <1>2, <1>4, PushStores
  <1>5. ~PushRefused(q)
    BY DEF Confined, PushRefused
  <1> QED
    BY <1>1, <1>2, <1>3, <1>4, <1>5, ReachesSave

LEMMA LostInit == Init => LostInv
  <1> SUFFICES ASSUME Init PROVE LostInv
    OBVIOUS
  <1>1. PushedBeforeSave
    BY DEF Init, PushedBeforeSave
  <1>2. NothingLost
    <2> SUFFICES ASSUME NEW s \in Scopes, NEW t \in Periods,
                        t <= lastProcessed[s], <<s, t>> \notin Idle
                 PROVE  frames[<<s, t>>] > 0
      BY DEF NothingLost
    <2>1. <<s, t>> \in Frames /\ t \in Int /\ lastProcessed[s] \in Int
      BY RatingStoreAssumption DEF Frames, Init, Periods
    <2> QED
      BY <2>1 DEF Init
  <1> QED
    BY <1>1, <1>2, ProgressInit DEF LostInv

(* With InfluxDB, and until an overlap is overlooked, reprocessing loses   *)
(* nothing that was rated, whatever crashes, fails or is deactivated       *)
(* between the cleaning of a window and its last period.                   *)
THEOREM ReprocessingLosesNothing ==
  ASSUME Confined
  PROVE  Spec => []NothingLost
  <1>1. Init => LostInv
    BY LostInit
  <1>2. (overlooked \/ LostInv) /\ [Next]_vars => (overlooked \/ LostInv)'
    <2> SUFFICES ASSUME LostInv, [Next]_vars, ~overlooked' PROVE LostInv'
      BY OverlookedBefore
    <2>1. ProgressInv'
      BY ProgressNext DEF LostInv
    <2> QED
      BY <2>1, LostNothing, LostPushed DEF LostInv
  <1>3. overlooked \/ LostInv => NothingLost
    BY DEF LostInv, NothingLost
  <1> QED
    BY <1>1, <1>2, <1>3, PTL DEF Spec

-----------------------------------------------------------------------------
(***************************************************************************)
(* As long as nothing fails, reprocessing stores no period twice but those *)
(* that end a window.  The invariant says what the cleaning has achieved:  *)
(* the periods a schedule has begun and not yet rated are empty.           *)
(***************************************************************************)
Quiet == \A e \in {"crash", "error", "pushError"} : spent[e] = 0

ClientsEmpty == \A q \in Reprocessors : buffer[q] = NoDocs

(* The window of row i has been cleaned.                                   *)
Cleaned(i) ==
  \/ schedules[i].cur # Never
  \/ \E q \in Reprocessors : /\ pc[q] \in {"collect", "push", "save"}
                             /\ key[q] = KeyOf(schedules[i])

(* Period t of row i is stored and not recorded yet.                       *)
Written(i, t) ==
  \E q \in Reprocessors : /\ pc[q] = "save" /\ ts[q] = t
                          /\ key[q] = KeyOf(schedules[i])

Awaits(i, t) ==
  /\ Unfinished(schedules[i]) /\ Cleaned(i)
  /\ NextOf(schedules[i]) <= t /\ t < schedules[i].end
  /\ ~Written(i, t)

RestIsClean ==
  \A i \in Rows, t \in Periods :
    Awaits(i, t) => frames[<<schedules[i].scope, t>>] = 0

CopyInv ==
  ProgressInv /\ OneCopyButAtEnds /\ (Quiet => ClientsEmpty /\ RestIsClean)

LEMMA QuietBefore ==
  ASSUME TypeOK, [Next]_vars, Quiet'
  PROVE  /\ Quiet
         /\ ~(Spend("crash") \/ Spend("error") \/ Spend("pushError"))
  <1>1. ASSUME NEW d \in Events, Spend(d)
        PROVE  /\ d \notin {"crash", "error", "pushError"}
               /\ \A e \in Events : spent'[e] = 0 => spent[e] = 0
    BY <1>1 DEF Spend, TypeOK, Quiet
  <1>2. spent' = spent \/ \E d \in Events : Spend(d)
    BY DEF Next, ReprocessorStep, CallerStep, Fault, vars, LoadSchedules,
       TryLock, EndCycle, ProcessSchedule, LoadScopeKey, Release,
       NextTimestamp, CheckActive, Clean, Collect, Push, PushFails,
       PushRefused, CleanRefused, SaveProgress, ProcessingFails, Crash,
       Request, CheckOverlap, Reject, Persist, PostFails, Toggle, Events
  <1>3. Quiet
    BY <1>1, <1>2 DEF Quiet, Events
  <1> QED
    BY <1>1, <1>3 DEF Events

(* What can happen to the backend and to the clients without a failure.    *)
LEMMA QuietWrites ==
  ASSUME TypeOK, [Next]_vars, Quiet'
  PROVE  \/ UNCHANGED <<frames, buffer>>
         \/ \E q \in Reprocessors : Push(q)
         \/ \E q \in Reprocessors : Clean(q) /\ buffer' = buffer
  <1>1. ~(Spend("crash") \/ Spend("error") \/ Spend("pushError"))
    BY QuietBefore
  <1> QED
    BY <1>1 DEF Next, ReprocessorStep, CallerStep, Fault, vars, LoadSchedules,
       TryLock, EndCycle, ProcessSchedule, LoadScopeKey, Release,
       NextTimestamp, CheckActive, Clean, Collect, PushFails, PushRefused,
       CleanRefused, SaveProgress, ProcessingFails, Crash, Request,
       CheckOverlap, Reject, Persist, PostFails, Toggle, workerVars

(* A push of one frame.                                                    *)
LEMMA PushEffect ==
  ASSUME ProgressInv, ClientsEmpty, NEW q \in Reprocessors, Push(q),
         NEW s \in Scopes, NEW t \in Periods
  PROVE  /\ ~(key[q].scope = s /\ ts[q] = t)
              => frames'[<<s, t>>] = frames[<<s, t>>]
         /\ frames[<<s, t>>] = 0 => frames'[<<s, t>>] \in {0, 1}
  <1>1. /\ <<s, t>> \in Frames /\ frames[<<s, t>>] \in Nat
        /\ frames' = Commit(frames, AddDoc(NoDocs, key[q].scope, ts[q]))
    BY DEF Frames, Push, ClientsEmpty, ProgressInv, LockInv, TypeOK
  <1>2. AddDoc(NoDocs, key[q].scope, ts[q])[<<s, t>>] =
          IF <<s, t>> = <<key[q].scope, ts[q]>> THEN 1 ELSE 0
    BY <1>1 DEF AddDoc, NoDocs
  <1> DEFINE doc == AddDoc(NoDocs, key[q].scope, ts[q])[<<s, t>>]
  <1>3. frames'[<<s, t>>] =
          IF Backend # "influxdb" THEN frames[<<s, t>>] + doc
          ELSE IF doc > 0 THEN 1 ELSE frames[<<s, t>>]
    BY <1>1 DEF Commit
  <1>4. doc \in {0, 1} /\ (~(key[q].scope = s /\ ts[q] = t) => doc = 0)
    BY <1>2
  <1> HIDE DEF doc
  <1> QED
    BY <1>1, <1>3, <1>4

(* The cleaning empties the window, but for its end, and stores nothing.   *)
LEMMA CleanEffect ==
  ASSUME TypeOK, NEW q \in Reprocessors, Clean(q),
         NEW s \in Scopes, NEW t \in Periods, key[q] \in Keys
  PROVE  /\ frames'[<<s, t>>] \in {0, frames[<<s, t>>]}
         /\ /\ ts[q] = key[q].start /\ key[q].scope = s
            /\ key[q].start <= t /\ t < key[q].end
            => frames'[<<s, t>>] = 0
  <1>1. <<s, t>> \in Frames
    BY DEF Frames
  <1>2. CASE ts[q] = key[q].start
    <2>1. frames'[<<s, t>>] =
            IF Selects(key[q].scope, <<s, t>>)
               /\ InClosedRange(key[q].start, key[q].end, t)
            THEN 0 ELSE frames[<<s, t>>]
      BY <1>1, <1>2 DEF Clean, DeleteBetween
    <2>2. ASSUME key[q].scope = s, key[q].start <= t, t < key[q].end
          PROVE  /\ Selects(key[q].scope, <<s, t>>)
                 /\ InClosedRange(key[q].start, key[q].end, t)
      <3>1. t \in Int /\ key[q].start \in Int /\ key[q].end \in Int
        BY RatingStoreAssumption DEF Keys, Periods
      <3> QED
        BY <2>2, <3>1 DEF Selects, InClosedRange
    <2> QED
      BY <2>1, <2>2
  <1>3. CASE ts[q] # key[q].start
    BY <1>3 DEF Clean
  <1> QED
    BY <1>2, <1>3

(* A reprocessor that has a clean window in hand cleaned it just now or    *)
(* had it before; one that has stored a period goes on to record it.       *)
LEMMA QuietLocals ==
  ASSUME ProgressInv, [Next]_vars, Quiet', NEW r \in Reprocessors, ~SaveProgress(r)
  PROVE  /\ pc'[r] \in {"collect", "push", "save"}
              => \/ Clean(r) /\ key'[r] = key[r]
                 \/ /\ pc[r] \in {"collect", "push", "save"}
                    /\ key'[r] = key[r] /\ ts'[r] = ts[r]
         /\ pc[r] = "save"
              => pc'[r] = "save" /\ key'[r] = key[r] /\ ts'[r] = ts[r]
  <1>1. TypeOK
    BY DEF ProgressInv, LockInv
  <1>2. ~(Spend("crash") \/ Spend("error") \/ Spend("pushError"))
    BY <1>1, QuietBefore
  <1> USE DEF TypeOK, Goto
  <1>3. CASE UNCHANGED <<pc, key, ts>>
    BY <1>3
  <1>4. ASSUME NEW q \in Reprocessors, ReprocessorStep(q), q # r
        PROVE  pc'[r] = pc[r] /\ key'[r] = key[r] /\ ts'[r] = ts[r]
    BY <1>1, <1>4 DEF ReprocessorStep, LoadSchedules, TryLock, EndCycle,
       ProcessSchedule, LoadScopeKey, Release, NextTimestamp, CheckActive,
       Clean, Collect, Push, SaveProgress
  <1>5. CASE Clean(r) \/ Collect(r) \/ Push(r) \/ CheckActive(r)
    BY <1>1, <1>5 DEF Clean, Collect, Push, CheckActive
  <1>6. CASE \/ LoadSchedules(r) \/ EndCycle(r) \/ ProcessSchedule(r)
             \/ LoadScopeKey(r) \/ Release(r) \/ NextTimestamp(r)
    BY <1>1, <1>6 DEF LoadSchedules, EndCycle, ProcessSchedule, LoadScopeKey,
       Release, NextTimestamp
  <1>7. ASSUME NEW k \in Keys, TryLock(r, k)
        PROVE  pc'[r] \notin {"collect", "push", "save"} /\ pc[r] # "save"
    BY <1>1, <1>7 DEF TryLock
  <1>8. \/ UNCHANGED <<pc, key, ts>>
        \/ \E q \in Reprocessors : ReprocessorStep(q)
    BY <1>2 DEF Next, CallerStep, Fault, vars, PushFails, PushRefused,
       CleanRefused, ProcessingFails, Crash, Request, CheckOverlap, Reject,
       Persist, PostFails, Toggle, workerVars
  <1>9. CASE ReprocessorStep(r)
    BY <1>5, <1>6, <1>7, <1>9 DEF ReprocessorStep
  <1> QED
    BY <1>3, <1>4, <1>8, <1>9

(* The row a reprocessor with a period in hand works on, as InHandFacts.   *)
LEMMA RowInHand ==
  ASSUME ProgressInv, NEW q \in Reprocessors, pc[q] \in InHand,
         NEW i \in Pending(key[q])
  PROVE  /\ i \in Rows /\ Unfinished(schedules[i])
         /\ schedules[i].scope = key[q].scope
         /\ schedules[i].start = key[q].start
         /\ schedules[i].end = key[q].end
         /\ ts[q] = NextOf(schedules[i])
         /\ key[q].start <= ts[q] /\ ts[q] <= key[q].end
         /\ key[q] \in Keys /\ ts[q] \in Periods
  <1>1. TypeOK /\ OneScheduleAtATime /\ RowsOrdered
    BY DEF ProgressInv, LockInv
  <1>2. PICK j \in Pending(key[q]) :
           /\ j \in Rows /\ Unfinished(schedules[j])
           /\ schedules[j].scope = key[q].scope
           /\ schedules[j].start = key[q].start
           /\ schedules[j].end = key[q].end
           /\ ts[q] = NextOf(schedules[j])
           /\ key[q].start <= ts[q] /\ ts[q] <= key[q].end
    BY InHandFacts
  <1>3. i = j
    BY <1>1, OneRow
  <1> QED
    BY <1>2, <1>3, InHandFacts

LEMMA RestAfterSave ==
  ASSUME CopyInv, Quiet, NEW q \in Reprocessors, SaveProgress(q)
  PROVE  RestIsClean'
  <1> SUFFICES ASSUME NEW i \in Rows', NEW t \in Periods, Awaits(i, t)'
               PROVE  frames'[<<schedules'[i].scope, t>>] = 0
    BY DEF RestIsClean
  <1>1. /\ ProgressInv /\ LockInv /\ TypeOK /\ OneScheduleAtATime /\ RowsOrdered
        /\ RestIsClean
    BY DEF CopyInv, ProgressInv, LockInv
  <1>2. PICK j \in Pending(key[q]) :
           /\ ts[q] = NextOf(schedules[j]) /\ ts[q] \in Periods
           /\ schedules'[j] = [schedules[j] EXCEPT !.cur = ts[q]]
           /\ Rows' = Rows
           /\ \A k \in Rows \ {j} : schedules'[k] = schedules[k]
    BY <1>1, SaveMoves
  <1>3. /\ j \in Rows /\ schedules[j] \in Row /\ Unfinished(schedules[j])
        /\ KeyOf(schedules[j]) = key[q]
    BY <1>1 DEF Pending, Rows, TypeOK
  <1>4. /\ UNCHANGED <<frames, key, ts>> /\ pc[q] = "save" /\ pc'[q] = "next"
        /\ \A r \in Reprocessors \ {q} : pc'[r] = pc[r]
    BY <1>1 DEF SaveProgress, Goto, TypeOK
  <1>5. CASE i = j
    <2>1. /\ schedules'[i].scope = schedules[i].scope
          /\ schedules'[i].end = schedules[i].end /\ schedules'[i].cur = ts[q]
      BY <1>2, <1>3, <1>5 DEF Row
    <2>2. ts[q] \in Int /\ t \in Int /\ ts[q] + 1 <= t /\ t < schedules[i].end
      BY <1>2, <2>1, RatingStoreAssumption DEF Awaits, NextOf, Periods
    <2>3. Cleaned(i)
      BY <1>3, <1>4, <1>5 DEF Cleaned
    <2>4. ~Written(i, t)
      <3> SUFFICES ASSUME NEW r \in Reprocessors, pc[r] = "save", ts[r] = t,
                          key[r] = KeyOf(schedules[i])
                   PROVE  FALSE
        BY DEF Written
      <3>1. r = q
        BY <1>1, <1>3, <1>4, <1>5, Exclusive DEF Working
      <3> QED
        BY <2>2, <3>1
    <2>5. Awaits(i, t)
      <3>1. NextOf(schedules[i]) <= t
        BY <1>2, <1>5, <2>2
      <3> QED
        BY <1>3, <1>5, <2>2, <2>3, <2>4, <3>1 DEF Awaits
    <2> QED
      BY <1>1, <1>2, <1>4, <2>1, <2>5 DEF RestIsClean
  <1>6. CASE i # j
    <2>1. i \in Rows /\ schedules'[i] = schedules[i]
      BY <1>2, <1>6
    <2>2. Unfinished(schedules[i])
      BY <2>1 DEF Awaits
    <2>3. Cleaned(i)
      BY <1>4, <2>1 DEF Awaits, Cleaned
    <2>4. ~Written(i, t)
      <3> SUFFICES ASSUME NEW r \in Reprocessors, pc[r] = "save", ts[r] = t,
                          key[r] = KeyOf(schedules[i])
                   PROVE  FALSE
        BY DEF Written
      <3>1. r = q
        BY <1>4, <2>1 DEF Awaits, Written
      <3>2. i \in Pending(key[q])
        BY <2>1, <2>2, <3>1 DEF Pending
      <3> QED
        BY <1>1, <1>6, <3>2, OneRow
    <2>5. Awaits(i, t)
      BY <2>1, <2>2, <2>3, <2>4 DEF Awaits
    <2> QED
      BY <1>1, <1>4, <2>1, <2>5 DEF RestIsClean
  <1> QED
    BY <1>5, <1>6

LEMMA RestAfterPersist ==
  ASSUME CopyInv, Quiet, NEW c \in Callers, NEW s \in Scopes, Persist(c, s)
  PROVE  RestIsClean'
  <1> SUFFICES ASSUME NEW i \in Rows', NEW t \in Periods, Awaits(i, t)'
               PROVE  frames'[<<schedules'[i].scope, t>>] = 0
    BY DEF RestIsClean
  <1>1. ProgressInv /\ TypeOK /\ RestIsClean
    BY DEF CopyInv, ProgressInv, LockInv
  <1>2. PICK n : /\ n \notin Rows /\ Rows' = Rows \cup {n}
                 /\ schedules'[n] = [scope |-> s, start |-> window[c].start,
                                     end |-> window[c].end, cur |-> Never]
                 /\ \A j \in Rows : schedules'[j] = schedules[j]
    BY <1>1, PersistAppends
  <1>3. UNCHANGED <<frames, pc, key, ts>>
    BY DEF Persist, workerVars
  <1>4. CASE i \in Rows
    <2>1. Awaits(i, t)
      BY <1>2, <1>3, <1>4 DEF Awaits, Cleaned, Written
    <2> QED
      BY <1>1, <1>2, <1>3, <1>4, <2>1 DEF RestIsClean
  <1>5. CASE i = n
    <2>1. PICK q \in Reprocessors : /\ pc[q] \in {"collect", "push", "save"}
                                    /\ key[q] = KeyOf(schedules'[n])
      BY <1>2, <1>3, <1>5 DEF Awaits, Cleaned
    <2>2. PICK j \in Rows : /\ Unfinished(schedules[j])
                            /\ schedules[j].scope = key[q].scope
                            /\ schedules[j].start = key[q].start
                            /\ schedules[j].end = key[q].end
                            /\ key[q] \in Keys
      BY <1>1, <2>1, InHandFacts DEF InHand
    <2>3. key[q] = [scope |-> s, start |-> window[c].start, end |-> window[c].end]
      BY <1>2, <2>1 DEF KeyOf
    <2>4. Intersects(schedules[j], window[c])
      <3>1. window[c].start <= window[c].end
        BY <1>1 DEF TypeOK, Window
      <3> QED
        BY <2>2, <2>3, <3>1 DEF Intersects
    <2>5. s \in accepted[c]
      BY DEF Persist
    <2> QED
      BY <1>1, <2>2, <2>3, <2>4, <2>5 DEF ProgressInv, AcceptedAreFree, Overlaps
  <1> QED
    BY <1>2, <1>4, <1>5

LEMMA RestAfterPush ==
  ASSUME CopyInv, Quiet, [Next]_vars, Quiet', NEW q \in Reprocessors, Push(q)
  PROVE  RestIsClean'
  <1> SUFFICES ASSUME NEW i \in Rows', NEW t \in Periods, Awaits(i, t)'
               PROVE  frames'[<<schedules'[i].scope, t>>] = 0
    BY DEF RestIsClean
  <1>1. /\ ProgressInv /\ LockInv /\ TypeOK /\ OneScheduleAtATime /\ RowsOrdered
        /\ ClientsEmpty /\ RestIsClean
    BY DEF CopyInv, ProgressInv, LockInv
  <1>2. /\ schedules' = schedules /\ key' = key /\ ts' = ts
        /\ pc[q] = "push" /\ pc'[q] = "save"
    BY <1>1 DEF Push, Goto, TypeOK
  <1>3. i \in Rows /\ schedules[i] \in Row /\ Unfinished(schedules[i])
    BY <1>1, <1>2 DEF Rows, TypeOK, Awaits
  <1>4. \A r \in Reprocessors \ {q} : pc'[r] = pc[r]
    BY <1>1 DEF Push, Goto, TypeOK
  <1>5. Awaits(i, t)
    <2>1. Cleaned(i)
      BY <1>2, <1>4 DEF Awaits, Cleaned
    <2>2. ~Written(i, t)
      BY <1>2, <1>4 DEF Awaits, Written
    <2> QED
      BY <1>2, <2>1, <2>2 DEF Awaits
  <1>6. frames[<<schedules[i].scope, t>>] = 0
    BY <1>1, <1>3, <1>5 DEF RestIsClean
  <1>7. ASSUME key[q].scope = schedules[i].scope, ts[q] = t
        PROVE  FALSE
    <2>1. PICK j \in Pending(key[q]) : TRUE
      BY <1>1, <1>2, InHandFacts DEF InHand
    <2>2. /\ j \in Rows /\ Unfinished(schedules[j])
          /\ schedules[j].scope = key[q].scope
          /\ Covers(schedules[j], t)
      BY <1>1, <1>2, <1>7, RowInHand DEF InHand, Covers
    <2>3. j # i
      <3>1. CASE j = i
        <4>1. KeyOf(schedules[i]) = key[q]
          BY <3>1 DEF Pending
        <4> QED
          BY <1>2, <1>7, <4>1 DEF Awaits, Written
      <3> QED
        BY <3>1
    <2>4. Covers(schedules[i], t)
      BY <1>1, <1>3, <1>5, RatingStoreAssumption
         DEF Awaits, NextOf, Covers, RowsOrdered, Row, Periods
    <2> QED
      BY <1>1, <1>3, <1>7, <2>2, <2>3, <2>4 DEF OneScheduleAtATime
  <1> QED
    <2>1. schedules[i].scope \in Scopes
      BY <1>3 DEF Row
    <2>2. frames'[<<schedules[i].scope, t>>] = frames[<<schedules[i].scope, t>>]
      BY <1>1, <1>7, <2>1, PushEffect
    <2> QED
      BY <1>2, <1>6, <2>2

LEMMA RestOtherwise ==
  ASSUME CopyInv, Quiet, [Next]_vars, Quiet', schedules' = schedules,
         \A q \in Reprocessors : ~SaveProgress(q) /\ ~Push(q)
  PROVE  RestIsClean'
  <1> SUFFICES ASSUME NEW i \in Rows', NEW t \in Periods, Awaits(i, t)'
               PROVE  frames'[<<schedules'[i].scope, t>>] = 0
    BY DEF RestIsClean
  <1>1. ProgressInv /\ LockInv /\ TypeOK /\ RestIsClean
    BY DEF CopyInv, ProgressInv, LockInv
  <1>2. i \in Rows /\ schedules[i] \in Row /\ Unfinished(schedules[i])
    BY <1>1 DEF Rows, TypeOK, Awaits
  <1>3. schedules[i].scope \in Scopes
    BY <1>2 DEF Row
  <1>4. ~Written(i, t)
    BY <1>1, QuietLocals DEF Awaits, Written
  <1>5. NextOf(schedules[i]) <= t /\ t < schedules[i].end
    BY DEF Awaits
  (* Whatever was 0 stays so.                                              *)
  <1>6. frames[<<schedules[i].scope, t>>] = 0
          => frames'[<<schedules[i].scope, t>>] = 0
    <2>1. ASSUME NEW q \in Reprocessors, Clean(q)
          PROVE  frames'[<<schedules[i].scope, t>>] \in
                   {0, frames[<<schedules[i].scope, t>>]}
      <3>1. pc[q] = "clean"
        BY <2>1 DEF Clean, Goto
      <3>2. key[q] \in Keys
        BY <1>1, <3>1 DEF LockInv, LockHeld, Working
      <3> QED
        BY <1>1, <1>3, <2>1, <3>2, CleanEffect
    <2> QED
      BY <1>1, <2>1, QuietWrites
  <1>7. CASE Cleaned(i)
    <2>1. Awaits(i, t)
      BY <1>2, <1>4, <1>5, <1>7 DEF Awaits
    <2> QED
      BY <1>1, <1>2, <1>6, <2>1 DEF RestIsClean
  <1>8. CASE ~Cleaned(i)
    <2>1. PICK q \in Reprocessors : Clean(q) /\ key[q] = KeyOf(schedules[i])
      <3>1. PICK q \in Reprocessors : /\ pc'[q] \in {"collect", "push", "save"}
                                      /\ key'[q] = KeyOf(schedules[i])
        BY <1>8 DEF Awaits, Cleaned
      <3>2. Clean(q) /\ key'[q] = key[q]
        BY <1>1, <1>8, <3>1, QuietLocals DEF Cleaned
      <3> QED
        BY <3>1, <3>2
    <2>2. pc[q] = "clean" /\ i \in Pending(key[q])
      BY <1>2, <2>1 DEF Clean, Goto, Pending
    <2>3. /\ ts[q] = NextOf(schedules[i]) /\ key[q] \in Keys
          /\ schedules[i].scope = key[q].scope
          /\ schedules[i].start = key[q].start
          /\ schedules[i].end = key[q].end
      BY <1>1, <2>2, RowInHand DEF InHand
    <2>4. ts[q] = key[q].start
      BY <1>8, <2>3 DEF Cleaned, NextOf
    <2> QED
      BY <1>1, <1>3, <1>5, <2>1, <2>3, <2>4, CleanEffect
  <1> QED
    BY <1>7, <1>8

LEMMA RestNext ==
  ASSUME CopyInv, [Next]_vars, Quiet'
  PROVE  ClientsEmpty' /\ RestIsClean'
  <1>1. ProgressInv /\ TypeOK /\ Quiet /\ ClientsEmpty
    BY QuietBefore DEF CopyInv, ProgressInv, LockInv
  <1>2. ClientsEmpty'
    BY <1>1, QuietWrites DEF ClientsEmpty, Push, TypeOK
  <1>3. RestIsClean'
    <2>1. CASE \E q \in Reprocessors : SaveProgress(q)
      BY <1>1, <2>1, RestAfterSave
    <2>2. CASE \E q \in Reprocessors : Push(q)
      BY <1>1, <2>2, RestAfterPush
    <2>3. CASE \E c \in Callers, s \in Scopes : Persist(c, s)
      BY <1>1, <2>3, RestAfterPersist
    <2>4. CASE schedules' = schedules /\ \A q \in Reprocessors : ~SaveProgress(q) /\ ~Push(q)
      BY <1>1, <2>4, RestOtherwise
    <2> QED
      BY <2>1, <2>2, <2>3, <2>4, RowsKept
  <1> QED
    BY <1>2, <1>3

(* A row keeps its scope and its window.                                   *)
LEMMA RowsStay ==
  ASSUME ProgressInv, [Next]_vars, NEW i \in Rows
  PROVE  /\ i \in Rows'
         /\ schedules'[i].scope = schedules[i].scope
         /\ schedules'[i].start = schedules[i].start
         /\ schedules'[i].end = schedules[i].end
  <1>1. TypeOK
    BY DEF ProgressInv, LockInv
  <1>2. CASE schedules' = schedules
    BY <1>2 DEF Rows
  <1>3. ASSUME NEW q \in Reprocessors, SaveProgress(q)
        PROVE  /\ i \in Rows'
               /\ schedules'[i].scope = schedules[i].scope
               /\ schedules'[i].start = schedules[i].start
               /\ schedules'[i].end = schedules[i].end
    <2>1. PICK j \in Pending(key[q]) :
             /\ schedules'[j] = [schedules[j] EXCEPT !.cur = ts[q]]
             /\ Rows' = Rows
             /\ \A k \in Rows \ {j} : schedules'[k] = schedules[k]
      BY <1>3, SaveMoves
    <2>2. schedules[i] \in Row
      BY <1>1 DEF TypeOK, Rows
    <2> QED
      BY <2>1, <2>2 DEF Row
  <1>4. ASSUME NEW c \in Callers, NEW s \in Scopes, Persist(c, s)
        PROVE  i \in Rows' /\ schedules'[i] = schedules[i]
    BY <1>1, <1>4, PersistAppends
  <1> QED
    BY <1>2, <1>3, <1>4, RowsKept

LEMMA CopiesNext ==
  ASSUME CopyInv, [Next]_vars
  PROVE  OneCopyButAtEnds'
  <1> SUFFICES ASSUME ~overlooked', Quiet', NEW f \in Frames, frames'[f] > 1
               PROVE  \E i \in Rows' : /\ schedules'[i].scope = f[1]
                                       /\ schedules'[i].end = f[2]
    BY DEF OneCopyButAtEnds, Quiet
  <1>1. /\ ProgressInv /\ LockInv /\ TypeOK /\ Quiet
        /\ ClientsEmpty /\ RestIsClean
    BY QuietBefore DEF CopyInv, ProgressInv, LockInv
  <1>2. PICK s \in Scopes, t \in Periods : f = <<s, t>>
    BY DEF Frames
  <1>3. frames[f] \in Nat
    BY <1>1 DEF TypeOK
  <1> SUFFICES \E i \in Rows : schedules[i].scope = s /\ schedules[i].end = t
    BY <1>1, <1>2, RowsStay
  <1>4. CASE frames[f] > 1
    BY <1>1, <1>2, <1>4 DEF CopyInv, ProgressInv, OneCopyButAtEnds, Quiet
  <1>5. CASE ~(frames[f] > 1)
    <2>1. ASSUME NEW q \in Reprocessors, Clean(q)
          PROVE  FALSE
      <3>1. pc[q] = "clean"
        BY <2>1 DEF Clean, Goto
      <3>2. key[q] \in Keys
        BY <1>1, <3>1 DEF LockInv, LockHeld, Working
      <3>3. frames'[f] \in {0, frames[f]}
        BY <1>1, <1>2, <2>1, <3>2, CleanEffect
      <3> QED
        BY <1>5, <3>3
    <2>2. PICK q \in Reprocessors : Push(q)
      BY <1>1, <1>5, <2>1, QuietWrites
    <2>3. pc[q] = "push"
      BY <2>2 DEF Push, Goto
    <2>4. key[q].scope = s /\ ts[q] = t
      BY <1>1, <1>2, <1>5, <2>2, PushEffect
    <2>5. PICK j \in Pending(key[q]) : TRUE
      BY <1>1, <2>3, InHandFacts DEF InHand
    <2>6. /\ j \in Rows /\ Unfinished(schedules[j])
          /\ schedules[j].scope = s /\ NextOf(schedules[j]) = t
          /\ schedules[j].end = key[q].end /\ t <= key[q].end
          /\ key[q] \in Keys
      BY <1>1, <2>3, <2>4, <2>5, RowInHand DEF InHand
    <2>7. CASE t = schedules[j].end
      BY <2>6, <2>7
    <2>8. CASE t # schedules[j].end
      <3>1. t \in Int /\ t < schedules[j].end
        BY <2>6, <2>8, RatingStoreAssumption DEF Keys, Periods
      <3>2. KeyOf(schedules[j]) = key[q]
        BY <2>5 DEF Pending
      <3>3. ~Written(j, t)
        <4> SUFFICES ASSUME NEW r \in Reprocessors, pc[r] = "save",
                            key[r] = key[q]
                     PROVE  FALSE
          BY <3>2 DEF Written
        <4> QED
          BY <1>1, <2>3, Exclusive DEF Working
      <3>4. Awaits(j, t)
        BY <2>3, <2>6, <3>1, <3>2, <3>3 DEF Awaits, Cleaned
      <3>5. frames[f] = 0
        BY <1>1, <1>2, <2>6, <3>4 DEF RestIsClean
      <3>6. frames'[f] \in {0, 1}
        BY <1>1, <1>2, <2>2, <3>5, PushEffect
      <3> QED
        BY <3>6
    <2> QED
      BY <2>7, <2>8
  <1> QED
    BY <1>4, <1>5

LEMMA CopyInit == Init => CopyInv
  <1> SUFFICES ASSUME Init PROVE CopyInv
    OBVIOUS
  <1>1. OneCopyButAtEnds
    BY DEF Init, OneCopyButAtEnds
  <1>2. ClientsEmpty
    BY DEF Init, ClientsEmpty
  <1>3. RestIsClean
    BY DEF Init, RestIsClean, Rows
  <1> QED
    BY <1>1, <1>2, <1>3, ProgressInit DEF CopyInv

(* Until an overlap is overlooked or something fails, a frame that         *)
(* is stored twice is the last one of some schedule's window, which the    *)
(* deletion before the worker's first period spares                        *)
(* (do_execute_scope_processing of ReprocessingWorker) and the worker      *)
(* rates: whatever the backend.                                            *)
THEOREM OnlyEndsAreCopied == Spec => []OneCopyButAtEnds
  <1>1. (overlooked \/ CopyInv) /\ [Next]_vars => (overlooked \/ CopyInv)'
    <2> SUFFICES ASSUME CopyInv, [Next]_vars, ~overlooked' PROVE CopyInv'
      BY OverlookedBefore
    <2>1. ProgressInv'
      BY ProgressNext DEF CopyInv
    <2> QED
      BY <2>1, CopiesNext, RestNext DEF CopyInv
  <1>2. overlooked \/ CopyInv => OneCopyButAtEnds
    BY DEF CopyInv, OneCopyButAtEnds
  <1> QED
    BY <1>1, <1>2, CopyInit, PTL DEF Spec
=============================================================================
