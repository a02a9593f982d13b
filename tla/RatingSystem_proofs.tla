-------------------------- MODULE RatingSystem_proofs --------------------------
(***************************************************************************)
(* What holds of the processors and the reprocessors together.  The        *)
(* theorems of the two components are used in their places, on the shared  *)
(* state table and storage backend; what is proved here is that neither    *)
(* disturbs the other.                                                     *)
(***************************************************************************)
EXTENDS RatingSystem, TLAPS

(* Periods are counted here, as in the model: of no zone is anything said. *)
RatingProofs == INSTANCE ScopeProcessing_proofs WITH
  Zones <- {}, Hours <- Int, Day <- 24, Months <- <<>>, MaxDelta <- 0,
  HoursPerTick <- 1

AgainProofs == INSTANCE Reprocessing_proofs WITH
  Budget <- ScheduleBudget, lock <- slock, pc <- rpc, todo <- rtodo,
  ts <- rts, buffer <- rbuffer, spent <- rspent

-----------------------------------------------------------------------------
(***************************************************************************)
(* The modules the components are proved about are the ones they are made  *)
(* of.                                                                     *)
(***************************************************************************)
(* The components' assumptions hold where they are put.                    *)
LEMMA Assumptions ==
  /\ RatingProofs!RatingStoreAssumption /\ RatingProofs!ScopeProcessingAssumption
  /\ RatingProofs!LocalTimeAssumption /\ RatingProofs!ZonedProcessingAssumption
  /\ AgainProofs!RatingStoreAssumption /\ AgainProofs!ReprocessingAssumption
  BY RatingStoreAssumption, RatingSystemAssumption
     DEF Times, Periods, Frames, Backends,
     RatingProofs!RatingStoreAssumption, RatingProofs!Times,
     RatingProofs!Periods, RatingProofs!Frames, RatingProofs!Backends,
     RatingProofs!ScopeProcessingAssumption, RatingProofs!Events,
     RatingProofs!LocalTimeAssumption, RatingProofs!ZonedProcessingAssumption,
     Rating!ScopeProcessingAssumption, Rating!Events,
     AgainProofs!RatingStoreAssumption, AgainProofs!Times,
     AgainProofs!Periods, AgainProofs!Frames, AgainProofs!Backends,
     AgainProofs!ReprocessingAssumption, AgainProofs!Keys, AgainProofs!Events,
     Again!ReprocessingAssumption, Again!Keys, Again!Events, Again!Periods

LEMMA RatingStep ==
  [Rating!Next]_Rating!vars => [RatingProofs!Next]_RatingProofs!vars
  BY DEF Rating!Next, Rating!vars, Rating!Tick, Rating!ProcessorStep,
     Rating!EndpointStep, Rating!ApiStep, Rating!Fault, Rating!tableVars,
     Rating!processorVars, Rating!endpointVars, Rating!historyVars,
     Rating!LoadScopes, Rating!EndCycle, Rating!ProcessScope, Rating!Release,
     Rating!NextTimestamp, Rating!CheckActive, Rating!Collect, Rating!Push,
     Rating!SaveState, Rating!TryLock, Rating!DeleteData, Rating!SetState,
     Rating!ReleaseAfterReset, Rating!EndReset, Rating!TakeRequest,
     Rating!AcquireForReset, Rating!Toggle, Rating!Periods,
     Rating!RequestReset, Rating!PushFails, Rating!PushRefused,
     Rating!ProcessingFails, Rating!Crash, Rating!ResetFails,
     Rating!DeleteRefused, Rating!Goto, Rating!CheckTimeState,
     Rating!NoTimestamp, Rating!Known, Rating!Commit, Rating!AddDoc,
     Rating!NoDocs, Rating!DeleteFrom, Rating!NoRequest, Rating!Spend,
     Rating!Never, Rating!Due, Rating!Times, Rating!Frames, Rating!Backends,
     Rating!Selects, Rating!InOpenRange, RatingProofs!Next, RatingProofs!vars,
     RatingProofs!Tick, RatingProofs!ProcessorStep, RatingProofs!EndpointStep,
     RatingProofs!ApiStep, RatingProofs!Fault, RatingProofs!tableVars,
     RatingProofs!processorVars, RatingProofs!endpointVars,
     RatingProofs!historyVars, RatingProofs!LoadScopes, RatingProofs!EndCycle,
     RatingProofs!ProcessScope, RatingProofs!Release,
     RatingProofs!NextTimestamp, RatingProofs!CheckActive,
     RatingProofs!Collect, RatingProofs!Push, RatingProofs!SaveState,
     RatingProofs!TryLock, RatingProofs!DeleteData, RatingProofs!SetState,
     RatingProofs!ReleaseAfterReset, RatingProofs!EndReset,
     RatingProofs!TakeRequest, RatingProofs!AcquireForReset,
     RatingProofs!Toggle, RatingProofs!Periods, RatingProofs!RequestReset,
     RatingProofs!PushFails, RatingProofs!PushRefused,
     RatingProofs!ProcessingFails, RatingProofs!Crash, RatingProofs!ResetFails,
     RatingProofs!DeleteRefused, RatingProofs!Goto,
     RatingProofs!CheckTimeState, RatingProofs!NoTimestamp, RatingProofs!Known,
     RatingProofs!Commit, RatingProofs!AddDoc, RatingProofs!NoDocs,
     RatingProofs!DeleteFrom, RatingProofs!NoRequest, RatingProofs!Spend,
     RatingProofs!Never, RatingProofs!Due, RatingProofs!Times,
     RatingProofs!Frames, RatingProofs!Backends, RatingProofs!Selects,
     RatingProofs!InOpenRange

(* What a query answers does not depend on the module that asks.           *)
LEMMA SameNewest == \A rows : Again!Newest(rows) = AgainProofs!Newest(rows)
  <1>1. \A S : Again!Cardinality(S) = AgainProofs!Cardinality(S)
    BY DEF Again!Cardinality, AgainProofs!Cardinality
  <1> QED
    BY <1>1 DEF Again!Newest, AgainProofs!Newest

LEMMA SameUnfinished == \A S : Again!UnfinishedOf(S) = AgainProofs!UnfinishedOf(S)
  BY DEF Again!UnfinishedOf, Again!Unfinished, Again!Rows, Again!Never,
     AgainProofs!UnfinishedOf, AgainProofs!Unfinished, AgainProofs!Rows,
     AgainProofs!Never

LEMMA SameLoads ==
  ASSUME NEW q
  PROVE  Again!LoadSchedules(q) => AgainProofs!LoadSchedules(q)
  <1>1. Again!Newest(Again!UnfinishedOf(Scopes))
          = AgainProofs!Newest(AgainProofs!UnfinishedOf(Scopes))
    BY SameNewest, SameUnfinished
  <1>2. \A k : Again!Pending(k) = AgainProofs!Pending(k)
    BY DEF Again!Pending, AgainProofs!Pending, Again!Rows, AgainProofs!Rows,
       Again!KeyOf, AgainProofs!KeyOf, Again!Unfinished,
       AgainProofs!Unfinished, Again!Never, AgainProofs!Never
  <1>3. Again!Keys = AgainProofs!Keys
    BY DEF Again!Keys, AgainProofs!Keys, Again!Periods, AgainProofs!Periods
  <1> QED
    BY <1>1, <1>2, <1>3
       DEF Again!LoadSchedules, AgainProofs!LoadSchedules, Again!Goto,
       AgainProofs!Goto, Again!tableVars, AgainProofs!tableVars,
       Again!callerVars, AgainProofs!callerVars

LEMMA SameChecks ==
  ASSUME NEW c, NEW s
  PROVE  /\ Again!CheckOverlap(c, s) => AgainProofs!CheckOverlap(c, s)
         /\ Again!Reject(c, s) => AgainProofs!Reject(c, s)
  <1>1. Again!Newest(Again!UnfinishedOf({s}))
          = AgainProofs!Newest(AgainProofs!UnfinishedOf({s}))
    BY SameNewest, SameUnfinished
  <1>2. Again!Overlapping(c, s) = AgainProofs!Overlapping(c, s)
    BY SameUnfinished DEF Again!Overlapping, AgainProofs!Overlapping,
       Again!Intersects, AgainProofs!Intersects
  <1>3. Again!Concurrent(c, s) = AgainProofs!Concurrent(c, s)
    BY DEF Again!Concurrent, AgainProofs!Concurrent, Again!Intersects,
       AgainProofs!Intersects
  <1> QED
    BY <1>1, <1>2, <1>3
       DEF Again!CheckOverlap, AgainProofs!CheckOverlap, Again!Reject,
       AgainProofs!Reject, Again!tableVars, AgainProofs!tableVars,
       Again!workerVars, AgainProofs!workerVars

LEMMA AgainStep ==
  [Again!Next]_Again!vars => [AgainProofs!Next]_AgainProofs!vars
  BY SameLoads, SameChecks DEF Again!Next, Again!vars, Again!ReprocessorStep,
     Again!CallerStep, Again!Toggle, Again!Fault, Again!tableVars,
     Again!workerVars, Again!callerVars, Again!EndCycle, Again!ProcessSchedule,
     Again!LoadScopeKey, Again!Release, Again!NextTimestamp, Again!CheckActive,
     Again!Clean, Again!Collect, Again!Push, Again!SaveProgress, Again!Keys,
     Again!TryLock, Again!Periods, Again!Request, Again!Persist, Again!Never,
     Again!Spend, Again!PushFails, Again!PushRefused, Again!CleanRefused,
     Again!ProcessingFails, Again!Crash, Again!PostFails, Again!Goto,
     Again!Pending, Again!NoTimestamp, Again!NextOf, Again!DeleteBetween,
     Again!Commit, Again!AddDoc, Again!NoDocs, Again!Rows, Again!Working,
     Again!KeyOf, Again!Unfinished, Again!Times, Again!Frames, Again!Backends,
     Again!Selects, Again!InClosedRange, AgainProofs!Next, AgainProofs!vars,
     AgainProofs!ReprocessorStep, AgainProofs!CallerStep, AgainProofs!Toggle,
     AgainProofs!Fault, AgainProofs!tableVars, AgainProofs!workerVars,
     AgainProofs!callerVars, AgainProofs!EndCycle, AgainProofs!ProcessSchedule,
     AgainProofs!LoadScopeKey, AgainProofs!Release, AgainProofs!NextTimestamp,
     AgainProofs!CheckActive, AgainProofs!Clean, AgainProofs!Collect,
     AgainProofs!Push, AgainProofs!SaveProgress, AgainProofs!Keys,
     AgainProofs!TryLock, AgainProofs!Periods, AgainProofs!Request,
     AgainProofs!Persist, AgainProofs!Never, AgainProofs!Spend,
     AgainProofs!PushFails, AgainProofs!PushRefused, AgainProofs!CleanRefused,
     AgainProofs!ProcessingFails, AgainProofs!Crash, AgainProofs!PostFails,
     AgainProofs!Goto, AgainProofs!Pending, AgainProofs!NoTimestamp,
     AgainProofs!NextOf, AgainProofs!DeleteBetween, AgainProofs!Commit,
     AgainProofs!AddDoc, AgainProofs!NoDocs, AgainProofs!Rows,
     AgainProofs!Working, AgainProofs!KeyOf, AgainProofs!Unfinished,
     AgainProofs!Times, AgainProofs!Frames, AgainProofs!Backends,
     AgainProofs!Selects, AgainProofs!InClosedRange

LEMMA RatingStart == Rating!Init => RatingProofs!Init
  BY DEF Rating!Init, Rating!Never, Rating!NoDocs, Rating!NoTimestamp,
     Rating!NoRequest, Rating!Events, Rating!Frames, Rating!Times,
     Rating!Periods, Rating!Backends, RatingProofs!Init,
     RatingProofs!Never, RatingProofs!NoDocs, RatingProofs!NoTimestamp,
     RatingProofs!NoRequest, RatingProofs!Events, RatingProofs!Frames,
     RatingProofs!Times, RatingProofs!Periods, RatingProofs!Backends

LEMMA AgainStart == Again!Init => AgainProofs!Init
  BY DEF Again!Init, Again!Periods, Again!Never, Again!Frames, Again!Keys,
     Again!NoTimestamp, Again!NoDocs, Again!Events, Again!Times,
     Again!Backends, AgainProofs!Init, AgainProofs!Periods,
     AgainProofs!Never, AgainProofs!Frames, AgainProofs!Keys,
     AgainProofs!NoTimestamp, AgainProofs!NoDocs, AgainProofs!Events,
     AgainProofs!Times, AgainProofs!Backends

-----------------------------------------------------------------------------
LEMMA Names ==
  /\ RatingProofs!Periods = Periods /\ AgainProofs!Periods = Periods
  /\ RatingProofs!Frames = Frames /\ AgainProofs!Frames = Frames
  /\ RatingProofs!Never = Never /\ AgainProofs!Never = Never
  BY DEF Periods, Frames, Never, RatingProofs!Periods, RatingProofs!Frames,
     RatingProofs!Never, AgainProofs!Periods, AgainProofs!Frames,
     AgainProofs!Never

(* A step of the system is one of the processors, the endpoints and their  *)
(* API, or one of the reprocessors and theirs.                             *)
RatingMoves == [RatingProofs!Next]_RatingProofs!vars /\ UNCHANGED againVars
AgainMoves == [AgainProofs!Next]_AgainProofs!vars /\ UNCHANGED ratingVars

LEMMA Moves == [Next]_vars => RatingMoves \/ AgainMoves
  <1> SUFFICES ASSUME [Next]_vars PROVE RatingMoves \/ AgainMoves
    OBVIOUS
  <1>1. CASE Rating!Next /\ UNCHANGED againVars
    BY <1>1, RatingStep DEF RatingMoves
  <1>2. CASE Again!Next /\ UNCHANGED ratingVars
    BY <1>2, AgainStep DEF AgainMoves
  <1>3. CASE UNCHANGED vars
    <2>1. UNCHANGED againVars /\ UNCHANGED RatingProofs!vars
      BY <1>3 DEF vars, ratingVars, againVars, RatingProofs!vars,
         RatingProofs!tableVars, RatingProofs!processorVars,
         RatingProofs!endpointVars, RatingProofs!historyVars
    <2> QED
      BY <2>1 DEF RatingMoves
  <1> QED
    BY <1>1, <1>2, <1>3 DEF Next

-----------------------------------------------------------------------------
(***************************************************************************)
(* What each component keeps of its own, whatever the other does.          *)
(***************************************************************************)
LocalInv == RatingProofs!WaitInv /\ AgainProofs!ProgressInv

(* What was overlooked is so for good.                                     *)
LEMMA OverlookedBefore ==
  ASSUME [Next]_vars, ~overlooked'
  PROVE  ~overlooked
  BY Assumptions, Moves, AgainProofs!OverlookedBefore
     DEF AgainMoves, RatingMoves, againVars

LEMMA LocalTypes ==
  ASSUME LocalInv
  PROVE  /\ RatingProofs!TypeOK /\ RatingProofs!LockInv
         /\ AgainProofs!TypeOK /\ AgainProofs!LockInv
         /\ ~overlooked
  BY DEF LocalInv, RatingProofs!WaitInv, RatingProofs!LockInv,
     AgainProofs!ProgressInv, AgainProofs!LockInv

(* The reprocessors write no row of the state table.                       *)
LEMMA AgainKeeps ==
  ASSUME LocalInv, AgainMoves
  PROVE  RatingProofs!WaitInv'
  <1>1. lastProcessed' = lastProcessed
    BY Assumptions, AgainProofs!MarksKept DEF AgainMoves
  <1>2. UNCHANGED ratingVars
    BY DEF AgainMoves
  <1>3. AgainProofs!TypeOK'
    BY Assumptions, LocalTypes, AgainProofs!TypeNext DEF AgainMoves
  <1>4. RatingProofs!TypeOK'
    BY <1>1, <1>2, <1>3, LocalTypes, Names
       DEF RatingProofs!TypeOK, AgainProofs!TypeOK, ratingVars
  <1>5. (RatingProofs!HasScope /\ RatingProofs!LocksAccounted)'
    BY <1>2, LocalTypes DEF RatingProofs!HasScope, RatingProofs!LocksAccounted,
       RatingProofs!LockInv, ratingVars
  <1>6. (RatingProofs!PeriodChosen /\ RatingProofs!WaitRespected)'
    BY <1>1, <1>2 DEF RatingProofs!PeriodChosen, RatingProofs!WaitRespected,
       RatingProofs!Known, RatingProofs!Due,
       RatingProofs!WaitInv, LocalInv, ratingVars
  <1> QED
    BY <1>4, <1>5, <1>6 DEF RatingProofs!WaitInv, RatingProofs!LockInv

(* The processors and endpoints write no schedule.                         *)
LEMMA RatingKeeps ==
  ASSUME LocalInv, RatingMoves
  PROVE  AgainProofs!ProgressInv'
  <1>1. RatingProofs!TypeOK'
    BY Assumptions, LocalTypes, RatingProofs!TypeNext DEF RatingMoves
  <1>2. UNCHANGED againVars
    BY DEF RatingMoves
  <1>3. AgainProofs!TypeOK'
    BY <1>1, <1>2, LocalTypes, Names
       DEF RatingProofs!TypeOK, AgainProofs!TypeOK, againVars
  <1>4. AgainProofs!LockHeld'
    BY <1>2, LocalTypes DEF AgainProofs!LockHeld, AgainProofs!LockInv, againVars
  <1>5. /\ AgainProofs!OneScheduleAtATime /\ AgainProofs!AcceptedAreFree
        /\ AgainProofs!RowsOrdered /\ AgainProofs!PeriodInHand
    BY DEF LocalInv, AgainProofs!ProgressInv
  <1>6. (AgainProofs!OneScheduleAtATime /\ AgainProofs!AcceptedAreFree)'
    BY <1>2, <1>5 DEF AgainProofs!OneScheduleAtATime,
       AgainProofs!AcceptedAreFree, AgainProofs!Rows, AgainProofs!Unfinished,
       AgainProofs!Covers, AgainProofs!Overlaps, AgainProofs!Intersects,
       againVars
  <1>7. (AgainProofs!RowsOrdered /\ AgainProofs!PeriodInHand)'
    BY <1>2, <1>5 DEF AgainProofs!RowsOrdered, AgainProofs!PeriodInHand,
       AgainProofs!Rows, AgainProofs!Unfinished, AgainProofs!Pending,
       AgainProofs!NextOf, AgainProofs!KeyOf, againVars
  <1> QED
    BY <1>2, <1>3, <1>4, <1>6, <1>7, LocalTypes
       DEF AgainProofs!ProgressInv, AgainProofs!LockInv, againVars

LEMMA LocalNext ==
  ASSUME LocalInv, [Next]_vars, ~overlooked'
  PROVE  LocalInv'
  <1>1. CASE RatingMoves
    <2>1. RatingProofs!WaitInv'
      BY <1>1, Assumptions, RatingProofs!WaitNext DEF LocalInv, RatingMoves
    <2> QED
      BY <1>1, <2>1, RatingKeeps DEF LocalInv
  <1>2. CASE AgainMoves
    <2>1. AgainProofs!ProgressInv'
      BY <1>2, Assumptions, AgainProofs!ProgressNext
         DEF LocalInv, AgainMoves
    <2> QED
      BY <1>2, <2>1, AgainKeeps DEF LocalInv
  <1> QED
    BY <1>1, <1>2, Moves

LEMMA LocalInit == Init => LocalInv
  <1> SUFFICES ASSUME Init PROVE LocalInv
    OBVIOUS
  <1>1. RatingProofs!Init
    BY RatingStart DEF Init
  <1>2. RatingProofs!WaitInv
    BY <1>1, Assumptions, RatingProofs!TypeInit, RatingProofs!LockInit,
       RatingProofs!WaitInit DEF RatingProofs!WaitInv, RatingProofs!LockInv
  <1>3. AgainProofs!ProgressInv
    BY AgainStart, Assumptions, AgainProofs!ProgressInit DEF Init
  <1> QED
    BY <1>2, <1>3 DEF LocalInv
-----------------------------------------------------------------------------
(***************************************************************************)
(* What counts as rated is stored or still to be rated.  The invariant     *)
(* adds to NothingLost what each process is about to record.  A reset may  *)
(* undo what a reprocessor has just stored, but the period is then given   *)
(* up or beyond the row until a processor has stored it again.             *)
(***************************************************************************)
OneScope == \A r, s \in Scopes : r = s

Confined == Backend = "influxdb" \/ (Backend = "elasticsearch" /\ OneScope)

Stored(s, t) == frames[<<s, t>>] > 0 \/ <<s, t>> \in Idle

HeldBeforeSave ==
  \A p \in Processors :
    pc[p] = "save" => Stored(cur[p], ts[p]) \/ Awaited(cur[p], ts[p])

(* Nobody counts on period t of s.                                         *)
Unrated(s, t) ==
  /\ t \in exempt[s] \/ lastProcessed[s] < t
  /\ \A p \in Processors : ~(pc[p] = "save" /\ cur[p] = s /\ ts[p] = t)

StoredBeforeProgress ==
  \A q \in Reprocessors :
    rpc[q] = "save" =>
      Stored(key[q].scope, rts[q]) \/ Unrated(key[q].scope, rts[q])

LostInv ==
  /\ LocalInv /\ RatingProofs!GivenUpBeforeSet
  /\ HeldBeforeSave /\ StoredBeforeProgress /\ NothingLost

LEMMA Confines == Confined => RatingProofs!Confined /\ AgainProofs!Confined
  BY DEF Confined, OneScope, RatingProofs!Confined, AgainProofs!Confined

LEMMA AwaitedRows ==
  ASSUME NEW s \in Scopes, NEW t \in Periods
  PROVE  Awaited(s, t) <=> \E i \in AgainProofs!Rows :
           schedules[i].scope = s /\ AgainProofs!Remains(schedules[i], t)
  BY DEF Awaited, Again!Remains, Again!Never, AgainProofs!Remains,
     AgainProofs!Never, AgainProofs!Rows

(* What a processor and a reprocessor in the act of recording work on.     *)
LEMMA SavingTypes ==
  ASSUME LocalInv
  PROVE  /\ \A p \in Processors :
              pc[p] = "save" => cur[p] \in Scopes /\ ts[p] \in Periods
         /\ \A q \in Reprocessors :
              rpc[q] \in AgainProofs!InHand
                => key[q].scope \in Scopes /\ rts[q] \in Periods
  <1>1. ASSUME NEW p \in Processors, pc[p] = "save"
        PROVE  cur[p] \in Scopes /\ ts[p] \in Periods
    BY <1>1, LocalTypes, Names DEF RatingProofs!LockInv, RatingProofs!HasScope,
       RatingProofs!Working, LocalInv, RatingProofs!WaitInv,
       RatingProofs!PeriodChosen, RatingProofs!Rating
  <1>2. ASSUME NEW q \in Reprocessors, rpc[q] \in AgainProofs!InHand
        PROVE  key[q].scope \in Scopes /\ rts[q] \in Periods
    <2>1. key[q] \in AgainProofs!Keys /\ rts[q] \in AgainProofs!Periods
      BY <1>2, Assumptions, AgainProofs!InHandFacts DEF LocalInv
    <2> QED
      BY <2>1, Names DEF AgainProofs!Keys
  <1> QED
    BY <1>1, <1>2

-----------------------------------------------------------------------------
(* The reprocessors.                                                       *)

(* A period is stored or awaited after a step of theirs if it was before,  *)
(* unless one of them has recorded it.                                     *)
LEMMA HeldAgain ==
  ASSUME LocalInv, Confined, AgainMoves, NEW s \in Scopes, NEW t \in Periods,
         Stored(s, t) \/ Awaited(s, t)
  PROVE  \/ Stored(s, t)' \/ Awaited(s, t)'
         \/ /\ frames' = frames
            /\ \E q \in Reprocessors :
                 rpc[q] = "save" /\ key[q].scope = s /\ rts[q] = t
  <1>1. /\ AgainProofs!ProgressInv /\ AgainProofs!Confined
        /\ [AgainProofs!Next]_AgainProofs!vars /\ t \in AgainProofs!Periods
    BY Confines, Names DEF LocalInv, AgainMoves
  <1>2. Awaited(s, t)' <=> \E i \in AgainProofs!Rows' :
           schedules'[i].scope = s /\ AgainProofs!Remains(schedules'[i], t)
    BY DEF Awaited, Again!Remains, Again!Never, AgainProofs!Remains,
       AgainProofs!Never, AgainProofs!Rows
  <1>3. CASE <<s, t>> \in Idle
    BY <1>3 DEF Stored
  <1>4. CASE frames[<<s, t>>] > 0
    <2>1. CASE frames'[<<s, t>>] > 0
      BY <2>1 DEF Stored
    <2>2. CASE ~(frames'[<<s, t>>] > 0)
      <3>1. \E i \in AgainProofs!Rows' :
              schedules'[i].scope = s /\ AgainProofs!Remains(schedules'[i], t)
        BY <1>1, <1>4, <2>2, Assumptions, AgainProofs!CleanedRemains
      <3> QED
        BY <1>2, <3>1
    <2> QED
      BY <2>1, <2>2
  <1>5. CASE Awaited(s, t)
    <2>1. PICK i \in AgainProofs!Rows :
            schedules[i].scope = s /\ AgainProofs!Remains(schedules[i], t)
      BY <1>5, AwaitedRows
    <2>2. \/ \E j \in AgainProofs!Rows' :
               schedules'[j].scope = s /\ AgainProofs!Remains(schedules'[j], t)
          \/ \E q \in Reprocessors :
               /\ AgainProofs!SaveProgress(q) /\ rpc[q] = "save"
               /\ frames' = frames /\ key[q].scope = s /\ rts[q] = t
      BY <1>1, <2>1, Assumptions, AgainProofs!RemainsKept
    <2> QED
      BY <1>2, <2>2
  <1> QED
    BY <1>3, <1>4, <1>5 DEF Stored

LEMMA AgainLosesNothing ==
  ASSUME LostInv, Confined, AgainMoves
  PROVE  NothingLost' /\ HeldBeforeSave'
  <1>1. LocalInv
    BY DEF LostInv
  <1>2. /\ lastProcessed' = lastProcessed /\ exempt' = exempt
        /\ pc' = pc /\ cur' = cur /\ ts' = ts
    BY Assumptions, AgainProofs!MarksKept DEF AgainMoves, ratingVars
  <1>3. ASSUME NEW s \in Scopes, NEW t \in Periods,
               Stored(s, t) \/ Awaited(s, t), ~Unrated(s, t)
        PROVE  Stored(s, t)' \/ Awaited(s, t)'
    <2>1. CASE /\ frames' = frames
               /\ \E q \in Reprocessors :
                    rpc[q] = "save" /\ key[q].scope = s /\ rts[q] = t
      <3>1. Stored(s, t)
        BY <1>3, <2>1 DEF LostInv, StoredBeforeProgress
      <3> QED
        BY <2>1, <3>1 DEF Stored
    <2> QED
      BY <1>1, <1>3, <2>1, HeldAgain
  <1>4. NothingLost'
    <2> SUFFICES ASSUME NEW s \in Scopes, NEW t \in Periods,
                        t <= lastProcessed'[s], t \notin exempt'[s],
                        <<s, t>> \notin Idle
                 PROVE  Stored(s, t)' \/ Awaited(s, t)'
      BY DEF NothingLost, Stored
    <2>1. Stored(s, t) \/ Awaited(s, t)
      BY <1>1, <1>2, LocalTypes DEF LostInv, NothingLost, Stored
    <2>2. t \in Int /\ lastProcessed[s] \in Int
      BY <1>1, LocalTypes, Names, RatingStoreAssumption
         DEF RatingProofs!TypeOK, Periods, Never
    <2>3. ~Unrated(s, t)
      BY <1>2, <2>2 DEF Unrated
    <2> QED
      BY <1>3, <2>1, <2>3
  <1>5. HeldBeforeSave'
    <2> SUFFICES ASSUME NEW p \in Processors, pc[p] = "save"
                 PROVE  Stored(cur[p], ts[p])' \/ Awaited(cur[p], ts[p])'
      BY <1>2 DEF HeldBeforeSave
    <2>1. Stored(cur[p], ts[p]) \/ Awaited(cur[p], ts[p])
      BY DEF LostInv, HeldBeforeSave
    <2>2. cur[p] \in Scopes /\ ts[p] \in Periods /\ ~Unrated(cur[p], ts[p])
      BY <1>1, SavingTypes DEF Unrated
    <2>3. \A s \in Scopes, t \in Periods :
            /\ Stored(s, t) \/ Awaited(s, t)
            /\ ~Unrated(s, t)
            => Stored(s, t)' \/ Awaited(s, t)'
      BY <1>3
    <2> QED
      BY <1>2, <2>1, <2>2, <2>3 DEF Stored, Awaited
  <1> QED
    BY <1>4, <1>5

LEMMA AgainStores ==
  ASSUME LostInv, Confined, AgainMoves
  PROVE  StoredBeforeProgress'
  <1> SUFFICES ASSUME NEW q \in Reprocessors, rpc'[q] = "save",
                      ~Unrated(key[q].scope, rts[q])'
               PROVE  Stored(key[q].scope, rts[q])'
    BY DEF StoredBeforeProgress, Stored, Unrated
  <1>1. /\ LocalInv /\ AgainProofs!ProgressInv /\ AgainProofs!TypeOK
        /\ AgainProofs!LockInv
        /\ AgainProofs!Confined /\ [AgainProofs!Next]_AgainProofs!vars
    BY Confines, LocalTypes DEF LostInv, LocalInv, AgainMoves
  <1>2. /\ lastProcessed' = lastProcessed /\ exempt' = exempt
        /\ pc' = pc /\ cur' = cur /\ ts' = ts
    BY Assumptions, AgainProofs!MarksKept DEF AgainMoves, ratingVars
  <1>3. /\ rpc[q] \in AgainProofs!InHand /\ key'[q] = key[q] /\ rts'[q] = rts[q]
        /\ \/ rpc[q] = "save"
           \/ AgainProofs!Push(q) \/ AgainProofs!PushRefused(q)
           \/ <<key[q].scope, rts[q]>> \in Idle
    BY <1>1, Assumptions, AgainProofs!ReachesSave
  <1>4. key[q].scope \in Scopes /\ rts[q] \in AgainProofs!Periods
    BY <1>1, <1>3, SavingTypes, Names
  <1>5. /\ frames'[<<key[q].scope, rts[q]>>] > 0
            => Stored(key[q].scope, rts[q])'
        /\ <<key[q].scope, rts[q]>> \in Idle => Stored(key[q].scope, rts[q])'
        /\ ~Unrated(key[q].scope, rts[q])
    BY <1>2, <1>3 DEF Stored, Unrated
  <1> DEFINE s == key[q].scope
             t == rts[q]
  <1>6. CASE <<s, t>> \in Idle
    BY <1>5, <1>6
  <1>7. CASE AgainProofs!Push(q)
    <2>1. frames'[<<s, t>>] > 0
      BY <1>1, <1>7, Assumptions, AgainProofs!PushStores
    <2> QED
      BY <1>5, <2>1
  <1>8. CASE rpc[q] = "save" /\ <<s, t>> \notin Idle
    <2>1. ~Unrated(s, t)
      BY <1>5
    <2>2. frames[<<s, t>>] > 0
      BY <1>8, <2>1 DEF LostInv, StoredBeforeProgress, Stored
    <2>3. ASSUME ~(frames'[<<s, t>>] > 0)
          PROVE  FALSE
      <3>1. PICK r \in Reprocessors :
               /\ rpc[r] = "clean" /\ key[r].scope = s
               /\ key[r].start <= t /\ t < key[r].end
        BY <1>1, <1>4, <2>2, <2>3, Assumptions, AgainProofs!FramesKept
      <3> QED
        BY <1>1, <1>8, <3>1, Assumptions, AgainProofs!OthersClean
    <2> QED
      BY <1>5, <2>3
  <1>9. ~AgainProofs!PushRefused(q)
    BY <1>1 DEF AgainProofs!PushRefused, AgainProofs!Confined
  <1> QED
    BY <1>3, <1>6, <1>7, <1>8, <1>9
-----------------------------------------------------------------------------
(* The processors and the endpoints.                                       *)

LEMMA RatingFacts ==
  ASSUME LostInv, Confined, RatingMoves
  PROVE  /\ RatingProofs!TypeOK /\ RatingProofs!LockInv /\ RatingProofs!WaitInv
         /\ RatingProofs!Confined /\ [RatingProofs!Next]_RatingProofs!vars
         /\ Periods = RatingProofs!Periods
         /\ \A p \in Processors :
              pc[p] = "save" => cur[p] \in Scopes /\ ts[p] \in Periods
         /\ UNCHANGED againVars
         /\ \A s \in Scopes, t \in Periods : Awaited(s, t)' <=> Awaited(s, t)
  <1>1. LocalInv /\ UNCHANGED againVars
    BY DEF LostInv, RatingMoves
  <1>2. \A s \in Scopes, t \in Periods : Awaited(s, t)' <=> Awaited(s, t)
    BY <1>1 DEF Awaited, Again!Remains, Again!Never, againVars
  <1> QED
    BY <1>1, <1>2, LocalTypes, Confines, Names, SavingTypes
       DEF LocalInv, RatingMoves

(* A stored period stays, unless an endpoint gives it up.                  *)
LEMMA StoredKept ==
  ASSUME LostInv, Confined, RatingMoves,
         NEW s \in Scopes, NEW t \in Periods, Stored(s, t)
  PROVE  \/ Stored(s, t)'
         \/ /\ pc' = pc /\ cur' = cur /\ ts' = ts
            /\ t \in exempt'[s]
            /\ \A p \in Processors : ~(pc[p] = "save" /\ cur[p] = s)
  <1>1. CASE <<s, t>> \in Idle
    BY <1>1 DEF Stored
  <1>2. ASSUME NEW h \in Endpoints, RatingProofs!DeleteData(h),
               hcur[h] = s, hreq[h].ts <= t
        PROVE  /\ pc' = pc /\ cur' = cur /\ ts' = ts
               /\ t \in exempt'[s]
               /\ \A p \in Processors : ~(pc[p] = "save" /\ cur[p] = s)
    <2>1. pc' = pc /\ cur' = cur /\ ts' = ts /\ hpc[h] = "delete"
      BY <1>2 DEF RatingProofs!DeleteData, RatingProofs!processorVars
    <2>2. t \in exempt'[s]
      BY <1>2, RatingFacts DEF RatingProofs!DeleteData, RatingProofs!TypeOK
    <2>3. ASSUME NEW p \in Processors, pc[p] = "save"
          PROVE  cur[p] # s
      <3>1. pc[p] \in RatingProofs!Working /\ hpc[h] \in RatingProofs!Resetting
        BY <2>1, <2>3 DEF RatingProofs!Working, RatingProofs!Resetting
      <3> QED
        BY <1>2, <3>1, RatingFacts, Assumptions, RatingProofs!Exclusive
    <2> QED
      BY <2>1, <2>2, <2>3
  <1>3. CASE /\ frames[<<s, t>>] > 0
             /\ \A h \in Endpoints :
                  RatingProofs!DeleteData(h) => ~(hcur[h] = s /\ hreq[h].ts <= t)
    <2>1. frames'[<<s, t>>] > 0
      BY <1>3, RatingFacts, Assumptions, RatingProofs!FramesKept
    <2> QED
      BY <2>1 DEF Stored
  <1> QED
    BY <1>1, <1>2, <1>3 DEF Stored

LEMMA RatingLosesNothing ==
  ASSUME LostInv, Confined, RatingMoves
  PROVE  NothingLost'
  <1> SUFFICES ASSUME NEW s \in Scopes, NEW t \in Periods,
                      t <= lastProcessed'[s], t \notin exempt'[s]
               PROVE  Stored(s, t)' \/ Awaited(s, t)
    BY RatingFacts DEF NothingLost, Stored
  <1>1. t \in Int /\ lastProcessed[s] \in Int
    BY RatingFacts, RatingStoreAssumption, Names
       DEF RatingProofs!TypeOK, Periods, Never
  <1>2. ASSUME t <= lastProcessed[s], t \notin exempt[s]
        PROVE  Stored(s, t) \/ Awaited(s, t)
    BY <1>2, LocalTypes DEF LostInv, NothingLost, Stored
  <1>3. ASSUME Stored(s, t) \/ Awaited(s, t)
        PROVE  Stored(s, t)' \/ Awaited(s, t)
    BY <1>3, StoredKept
  <1>4. CASE lastProcessed'[s] = lastProcessed[s] /\ exempt[s] \subseteq exempt'[s]
    BY <1>2, <1>3, <1>4
  <1>5. ASSUME NEW p \in Processors, RatingProofs!SaveState(p), cur[p] = s
        PROVE  Stored(s, t)' \/ Awaited(s, t)
    <2>1. /\ pc[p] = "save" /\ ts[p] \in Periods
          /\ lastProcessed'[s] = ts[p]
          /\ exempt'[s] = (IF RatingProofs!Known(s) THEN exempt[s]
                           ELSE {u \in Periods : u < ts[p]}) \ {ts[p]}
      BY <1>5, RatingFacts DEF RatingProofs!SaveState, RatingProofs!Goto,
         RatingProofs!TypeOK
    <2>2. CASE t = ts[p]
      BY <1>3, <1>5, <2>1, <2>2 DEF LostInv, HeldBeforeSave
    <2>3. CASE t # ts[p]
      <3>1. ts[p] \in Int /\ t < ts[p]
        BY <1>1, <2>1, <2>3, RatingStoreAssumption DEF Periods
      <3>2. RatingProofs!Known(s) /\ t \notin exempt[s]
        BY <2>1, <2>3, <3>1
      <3>3. ts[p] = lastProcessed[s] + 1
        BY <1>5, <2>1, <3>2, RatingFacts
           DEF RatingProofs!WaitInv, RatingProofs!WaitRespected
      <3>4. t <= lastProcessed[s]
        BY <1>1, <3>1, <3>3
      <3> QED
        BY <1>2, <1>3, <3>2, <3>4
    <2> QED
      BY <2>2, <2>3
  <1>6. ASSUME NEW h \in Endpoints, RatingProofs!SetState(h), hcur[h] = s
        PROVE  Stored(s, t)' \/ Awaited(s, t)
    <2> DEFINE r == hreq[h].ts
    <2>1. /\ hpc[h] = "set" /\ r \in Periods
          /\ lastProcessed'[s] = r
          /\ exempt'[s] = {u \in exempt[s] : u <= r}
                          \cup {u \in Periods : lastProcessed[s] < u /\ u < r}
      BY <1>6, RatingFacts DEF RatingProofs!SetState, RatingProofs!TypeOK,
         RatingProofs!Request
    <2>2. r \in Int /\ r \in exempt[s]
      BY <1>6, <2>1, RatingStoreAssumption, Names
         DEF LostInv, RatingProofs!GivenUpBeforeSet, Periods
    <2>3. t < r /\ t \notin exempt[s]
      BY <1>1, <2>1, <2>2
    <2>4. t <= lastProcessed[s]
      BY <1>1, <2>1, <2>2, <2>3
    <2> QED
      BY <1>2, <1>3, <2>3, <2>4
  <1>7. \/ /\ lastProcessed'[s] = lastProcessed[s]
           /\ exempt[s] \subseteq exempt'[s]
        \/ \E p \in Processors : RatingProofs!SaveState(p) /\ cur[p] = s
        \/ \E h \in Endpoints : RatingProofs!SetState(h) /\ hcur[h] = s
    BY RatingFacts, Assumptions, RatingProofs!MarkMoves
  <1> QED
    BY <1>4, <1>5, <1>6, <1>7

(* A processor records what it has stored, or what a schedule still has.   *)
LEMMA RatingHolds ==
  ASSUME LostInv, Confined, RatingMoves
  PROVE  HeldBeforeSave'
  <1> SUFFICES ASSUME NEW p \in Processors, pc'[p] = "save"
               PROVE  Stored(cur[p], ts[p])' \/ Awaited(cur[p], ts[p])'
    BY DEF HeldBeforeSave
  <1>1. /\ cur'[p] = cur[p] /\ ts'[p] = ts[p]
        /\ \/ pc[p] = "save"
           \/ RatingProofs!Push(p)
           \/ <<cur[p], ts[p]>> \in Idle
           \/ Backend = "loki"
    BY RatingFacts, Assumptions, RatingProofs!ReachesSave
  <1>2. Backend # "loki"
    BY DEF Confined
  <1>3. CASE <<cur[p], ts[p]>> \in Idle
    BY <1>1, <1>3 DEF Stored
  <1>4. CASE RatingProofs!Push(p)
    <2>1. frames'[<<cur[p], ts[p]>>] > 0
      BY <1>4, RatingFacts, Assumptions, RatingProofs!PushStores
    <2> QED
      BY <1>1, <2>1 DEF Stored
  <1>5. CASE pc[p] = "save"
    <2>1. cur[p] \in Scopes /\ ts[p] \in Periods
      BY <1>5, RatingFacts
    <2>2. Stored(cur[p], ts[p]) \/ Awaited(cur[p], ts[p])
      BY <1>5 DEF LostInv, HeldBeforeSave
    <2>3. \A s \in Scopes, t \in Periods :
            s = cur[p] /\ t = ts[p] /\ (Stored(s, t) \/ Awaited(s, t))
              => Stored(s, t)' \/ Awaited(s, t)'
      BY <1>5, StoredKept, RatingFacts
    <2> QED
      BY <1>1, <2>1, <2>2, <2>3 DEF Stored, Awaited
  <1> QED
    BY <1>1, <1>2, <1>3, <1>4, <1>5

(* No period a processor or an endpoint begins to count on is one that a   *)
(* reprocessor is about to record and that is not stored.                  *)
LEMMA UnratedKept ==
  ASSUME LostInv, Confined, RatingMoves,
         NEW s \in Scopes, NEW t \in Periods, Unrated(s, t)
  PROVE  Stored(s, t)' \/ Unrated(s, t)'
  <1>1. t \in Int /\ lastProcessed[s] \in Int
    BY RatingFacts, RatingStoreAssumption, Names
       DEF RatingProofs!TypeOK, Periods, Never
  <1>2. ASSUME NEW p \in Processors, pc'[p] = "save", cur'[p] = s, ts'[p] = t
        PROVE  Stored(s, t)'
    <2>1. /\ cur[p] = s /\ ts[p] = t
          /\ \/ pc[p] = "save"
             \/ RatingProofs!Push(p)
             \/ <<cur[p], ts[p]>> \in Idle
             \/ Backend = "loki"
      BY <1>2, RatingFacts, Assumptions, RatingProofs!ReachesSave
    <2>2. Backend # "loki" /\ pc[p] # "save"
      BY <2>1 DEF Confined, Unrated
    <2>3. CASE RatingProofs!Push(p)
      <3>1. frames'[<<cur[p], ts[p]>>] > 0
        BY <2>3, RatingFacts, Assumptions, RatingProofs!PushStores
      <3> QED
        BY <2>1, <3>1 DEF Stored
    <2> QED
      BY <2>1, <2>2, <2>3 DEF Stored
  <1>3. CASE lastProcessed'[s] = lastProcessed[s] /\ exempt[s] \subseteq exempt'[s]
    BY <1>2, <1>3 DEF Unrated
  <1>4. ASSUME NEW p \in Processors, RatingProofs!SaveState(p), cur[p] = s
        PROVE  t \in exempt'[s] \/ lastProcessed'[s] < t
    <2>1. /\ pc[p] = "save" /\ ts[p] \in Periods
          /\ lastProcessed'[s] = ts[p]
          /\ exempt'[s] = (IF RatingProofs!Known(s) THEN exempt[s]
                           ELSE {u \in Periods : u < ts[p]}) \ {ts[p]}
      BY <1>4, RatingFacts DEF RatingProofs!SaveState, RatingProofs!Goto,
         RatingProofs!TypeOK
    <2>2. ts[p] \in Int /\ t # ts[p]
      BY <1>4, <2>1, RatingStoreAssumption DEF Unrated, Periods
    <2>3. CASE ~RatingProofs!Known(s)
      BY <1>1, <2>1, <2>2, <2>3
    <2>4. CASE RatingProofs!Known(s)
      <3>1. ts[p] = lastProcessed[s] + 1
        BY <1>4, <2>1, <2>4, RatingFacts
           DEF RatingProofs!WaitInv, RatingProofs!WaitRespected
      <3>2. CASE t \in exempt[s]
        BY <2>1, <2>2, <2>4, <3>2
      <3>3. CASE lastProcessed[s] < t
        BY <1>1, <2>1, <2>2, <3>1, <3>3
      <3> QED
        BY <3>2, <3>3 DEF Unrated
    <2> QED
      BY <2>3, <2>4
  <1>5. ASSUME NEW h \in Endpoints, RatingProofs!SetState(h), hcur[h] = s
        PROVE  t \in exempt'[s] \/ lastProcessed'[s] < t
    <2> DEFINE r == hreq[h].ts
    <2>1. /\ hpc[h] = "set" /\ r \in Periods
          /\ lastProcessed'[s] = r
          /\ exempt'[s] = {u \in exempt[s] : u <= r}
                          \cup {u \in Periods : lastProcessed[s] < u /\ u < r}
      BY <1>5, RatingFacts DEF RatingProofs!SetState, RatingProofs!TypeOK,
         RatingProofs!Request
    <2>2. r \in Int /\ r \in exempt[s]
      BY <1>5, <2>1, RatingStoreAssumption, Names
         DEF LostInv, RatingProofs!GivenUpBeforeSet, Periods
    <2>3. CASE t = r
      BY <2>1, <2>2, <2>3
    <2>4. CASE t # r
      BY <1>1, <2>1, <2>2, <2>4 DEF Unrated
    <2> QED
      BY <2>3, <2>4
  <1>6. \/ /\ lastProcessed'[s] = lastProcessed[s]
           /\ exempt[s] \subseteq exempt'[s]
        \/ \E p \in Processors : RatingProofs!SaveState(p) /\ cur[p] = s
        \/ \E h \in Endpoints : RatingProofs!SetState(h) /\ hcur[h] = s
    BY RatingFacts, Assumptions, RatingProofs!MarkMoves
  <1> QED
    BY <1>2, <1>3, <1>4, <1>5, <1>6 DEF Unrated

LEMMA RatingStores ==
  ASSUME LostInv, Confined, RatingMoves
  PROVE  StoredBeforeProgress'
  <1> SUFFICES ASSUME NEW q \in Reprocessors, rpc'[q] = "save"
               PROVE  (Stored(key[q].scope, rts[q]) \/ Unrated(key[q].scope, rts[q]))'
    BY DEF StoredBeforeProgress
  <1>1. rpc[q] = "save" /\ key' = key /\ rts' = rts
    BY RatingFacts DEF againVars
  <1>2. key[q].scope \in Scopes /\ rts[q] \in Periods
    BY <1>1, SavingTypes DEF LostInv, AgainProofs!InHand
  <1>3. Stored(key[q].scope, rts[q]) \/ Unrated(key[q].scope, rts[q])
    BY <1>1 DEF LostInv, StoredBeforeProgress
  <1>4. \A s \in Scopes, t \in Periods :
          Stored(s, t) \/ Unrated(s, t) => Stored(s, t)' \/ Unrated(s, t)'
    <2> SUFFICES ASSUME NEW s \in Scopes, NEW t \in Periods,
                        Stored(s, t) \/ Unrated(s, t)
                 PROVE  Stored(s, t)' \/ Unrated(s, t)'
      OBVIOUS
    <2>1. CASE Stored(s, t)
      BY <2>1, StoredKept DEF Unrated
    <2>2. CASE Unrated(s, t)
      BY <2>2, UnratedKept
    <2> QED
      BY <2>1, <2>2
  <1> QED
    BY <1>1, <1>2, <1>3, <1>4 DEF Stored, Unrated

-----------------------------------------------------------------------------
LEMMA LostInit ==
  ASSUME Init
  PROVE  LostInv
  <1>1. LocalInv /\ RatingProofs!Init
    BY LocalInit, RatingStart DEF Init
  <1>2. RatingProofs!GivenUpBeforeSet /\ HeldBeforeSave
    BY <1>1 DEF RatingProofs!Init, RatingProofs!GivenUpBeforeSet, HeldBeforeSave
  <1>3. StoredBeforeProgress
    BY DEF Init, Again!Init, StoredBeforeProgress
  <1>4. \A s \in Scopes : lastProcessed[s] = Never
    BY <1>1, Names DEF RatingProofs!Init
  <1>5. NothingLost
    BY <1>4, RatingStoreAssumption DEF NothingLost, Periods, Never
  <1> QED
    BY <1>1, <1>2, <1>3, <1>5 DEF LostInv

LEMMA LostNext ==
  ASSUME Confined, LostInv, [Next]_vars, ~overlooked'
  PROVE  LostInv'
  <1>1. LocalInv'
    BY LocalNext DEF LostInv
  <1>2. CASE RatingMoves
    <2>1. RatingProofs!GivenUpBeforeSet'
      BY <1>2, RatingFacts, Assumptions, RatingProofs!GapGivenUp DEF LostInv
    <2> QED
      BY <1>1, <1>2, <2>1, RatingLosesNothing, RatingHolds, RatingStores
         DEF LostInv
  <1>3. CASE AgainMoves
    <2>1. RatingProofs!GivenUpBeforeSet'
      BY <1>3, Names DEF LostInv, AgainMoves, ratingVars,
         RatingProofs!GivenUpBeforeSet
    <2> QED
      BY <1>1, <1>3, <2>1, AgainLosesNothing, AgainStores DEF LostInv
  <1> QED
    BY <1>2, <1>3, Moves

(* Where a deletion is confined to what was asked and a failed push is     *)
(* reported, every period that counts as rated is stored, was given up by  *)
(* a reset or is still to be rated by a schedule, with processors, resets  *)
(* and reprocessors at work on the same scopes without a common lock,      *)
(* whatever crashes and fails.                                             *)
THEOREM SystemLosesNothing ==
  ASSUME Confined
  PROVE  Spec => []NothingLost
  <1>1. (overlooked \/ LostInv) /\ [Next]_vars => (overlooked \/ LostInv)'
    BY LostNext, OverlookedBefore
  <1>2. overlooked \/ LostInv => NothingLost
    BY DEF LostInv, NothingLost
  <1> QED
    BY <1>1, <1>2, LostInit, PTL DEF Spec
-----------------------------------------------------------------------------
(***************************************************************************)
(* As long as nothing fails, what is stored twice is the end of a schedule *)
(* or was disputed between a reset and a schedule.  Until a reset is asked *)
(* for, schedules lie before the rows of their scopes, which only advance, *)
(* and processors rate after them.                                         *)
(***************************************************************************)
AllQuiet == RatingProofs!Quiet /\ AgainProofs!Quiet

Undisputed(s, t) == spent["reset"] = 0 \/ ~Scheduled(s, t)

(* What is asked to be rated again has been rated.                         *)
WindowsRated ==
  spent["reset"] = 0 =>
    /\ \A s \in Scopes, t \in Periods : Scheduled(s, t) => t <= lastProcessed[s]
    /\ \A c \in Callers : apc[c] # "idle" =>
         \A s \in unchecked[c] \cup accepted[c] :
           window[c].end <= lastProcessed[s]

(* FreshPeriods of ScopeProcessing_proofs, for the undisputed periods.     *)
FreshPeriods ==
  \A s \in Scopes, t \in Periods :
    Undisputed(s, t) /\ lastProcessed[s] < t /\ frames[<<s, t>>] # 0
      => \E p \in Processors : pc[p] = "save" /\ cur[p] = s /\ ts[p] = t

(* Nothing but a reprocessor stores what a reset has just deleted.         *)
DeletedBeforeSet ==
  \A h \in Endpoints, u \in Periods :
    hpc[h] = "set" /\ hreq[h].ts <= u /\ ~Scheduled(hcur[h], u)
      => frames[<<hcur[h], u>>] = 0

CopyInv ==
  /\ LocalInv
  /\ RatingProofs!ClientsEmpty /\ RatingProofs!EndpointsRest
  /\ WindowsRated
  /\ AllQuiet => /\ AgainProofs!ClientsEmpty
                 /\ FreshPeriods /\ DeletedBeforeSet
                 /\ spent["reset"] = 0 => AgainProofs!RestIsClean
  /\ OneCopy

LEMMA QuietMeans ==
  ASSUME LocalInv
  PROVE  AllQuiet <=>
           /\ \A e \in {"crash", "error", "pushError"} : spent[e] + rspent[e] = 0
           /\ spent["resetFault"] = 0
  <1>1. /\ \A e \in {"crash", "error", "pushError"} :
             spent[e] \in Nat /\ rspent[e] \in Nat
        /\ spent["resetFault"] \in Nat
    BY LocalTypes DEF RatingProofs!TypeOK, AgainProofs!TypeOK,
       RatingProofs!Events, AgainProofs!Events
  <1> QED
    BY <1>1 DEF AllQuiet, RatingProofs!Quiet, AgainProofs!Quiet

LEMMA StaysQuiet ==
  ASSUME LocalInv, [Next]_vars, AllQuiet'
  PROVE  AllQuiet
  <1>1. CASE RatingMoves
    <2>1. RatingProofs!Quiet
      BY <1>1, Assumptions, LocalTypes, RatingProofs!StaysQuiet
         DEF RatingMoves, AllQuiet
    <2> QED
      BY <1>1, <2>1 DEF RatingMoves, AllQuiet, againVars, AgainProofs!Quiet
  <1>2. CASE AgainMoves
    <2>1. AgainProofs!Quiet
      BY <1>2, Assumptions, LocalTypes, AgainProofs!QuietBefore
         DEF AgainMoves, AllQuiet
    <2> QED
      BY <1>2, <2>1 DEF AgainMoves, AllQuiet, ratingVars, RatingProofs!Quiet
  <1> QED
    BY <1>1, <1>2, Moves

LEMMA ResetsCounted ==
  ASSUME LocalInv, [Next]_vars, spent'["reset"] = 0
  PROVE  spent["reset"] = 0
  <1>1. CASE RatingMoves
    BY <1>1, Assumptions, LocalTypes, RatingProofs!NotSpent
       DEF RatingMoves, RatingProofs!Events
  <1>2. CASE AgainMoves
    BY <1>2 DEF AgainMoves, ratingVars
  <1> QED
    BY <1>1, <1>2, Moves

LEMMA ScheduledStays ==
  ASSUME LocalInv, [Next]_vars, NEW s, NEW t
  PROVE  /\ Scheduled(s, t) => Scheduled(s, t)'
         /\ RatingMoves => (Scheduled(s, t)' <=> Scheduled(s, t))
         /\ (\E i \in DOMAIN schedules :
               schedules[i].scope = s /\ schedules[i].end = t)
              => \E i \in DOMAIN schedules' :
                   schedules'[i].scope = s /\ schedules'[i].end = t
  <1>1. ASSUME AgainMoves, NEW i \in DOMAIN schedules
        PROVE  /\ i \in DOMAIN schedules'
               /\ schedules'[i].scope = schedules[i].scope
               /\ schedules'[i].start = schedules[i].start
               /\ schedules'[i].end = schedules[i].end
    BY <1>1, Assumptions, AgainProofs!RowsStay
       DEF AgainMoves, LocalInv, AgainProofs!Rows
  <1>2. CASE RatingMoves
    BY <1>2 DEF RatingMoves, againVars, Scheduled, Again!Covers
  <1>3. CASE AgainMoves /\ ~RatingMoves
    BY <1>1, <1>3 DEF Scheduled, Again!Covers
  <1> QED
    BY <1>2, <1>3, Moves

(* A schedule and the period in hand of one of its reprocessors.           *)
LEMMA InHandScheduled ==
  ASSUME LocalInv, NEW q \in Reprocessors, rpc[q] \in AgainProofs!InHand
  PROVE  /\ key[q] \in AgainProofs!Keys
         /\ key[q].scope \in Scopes /\ rts[q] \in Periods
         /\ Scheduled(key[q].scope, rts[q])
  <1>1. PICK i \in AgainProofs!Pending(key[q]) :
           /\ key[q] \in AgainProofs!Keys
           /\ i \in AgainProofs!Rows
           /\ schedules[i].scope = key[q].scope
           /\ schedules[i].start = key[q].start
           /\ schedules[i].end = key[q].end
           /\ key[q].start <= rts[q] /\ rts[q] <= key[q].end
    BY Assumptions, AgainProofs!InHandFacts DEF LocalInv
  <1>2. Scheduled(key[q].scope, rts[q])
    BY <1>1 DEF Scheduled, Again!Covers, AgainProofs!Rows
  <1> QED
    BY <1>1, <1>2, SavingTypes

-----------------------------------------------------------------------------
(* The reprocessors.                                                       *)

(* Without failures they store what is scheduled, and nothing else.        *)
LEMMA AgainWrites ==
  ASSUME CopyInv, AgainMoves, AllQuiet', AllQuiet,
         NEW s \in Scopes, NEW t \in Periods
  PROVE  frames'[<<s, t>>] \in {0, frames[<<s, t>>]} \/ Scheduled(s, t)
  <1>1. /\ LocalInv /\ AgainProofs!ProgressInv /\ AgainProofs!TypeOK
        /\ [AgainProofs!Next]_AgainProofs!vars /\ t \in AgainProofs!Periods
        /\ AgainProofs!ClientsEmpty
    BY LocalTypes, Names DEF CopyInv, LocalInv, AgainMoves
  <1>2. ASSUME NEW q \in Reprocessors, AgainProofs!Push(q)
        PROVE  frames'[<<s, t>>] = frames[<<s, t>>] \/ Scheduled(s, t)
    <2>1. rpc[q] \in AgainProofs!InHand
      BY <1>2 DEF AgainProofs!Push, AgainProofs!Goto, AgainProofs!InHand
    <2>2. Scheduled(key[q].scope, rts[q])
      BY <1>1, <2>1, InHandScheduled
    <2>3. ~(key[q].scope = s /\ rts[q] = t) => frames'[<<s, t>>] = frames[<<s, t>>]
      BY <1>1, <1>2, Assumptions, AgainProofs!PushEffect
    <2> QED
      BY <2>2, <2>3
  <1>3. ASSUME NEW q \in Reprocessors, AgainProofs!Clean(q)
        PROVE  frames'[<<s, t>>] \in {0, frames[<<s, t>>]}
    <2>1. rpc[q] \in AgainProofs!InHand
      BY <1>3 DEF AgainProofs!Clean, AgainProofs!Goto, AgainProofs!InHand
    <2>2. key[q] \in AgainProofs!Keys
      BY <1>1, <2>1, InHandScheduled
    <2> QED
      BY <1>1, <1>3, <2>2, Assumptions, AgainProofs!CleanEffect
  <1>4. \/ UNCHANGED <<frames, rbuffer>>
        \/ \E q \in Reprocessors : AgainProofs!Push(q)
        \/ \E q \in Reprocessors : AgainProofs!Clean(q) /\ rbuffer' = rbuffer
    BY <1>1, Assumptions, AgainProofs!QuietWrites DEF AllQuiet
  <1> QED
    BY <1>2, <1>3, <1>4

LEMMA AgainFresh ==
  ASSUME CopyInv, AgainMoves, AllQuiet', AllQuiet, [Next]_vars
  PROVE  FreshPeriods' /\ DeletedBeforeSet'
  <1>1. /\ LocalInv /\ FreshPeriods /\ DeletedBeforeSet /\ WindowsRated
        /\ RatingProofs!TypeOK /\ RatingProofs!LockInv
    BY LocalTypes DEF CopyInv
  <1>2. UNCHANGED ratingVars /\ lastProcessed' = lastProcessed
    BY Assumptions, AgainProofs!MarksKept DEF AgainMoves
  <1>3. FreshPeriods'
    <2> SUFFICES ASSUME NEW s \in Scopes, NEW t \in Periods,
                        Undisputed(s, t)', lastProcessed[s] < t,
                        frames'[<<s, t>>] # 0
                 PROVE  \E p \in Processors :
                          pc[p] = "save" /\ cur[p] = s /\ ts[p] = t
      BY <1>2 DEF FreshPeriods, ratingVars
    <2>1. Undisputed(s, t)
      BY <1>1, <1>2, ScheduledStays DEF Undisputed, ratingVars
    <2>2. CASE Scheduled(s, t)
      <3>1. t <= lastProcessed[s]
        BY <1>1, <2>1, <2>2 DEF Undisputed, WindowsRated
      <3>2. t \in Int /\ lastProcessed[s] \in Int
        BY <1>1, RatingStoreAssumption, Names
           DEF RatingProofs!TypeOK, Periods, Never
      <3> QED
        BY <3>1, <3>2
    <2>3. CASE frames'[<<s, t>>] \in {0, frames[<<s, t>>]}
      BY <1>1, <2>1, <2>3 DEF FreshPeriods
    <2> QED
      BY <2>2, <2>3, AgainWrites
  <1>4. DeletedBeforeSet'
    <2> SUFFICES ASSUME NEW h \in Endpoints, NEW u \in Periods,
                        hpc[h] = "set", hreq[h].ts <= u,
                        ~Scheduled(hcur[h], u)'
                 PROVE  frames'[<<hcur[h], u>>] = 0
      BY <1>2 DEF DeletedBeforeSet, ratingVars, Scheduled
    <2>1. hcur[h] \in Scopes
      BY <1>1 DEF RatingProofs!LockInv, RatingProofs!HasScope,
         RatingProofs!Resetting
    <2>2. ~Scheduled(hcur[h], u)
      <3>1. \A s \in Scopes, t \in Periods : Scheduled(s, t) => Scheduled(s, t)'
        BY <1>1, ScheduledStays
      <3> QED
        BY <1>2, <2>1, <3>1 DEF Scheduled, ratingVars
    <2>3. frames[<<hcur[h], u>>] = 0
      BY <1>1, <2>2 DEF DeletedBeforeSet
    <2> QED
      BY <2>1, <2>2, <2>3, AgainWrites
  <1> QED
    BY <1>3, <1>4

LEMMA AgainEmpty ==
  ASSUME CopyInv, AgainMoves, AllQuiet', AllQuiet
  PROVE  AgainProofs!ClientsEmpty'
  <1>1. /\ AgainProofs!TypeOK /\ AgainProofs!ClientsEmpty
        /\ [AgainProofs!Next]_AgainProofs!vars
    BY LocalTypes DEF CopyInv, AgainMoves
  <1>2. \/ UNCHANGED <<frames, rbuffer>>
        \/ \E q \in Reprocessors : AgainProofs!Push(q)
        \/ \E q \in Reprocessors : AgainProofs!Clean(q) /\ rbuffer' = rbuffer
    BY <1>1, Assumptions, AgainProofs!QuietWrites DEF AllQuiet
  <1> QED
    BY <1>1, <1>2 DEF AgainProofs!ClientsEmpty, AgainProofs!Push,
       AgainProofs!TypeOK, AgainProofs!NoDocs, AgainProofs!Frames,
       AgainProofs!Periods

(* Until a reset is asked for, what is proved of the reprocessors alone    *)
(* holds.                                                                  *)
LEMMA AgainAlone ==
  ASSUME CopyInv, AgainMoves, AllQuiet', AllQuiet, spent["reset"] = 0,
         ~overlooked'
  PROVE  /\ AgainProofs!RestIsClean'
         /\ \A s \in Scopes, t \in Periods :
              frames'[<<s, t>>] > 1 =>
                \E i \in DOMAIN schedules' :
                  schedules'[i].scope = s /\ schedules'[i].end = t
  <1>1. LocalInv /\ AgainProofs!TypeOK
    BY LocalTypes DEF CopyInv
  <1>2. AgainProofs!OneCopyButAtEnds
    <2> SUFFICES ASSUME NEW f \in AgainProofs!Frames, frames[f] > 1
                 PROVE  \E i \in AgainProofs!Rows :
                          schedules[i].scope = f[1] /\ schedules[i].end = f[2]
      BY DEF AgainProofs!OneCopyButAtEnds
    <2>1. PICK s \in Scopes, t \in Periods : f = <<s, t>>
      BY Names DEF Frames
    <2>2. ~(spent["reset"] > 0)
      OBVIOUS
    <2> QED
      BY <1>1, <2>1, <2>2, LocalTypes, QuietMeans
         DEF CopyInv, OneCopy, AgainProofs!Rows
  <1>3. AgainProofs!CopyInv
    BY <1>2 DEF CopyInv, AgainProofs!CopyInv, LocalInv
  <1>4. AgainProofs!RestIsClean'
    BY <1>3, Assumptions, AgainProofs!RestNext DEF AgainMoves, AllQuiet
  <1>5. AgainProofs!OneCopyButAtEnds'
    BY <1>3, Assumptions, AgainProofs!CopiesNext DEF AgainMoves
  <1>6. \A s \in Scopes, t \in Periods :
          frames'[<<s, t>>] > 1 =>
            \E i \in DOMAIN schedules' :
              schedules'[i].scope = s /\ schedules'[i].end = t
    <2>1. \A f \in AgainProofs!Frames :
            frames'[f] > 1 => \E i \in DOMAIN schedules' :
              schedules'[i].scope = f[1] /\ schedules'[i].end = f[2]
      BY <1>5 DEF AgainProofs!OneCopyButAtEnds, AgainProofs!Rows, AllQuiet,
         AgainProofs!Quiet
    <2> QED
      BY <2>1, Names DEF Frames
  <1> QED
    BY <1>4, <1>6

LEMMA AgainCopies ==
  ASSUME CopyInv, AgainMoves, AllQuiet', AllQuiet, [Next]_vars, LocalInv',
         ~overlooked'
  PROVE  OneCopy'
  <1> SUFFICES ASSUME NEW s \in Scopes, NEW t \in Periods,
                      frames'[<<s, t>>] > 1,
                      ~(spent["reset"] > 0 /\ Scheduled(s, t)')
               PROVE  \E i \in DOMAIN schedules' :
                        schedules'[i].scope = s /\ schedules'[i].end = t
    <2>1. spent' = spent
      BY DEF AgainMoves, ratingVars
    <2> QED
      BY <2>1 DEF OneCopy, Scheduled
  <1>1. CASE spent["reset"] = 0
    BY <1>1, AgainAlone
  <1>2. CASE spent["reset"] # 0
    <2>1. LocalInv /\ spent["reset"] \in Nat
      BY LocalTypes DEF CopyInv, RatingProofs!TypeOK, RatingProofs!Events
    <2>2. ~Scheduled(s, t)
      BY <1>2, <2>1, ScheduledStays
    <2>3. frames[<<s, t>>] > 1
      BY <2>2, AgainWrites
    <2>4. \E i \in DOMAIN schedules :
            schedules[i].scope = s /\ schedules[i].end = t
      BY <2>1, <2>2, <2>3, LocalTypes, QuietMeans DEF CopyInv, OneCopy
    <2> QED
      BY <2>1, <2>4, ScheduledStays
  <1> QED
    BY <1>1, <1>2
-----------------------------------------------------------------------------
(* The windows of schedules lie before the rows.                           *)

LEMMA MarksAdvance ==
  ASSUME CopyInv, RatingMoves, spent["reset"] = 0, NEW s \in Scopes
  PROVE  lastProcessed[s] <= lastProcessed'[s]
  <1>1. /\ RatingProofs!WaitInv /\ RatingProofs!TypeOK
        /\ [RatingProofs!Next]_RatingProofs!vars
    BY LocalTypes DEF CopyInv, LocalInv, RatingMoves
  <1>2. lastProcessed[s] \in Int
    BY <1>1, RatingStoreAssumption, Names DEF RatingProofs!TypeOK, Periods,
       Never
  <1>3. ASSUME NEW p \in Processors, RatingProofs!SaveState(p), cur[p] = s
        PROVE  lastProcessed[s] <= lastProcessed'[s]
    <2>1. pc[p] \in RatingProofs!Rating /\ lastProcessed'[s] = ts[p]
      BY <1>1, <1>3 DEF RatingProofs!SaveState, RatingProofs!Goto,
         RatingProofs!TypeOK, RatingProofs!Rating
    <2>2. ts[p] \in Periods /\ lastProcessed[s] < ts[p]
      BY <1>1, <1>3, <2>1, Assumptions, Names, RatingProofs!ChosenAfterMark
    <2> QED
      BY <1>2, <2>1, <2>2, RatingStoreAssumption DEF Periods
  <1>4. ASSUME NEW h \in Endpoints, RatingProofs!SetState(h)
        PROVE  FALSE
    BY <1>4 DEF RatingProofs!SetState, CopyInv, RatingProofs!EndpointsRest
  <1> QED
    BY <1>1, <1>2, <1>3, <1>4, Assumptions, RatingProofs!MarkMoves

LEMMA WindowsNext ==
  ASSUME CopyInv, [Next]_vars
  PROVE  WindowsRated'
  <1>1. LocalInv /\ RatingProofs!TypeOK /\ AgainProofs!TypeOK
    BY LocalTypes DEF CopyInv
  <1> SUFFICES ASSUME spent'["reset"] = 0
               PROVE  WindowsRated'
    BY DEF WindowsRated
  <1>2. /\ spent["reset"] = 0
        /\ \A s \in Scopes, t \in Periods :
             Scheduled(s, t) => t <= lastProcessed[s]
        /\ \A c \in Callers : apc[c] # "idle" =>
             \A s \in unchecked[c] \cup accepted[c] :
               s \in Scopes /\ window[c].end <= lastProcessed[s]
    BY <1>1, ResetsCounted DEF CopyInv, WindowsRated, AgainProofs!TypeOK
  <1>3. \A s \in Scopes : lastProcessed[s] \in Int
    BY <1>1, RatingStoreAssumption, Names DEF RatingProofs!TypeOK, Periods,
       Never
  <1>4. \A t \in Periods : t \in Int
    BY RatingStoreAssumption DEF Periods
  <1>5. \A c \in Callers : window[c].end \in Int
    BY <1>1, <1>4, Names DEF AgainProofs!TypeOK, AgainProofs!Window
  <1>6. CASE RatingMoves
    <2>1. \A s \in Scopes :
            lastProcessed'[s] \in Int /\ lastProcessed[s] <= lastProcessed'[s]
      <3>1. RatingProofs!TypeOK'
        BY <1>1, <1>6, Assumptions, RatingProofs!TypeNext DEF RatingMoves
      <3> QED
        BY <1>2, <1>6, <3>1, MarksAdvance, RatingStoreAssumption, Names
           DEF RatingProofs!TypeOK, Periods, Never
    <2>2. \A s \in Scopes, t \in Periods :
            Scheduled(s, t)' => t <= lastProcessed'[s]
      <3> SUFFICES ASSUME NEW s \in Scopes, NEW t \in Periods, Scheduled(s, t)'
                   PROVE  t <= lastProcessed'[s]
        OBVIOUS
      <3>1. t <= lastProcessed[s]
        BY <1>1, <1>2, <1>6, ScheduledStays
      <3> QED
        BY <1>3, <1>4, <2>1, <3>1
    <2>3. ASSUME NEW c \in Callers, apc'[c] # "idle",
                 NEW s \in unchecked'[c] \cup accepted'[c]
          PROVE  window'[c].end <= lastProcessed'[s]
      <3>1. s \in Scopes /\ window'[c] = window[c] /\ window[c].end <= lastProcessed[s]
        BY <1>2, <1>6, <2>3 DEF RatingMoves, againVars
      <3> QED
        BY <1>3, <1>5, <2>1, <3>1
    <2> QED
      BY <2>2, <2>3 DEF WindowsRated
  <1>7. CASE AgainMoves
    <2>1. lastProcessed' = lastProcessed
      BY <1>7, Assumptions, AgainProofs!MarksKept DEF AgainMoves
    <2>2. AgainProofs!AcceptedAreFree /\ AgainProofs!ProgressInv
          /\ [AgainProofs!Next]_AgainProofs!vars
      BY <1>1, <1>7 DEF LocalInv, AgainProofs!ProgressInv, AgainMoves
    <2>3. ASSUME NEW s \in Scopes, NEW t \in Periods, Scheduled(s, t)'
          PROVE  t <= lastProcessed[s]
      <3>1. CASE \E c \in Callers, r \in Scopes : AgainProofs!Persist(c, r)
        <4>1. PICK c \in Callers, r \in Scopes : AgainProofs!Persist(c, r)
          BY <3>1
        <4>2. /\ apc[c] = "persist" /\ r \in accepted[c]
              /\ schedules' = Append(schedules,
                   [scope |-> r, start |-> window[c].start,
                    end |-> window[c].end, cur |-> AgainProofs!Never])
          BY <4>1 DEF AgainProofs!Persist
        <4>3. window[c].end <= lastProcessed[r]
          BY <1>2, <4>2
        <4>4. PICK i \in DOMAIN schedules' :
                 /\ schedules'[i].scope = s /\ schedules'[i].start <= t
                 /\ t <= schedules'[i].end
          BY <2>3 DEF Scheduled, Again!Covers
        <4>5. CASE i \in DOMAIN schedules
          <5>1. schedules'[i] = schedules[i]
            BY <1>1, <4>2, <4>5 DEF AgainProofs!TypeOK
          <5>2. Scheduled(s, t)
            BY <4>4, <4>5, <5>1 DEF Scheduled, Again!Covers
          <5> QED
            BY <1>2, <5>2
        <4>6. CASE i \notin DOMAIN schedules
          <5>1. schedules'[i].scope = r /\ schedules'[i].end = window[c].end
            BY <1>1, <4>2, <4>4, <4>6 DEF AgainProofs!TypeOK
          <5> QED
            BY <1>3, <1>4, <1>5, <4>3, <4>4, <5>1
        <4> QED
          BY <4>5, <4>6
      <3>2. CASE ~ \E c \in Callers, r \in Scopes : AgainProofs!Persist(c, r)
        <4>1. PICK i \in DOMAIN schedules' :
                 /\ schedules'[i].scope = s /\ schedules'[i].start <= t
                 /\ t <= schedules'[i].end
          BY <2>3 DEF Scheduled, Again!Covers
        <4>2. DOMAIN schedules' = DOMAIN schedules
          <5>1. ASSUME NEW q \in Reprocessors, AgainProofs!SaveProgress(q)
                PROVE  DOMAIN schedules' = DOMAIN schedules
            BY <1>1, <5>1 DEF AgainProofs!SaveProgress, AgainProofs!TypeOK
          <5> QED
            BY <2>2, <3>2, <5>1, Assumptions, AgainProofs!RowsKept
        <4>3. /\ schedules[i].scope = s /\ schedules[i].start <= t
              /\ t <= schedules[i].end
          BY <2>2, <4>1, <4>2, Assumptions, AgainProofs!RowsStay
             DEF AgainProofs!Rows
        <4>4. Scheduled(s, t)
          BY <4>2, <4>3 DEF Scheduled, Again!Covers
        <4> QED
          BY <1>2, <4>4
      <3> QED
        BY <3>1, <3>2
    <2>4. ASSUME NEW c \in Callers, apc'[c] # "idle",
                 NEW s \in unchecked'[c] \cup accepted'[c]
          PROVE  window'[c].end <= lastProcessed[s]
      <3>1. CASE /\ apc[c] # "idle" /\ window'[c] = window[c]
                 /\ unchecked'[c] \cup accepted'[c]
                      \subseteq unchecked[c] \cup accepted[c]
        BY <1>2, <2>4, <3>1
      <3>2. ASSUME NEW S \in SUBSET Scopes, NEW b \in Periods, NEW e \in Periods,
                   AgainProofs!Request(c, S, b, e)
            PROVE  window'[c].end <= lastProcessed[s]
        <4>1. /\ window'[c].end = e /\ unchecked'[c] = S
              /\ accepted'[c] = accepted[c]
              /\ apc[c] = "idle" /\ \A r \in S : e <= lastProcessed[r]
          BY <1>1, <3>2 DEF AgainProofs!Request, AgainProofs!TypeOK
        <4>2. accepted[c] = {}
          BY <2>2, <4>1 DEF AgainProofs!AcceptedAreFree
        <4> QED
          BY <2>4, <4>1, <4>2
      <3>3. \/ /\ apc[c] # "idle" /\ window'[c] = window[c]
               /\ unchecked'[c] \cup accepted'[c]
                    \subseteq unchecked[c] \cup accepted[c]
            \/ \E S \in SUBSET Scopes, b \in Periods, e \in Periods :
                 AgainProofs!Request(c, S, b, e)
        <4>1. CASE UNCHANGED <<apc, window, unchecked, accepted>>
          BY <2>4, <4>1
        <4>2. ASSUME NEW d \in Callers, NEW r \in Scopes,
                     \/ AgainProofs!CheckOverlap(d, r)
                     \/ AgainProofs!Reject(d, r) \/ AgainProofs!Persist(d, r)
              PROVE  /\ apc[c] # "idle" /\ window'[c] = window[c]
                     /\ unchecked'[c] \cup accepted'[c]
                          \subseteq unchecked[c] \cup accepted[c]
          <5>1. CASE AgainProofs!CheckOverlap(d, r)
            <6>1. /\ apc[d] # "idle" /\ r \in unchecked[d] /\ window' = window
                  /\ unchecked' = [unchecked EXCEPT ![d] = @ \ {r}]
                  /\ accepted' = [accepted EXCEPT ![d] = @ \cup {r}]
                  /\ \A b \in Callers \ {d} : apc'[b] = apc[b]
              BY <1>1, <5>1 DEF AgainProofs!CheckOverlap, AgainProofs!TypeOK
            <6> QED
              BY <1>1, <2>4, <6>1 DEF AgainProofs!TypeOK
          <5>2. CASE AgainProofs!Reject(d, r) \/ AgainProofs!Persist(d, r)
            BY <1>1, <2>4, <5>2 DEF AgainProofs!Reject, AgainProofs!Persist,
               AgainProofs!TypeOK
          <5> QED
            BY <4>2, <5>1, <5>2
        <4>3. ASSUME NEW d \in Callers, AgainProofs!PostFails(d)
              PROVE  /\ apc[c] # "idle" /\ window'[c] = window[c]
                     /\ unchecked'[c] \cup accepted'[c]
                          \subseteq unchecked[c] \cup accepted[c]
          BY <1>1, <2>4, <4>3 DEF AgainProofs!PostFails, AgainProofs!TypeOK
        <4>4. ASSUME NEW d \in Callers \ {c},
                     NEW S \in SUBSET Scopes, NEW b \in Periods, NEW e \in Periods,
                     AgainProofs!Request(d, S, b, e)
              PROVE  /\ apc[c] # "idle" /\ window'[c] = window[c]
                     /\ unchecked'[c] \cup accepted'[c]
                          \subseteq unchecked[c] \cup accepted[c]
          BY <1>1, <2>4, <4>4 DEF AgainProofs!Request, AgainProofs!TypeOK
        <4>5. \/ UNCHANGED <<apc, window, unchecked, accepted>>
              \/ \E d \in Callers, r \in Scopes :
                   \/ AgainProofs!CheckOverlap(d, r)
                   \/ AgainProofs!Reject(d, r) \/ AgainProofs!Persist(d, r)
              \/ \E d \in Callers : AgainProofs!PostFails(d)
              \/ \E d \in Callers, S \in SUBSET Scopes,
                    b \in Periods, e \in Periods : AgainProofs!Request(d, S, b, e)
          BY <2>2, Names DEF AgainProofs!Next, AgainProofs!ReprocessorStep,
             AgainProofs!CallerStep, AgainProofs!Fault, AgainProofs!vars,
             AgainProofs!callerVars,
             AgainProofs!LoadSchedules, AgainProofs!TryLock,
             AgainProofs!EndCycle, AgainProofs!ProcessSchedule,
             AgainProofs!LoadScopeKey, AgainProofs!Release,
             AgainProofs!NextTimestamp, AgainProofs!CheckActive,
             AgainProofs!Clean, AgainProofs!Collect, AgainProofs!Push,
             AgainProofs!PushFails, AgainProofs!PushRefused,
             AgainProofs!CleanRefused, AgainProofs!SaveProgress,
             AgainProofs!ProcessingFails, AgainProofs!Crash, AgainProofs!Toggle
        <4> QED
          BY <4>1, <4>2, <4>3, <4>4, <4>5
      <3> QED
        BY <3>1, <3>2, <3>3
    <2> QED
      BY <2>1, <2>3, <2>4 DEF WindowsRated
  <1> QED
    BY <1>6, <1>7, Moves
-----------------------------------------------------------------------------
(* The processors and the endpoints.                                       *)

LEMMA RatingQuietly ==
  ASSUME CopyInv, RatingMoves, AllQuiet', AllQuiet
  PROVE  /\ LocalInv
         /\ RatingProofs!TypeOK /\ RatingProofs!LockInv /\ RatingProofs!WaitInv
         /\ [RatingProofs!Next]_RatingProofs!vars
         /\ Periods = RatingProofs!Periods /\ Frames = RatingProofs!Frames
         /\ RatingProofs!Quiet' /\ spent'["pushError"] = 0
         /\ \A p \in Processors : buffer[p] = RatingProofs!NoDocs
         /\ FreshPeriods /\ DeletedBeforeSet /\ UNCHANGED againVars
         /\ \A s, t : Scheduled(s, t)' <=> Scheduled(s, t)
         /\ \A s, t : Undisputed(s, t)' => Undisputed(s, t)
  <1>1. LocalInv /\ [RatingProofs!Next]_RatingProofs!vars /\ UNCHANGED againVars
    BY DEF CopyInv, RatingMoves
  <1>2. \A s, t : Scheduled(s, t)' <=> Scheduled(s, t)
    BY <1>1 DEF Scheduled, Again!Covers, againVars
  <1>3. spent'["reset"] = 0 => spent["reset"] = 0
    BY <1>1, Assumptions, LocalTypes, RatingProofs!NotSpent
       DEF RatingProofs!Events
  <1>4. \A s, t : Undisputed(s, t)' => Undisputed(s, t)
    BY <1>2, <1>3 DEF Undisputed
  <1>5. /\ RatingProofs!Quiet' /\ spent'["pushError"] = 0
        /\ \A p \in Processors : buffer[p] = RatingProofs!NoDocs
    BY DEF AllQuiet, RatingProofs!Quiet, CopyInv, RatingProofs!ClientsEmpty
  <1> QED
    BY <1>1, <1>2, <1>4, <1>5, LocalTypes, Names DEF CopyInv, LocalInv

(* What a processor is about to store is not stored.                       *)
LEMMA PushIsFresh ==
  ASSUME CopyInv, RatingMoves, AllQuiet', AllQuiet,
         NEW p \in Processors, RatingProofs!Push(p)
  PROVE  /\ cur[p] \in Scopes /\ ts[p] \in Periods
         /\ lastProcessed[cur[p]] < ts[p]
         /\ Undisputed(cur[p], ts[p]) => frames[<<cur[p], ts[p]>>] = 0
  <1>1. pc[p] = "push"
    BY DEF RatingProofs!Push, RatingProofs!Goto
  <1>2. /\ cur[p] \in Scopes /\ ts[p] \in Periods
        /\ lastProcessed[cur[p]] < ts[p]
    BY <1>1, RatingQuietly, Assumptions, RatingProofs!ChosenAfterMark
       DEF RatingProofs!Rating
  <1>3. ASSUME NEW q \in Processors, pc[q] = "save", cur[q] = cur[p]
        PROVE  FALSE
    BY <1>1, <1>3, RatingQuietly, Assumptions, RatingProofs!Exclusive
       DEF RatingProofs!Working
  <1> QED
    BY <1>2, <1>3, RatingQuietly DEF FreshPeriods

(* Who writes, and what.                                                   *)
LEMMA RatingWrites ==
  ASSUME CopyInv, RatingMoves, AllQuiet', AllQuiet,
         NEW s \in Scopes, NEW t \in Periods
  PROVE  \/ frames'[<<s, t>>] \in {0, frames[<<s, t>>]}
         \/ \E p \in Processors :
              /\ RatingProofs!Push(p) /\ cur[p] = s /\ ts[p] = t
              /\ frames[<<s, t>>] = 0 => frames'[<<s, t>>] = 1
  <1>1. <<s, t>> \in RatingProofs!Frames /\ frames[<<s, t>>] \in Nat
    BY RatingQuietly DEF Frames, RatingProofs!TypeOK
  <1>2. ASSUME NEW p \in Processors, RatingProofs!Push(p)
        PROVE  \/ frames'[<<s, t>>] = frames[<<s, t>>]
               \/ /\ cur[p] = s /\ ts[p] = t
                  /\ frames[<<s, t>>] = 0 => frames'[<<s, t>>] = 1
    <2>1. /\ <<s, t>> # <<cur[p], ts[p]>> => frames'[<<s, t>>] = frames[<<s, t>>]
          /\ <<s, t>> = <<cur[p], ts[p]>> =>
               frames'[<<s, t>>] =
                 IF Backend = "influxdb" THEN 1 ELSE frames[<<s, t>>] + 1
      BY <1>1, <1>2, RatingQuietly, Assumptions, RatingProofs!CleanPush
    <2> QED
      BY <1>1, <2>1
  <1>3. ASSUME NEW h \in Endpoints, RatingProofs!DeleteData(h)
        PROVE  frames'[<<s, t>>] \in {0, frames[<<s, t>>]}
    BY <1>3, RatingQuietly, Assumptions, RatingProofs!DeletionEffect
  <1>4. \/ frames' = frames
        \/ \E p \in Processors : RatingProofs!Push(p)
        \/ \E h \in Endpoints : RatingProofs!DeleteData(h)
    BY RatingQuietly, Assumptions, RatingProofs!WhoWrites
  <1> QED
    BY <1>2, <1>3, <1>4

LEMMA RatingFresh ==
  ASSUME CopyInv, RatingMoves, AllQuiet', AllQuiet
  PROVE  FreshPeriods'
  <1> SUFFICES ASSUME NEW s \in Scopes, NEW t \in Periods, Undisputed(s, t),
                      Undisputed(s, t)',
                      lastProcessed'[s] < t, frames'[<<s, t>>] # 0
               PROVE  \E p \in Processors :
                        pc'[p] = "save" /\ cur'[p] = s /\ ts'[p] = t
    BY RatingQuietly DEF FreshPeriods
  <1>1. t \in Int /\ lastProcessed[s] \in Int
    BY RatingQuietly, RatingStoreAssumption, Names
       DEF RatingProofs!TypeOK, Periods, Never
  <1>2. ASSUME NEW p \in Processors, RatingProofs!SaveState(p), cur[p] = s
        PROVE  FALSE
    <2>1. /\ pc[p] = "save" /\ lastProcessed'[s] = ts[p]
          /\ frames' = frames
      BY <1>2, RatingQuietly DEF RatingProofs!SaveState, RatingProofs!Goto,
         RatingProofs!TypeOK
    <2>2. ts[p] \in Periods /\ lastProcessed[s] < ts[p]
      BY <1>2, <2>1, RatingQuietly, Assumptions, RatingProofs!ChosenAfterMark
         DEF RatingProofs!Rating
    <2>3. lastProcessed[s] < t /\ t # ts[p]
      BY <1>1, <2>1, <2>2, RatingStoreAssumption DEF Periods
    <2>4. PICK q \in Processors : pc[q] = "save" /\ cur[q] = s /\ ts[q] = t
      BY <2>1, <2>3, RatingQuietly DEF FreshPeriods
    <2>5. p = q
      BY <1>2, <2>1, <2>4, RatingQuietly, Assumptions, RatingProofs!Exclusive
         DEF RatingProofs!Working
    <2> QED
      BY <2>3, <2>4, <2>5
  <1>3. ASSUME NEW h \in Endpoints, RatingProofs!SetState(h), hcur[h] = s
        PROVE  FALSE
    <2>1. /\ hpc[h] = "set" /\ lastProcessed'[s] = hreq[h].ts
          /\ frames' = frames /\ spent' = spent /\ hreq[h].ts \in Periods
      BY <1>3, RatingQuietly DEF RatingProofs!SetState, RatingProofs!TypeOK,
         RatingProofs!Request
    <2>2. hreq[h].ts <= t
      BY <1>1, <2>1, RatingStoreAssumption DEF Periods
    <2>3. spent["reset"] # 0
      BY <2>1 DEF CopyInv, RatingProofs!EndpointsRest
    <2> QED
      BY <1>3, <2>1, <2>2, <2>3, RatingQuietly
         DEF DeletedBeforeSet, Undisputed
  <1>4. CASE lastProcessed'[s] = lastProcessed[s]
    <2>1. CASE frames[<<s, t>>] # 0
      <3>1. PICK q \in Processors : pc[q] = "save" /\ cur[q] = s /\ ts[q] = t
        BY <1>4, <2>1, RatingQuietly DEF FreshPeriods
      <3>2. ~RatingProofs!SaveState(q)
        BY <1>2, <3>1
      <3>3. ~RatingProofs!ProcessorStep(q)
        BY <3>1, <3>2 DEF RatingProofs!ProcessorStep, RatingProofs!LoadScopes,
           RatingProofs!EndCycle, RatingProofs!ProcessScope,
           RatingProofs!Release, RatingProofs!NextTimestamp,
           RatingProofs!CheckActive, RatingProofs!Collect,
           RatingProofs!Push, RatingProofs!TryLock, RatingProofs!Goto
      <3>4. pc'[q] = pc[q] /\ cur'[q] = cur[q] /\ ts'[q] = ts[q]
        <4>1. CASE UNCHANGED RatingProofs!vars
          BY <4>1 DEF RatingProofs!vars, RatingProofs!processorVars
        <4>2. CASE RatingProofs!Next
          <5>1. /\ \A p \in Processors :
                     /\ ~RatingProofs!PushFails(p) /\ ~RatingProofs!PushRefused(p)
                     /\ ~RatingProofs!ProcessingFails(p) /\ ~RatingProofs!Crash(p)
                /\ \A h \in Endpoints : ~RatingProofs!ResetFails(h)
            BY RatingQuietly, Assumptions, RatingProofs!StaysQuiet
          <5> QED
            BY <3>3, <4>2, <5>1, RatingQuietly, Assumptions,
               RatingProofs!LocalsInHand DEF RatingProofs!Next,
               RatingProofs!Fault
        <4> QED
          BY <4>1, <4>2, RatingQuietly
      <3> QED
        BY <3>1, <3>4
    <2>2. CASE frames[<<s, t>>] = 0
      <3>1. PICK p \in Processors :
               RatingProofs!Push(p) /\ cur[p] = s /\ ts[p] = t
        BY <2>2, RatingWrites
      <3>2. pc'[p] = "save" /\ cur'[p] = cur[p] /\ ts'[p] = ts[p]
        BY <3>1, RatingQuietly DEF RatingProofs!Push, RatingProofs!Goto,
           RatingProofs!TypeOK
      <3> QED
        BY <3>1, <3>2
    <2> QED
      BY <2>1, <2>2
  <1> QED
    BY <1>2, <1>3, <1>4, RatingQuietly, Assumptions, RatingProofs!MarkMoves

LEMMA RatingDeleted ==
  ASSUME CopyInv, RatingMoves, AllQuiet', AllQuiet, Backend # "loki"
  PROVE  DeletedBeforeSet'
  <1> SUFFICES ASSUME NEW h \in Endpoints, NEW u \in Periods,
                      hpc'[h] = "set", hreq'[h].ts <= u,
                      ~Scheduled(hcur'[h], u)
               PROVE  frames'[<<hcur'[h], u>>] = 0
    <2>1. \A s, t : Scheduled(s, t)' <=> Scheduled(s, t)
      BY RatingQuietly
    <2>2. schedules' = schedules
      BY RatingQuietly DEF againVars
    <2> QED
      BY <2>2 DEF DeletedBeforeSet, Scheduled, Again!Covers
  <1>1. CASE RatingProofs!DeleteData(h)
    <2>1. hcur'[h] = hcur[h] /\ hreq'[h] = hreq[h] /\ hcur[h] \in Scopes
      BY <1>1, RatingQuietly DEF RatingProofs!DeleteData,
         RatingProofs!LockInv, RatingProofs!HasScope, RatingProofs!Resetting
    <2> QED
      BY <1>1, <2>1, RatingQuietly, Assumptions, RatingProofs!DeletionEffect
  <1>2. CASE hpc[h] = "set" /\ hcur'[h] = hcur[h] /\ hreq'[h] = hreq[h]
    <2>1. frames[<<hcur[h], u>>] = 0 /\ hcur[h] \in Scopes
      BY <1>2, RatingQuietly DEF DeletedBeforeSet, RatingProofs!LockInv,
         RatingProofs!HasScope, RatingProofs!Resetting
    <2>2. ASSUME NEW p \in Processors, RatingProofs!Push(p)
          PROVE  cur[p] # hcur[h]
      <3>1. pc[p] \in RatingProofs!Working /\ hpc[h] \in RatingProofs!Resetting
        BY <1>2, <2>2 DEF RatingProofs!Push, RatingProofs!Goto,
           RatingProofs!Working, RatingProofs!Resetting
      <3> QED
        BY <3>1, RatingQuietly, Assumptions, RatingProofs!Exclusive
    <2> QED
      BY <1>2, <2>1, <2>2, RatingWrites
  <1> QED
    BY <1>1, <1>2, RatingQuietly, Assumptions, RatingProofs!AboutToSet
       DEF RatingProofs!DeleteRefused

(* What a schedule has cleaned lies before the mark of its scope.          *)
LEMMA RatingRest ==
  ASSUME CopyInv, RatingMoves, AllQuiet', AllQuiet, spent["reset"] = 0
  PROVE  AgainProofs!RestIsClean'
  <1>1. /\ AgainProofs!RestIsClean /\ AgainProofs!TypeOK /\ AgainProofs!RowsOrdered
        /\ UNCHANGED againVars /\ LocalInv
    BY LocalTypes, RatingQuietly DEF CopyInv, LocalInv, AgainProofs!ProgressInv
  <1>2. \A i, t : AgainProofs!Awaits(i, t)' <=> AgainProofs!Awaits(i, t)
    BY <1>1 DEF AgainProofs!Awaits, AgainProofs!Unfinished,
       AgainProofs!Cleaned, AgainProofs!Written, AgainProofs!NextOf,
       AgainProofs!KeyOf, againVars
  <1> SUFFICES ASSUME NEW i \in AgainProofs!Rows, NEW t \in AgainProofs!Periods,
                      AgainProofs!Awaits(i, t)
               PROVE  frames'[<<schedules[i].scope, t>>] = 0
    BY <1>1, <1>2 DEF AgainProofs!RestIsClean, AgainProofs!Rows, againVars
  <1>3. schedules[i].scope \in Scopes /\ t \in Periods
    <2>1. schedules[i] \in AgainProofs!Row
      BY <1>1 DEF AgainProofs!TypeOK, AgainProofs!Rows
    <2> QED
      BY <2>1, Names DEF AgainProofs!Row
  <1>4. frames[<<schedules[i].scope, t>>] = 0
    BY <1>1 DEF AgainProofs!RestIsClean
  <1>5. Scheduled(schedules[i].scope, t)
    <2>1. /\ schedules[i].start <= AgainProofs!NextOf(schedules[i])
          /\ AgainProofs!NextOf(schedules[i]) \in Int
          /\ schedules[i].start \in Int /\ schedules[i].end \in Int /\ t \in Int
      <3>1. schedules[i] \in AgainProofs!Row
        BY <1>1 DEF AgainProofs!TypeOK, AgainProofs!Rows
      <3>2. /\ schedules[i].start \in Int /\ schedules[i].end \in Int /\ t \in Int
            /\ schedules[i].cur \in Int
        BY <1>3, <3>1, RatingStoreAssumption, Names
           DEF AgainProofs!Row, Periods, Never
      <3>3. \/ schedules[i].cur = AgainProofs!Never
            \/ schedules[i].start <= schedules[i].cur
        BY <1>1 DEF AgainProofs!RowsOrdered
      <3> QED
        BY <3>2, <3>3 DEF AgainProofs!NextOf
    <2> QED
      BY <2>1 DEF AgainProofs!Awaits, Scheduled, Again!Covers, AgainProofs!Rows
  <1>6. t <= lastProcessed[schedules[i].scope]
    BY <1>3, <1>5 DEF CopyInv, WindowsRated
  <1>7. ASSUME NEW p \in Processors, RatingProofs!Push(p),
               cur[p] = schedules[i].scope, ts[p] = t
        PROVE  FALSE
    <2>1. lastProcessed[schedules[i].scope] < t
      BY <1>7, PushIsFresh
    <2>2. t \in Int /\ lastProcessed[schedules[i].scope] \in Int
      BY <1>3, RatingQuietly, RatingStoreAssumption, Names
         DEF RatingProofs!TypeOK, Periods, Never
    <2> QED
      BY <1>6, <2>1, <2>2
  <1> QED
    BY <1>3, <1>4, <1>7, RatingWrites

LEMMA RatingCopies ==
  ASSUME CopyInv, RatingMoves, AllQuiet', AllQuiet, [Next]_vars
  PROVE  OneCopy'
  <1>1. /\ LocalInv /\ schedules' = schedules
        /\ spent["reset"] > 0 => spent'["reset"] > 0
    <2>1. spent["reset"] \in Nat /\ spent'["reset"] \in Nat
      <3>1. RatingProofs!TypeOK'
        BY RatingQuietly, Assumptions, RatingProofs!TypeNext
      <3> QED
        BY <3>1, RatingQuietly DEF RatingProofs!TypeOK, RatingProofs!Events
    <2> QED
      BY <2>1, RatingQuietly, ResetsCounted DEF againVars
  <1> SUFFICES ASSUME NEW s \in Scopes, NEW t \in Periods,
                      frames'[<<s, t>>] > 1,
                      ~(spent["reset"] > 0 /\ Scheduled(s, t))
               PROVE  \E i \in DOMAIN schedules :
                        schedules[i].scope = s /\ schedules[i].end = t
    BY <1>1 DEF OneCopy, Scheduled, Again!Covers
  <1>2. CASE frames[<<s, t>>] > 1
    BY <1>1, <1>2, LocalTypes, QuietMeans DEF CopyInv, OneCopy
  <1>3. ASSUME NEW p \in Processors, RatingProofs!Push(p), cur[p] = s, ts[p] = t,
               frames[<<s, t>>] = 0 => frames'[<<s, t>>] = 1
        PROVE  FALSE
    <2>1. spent["reset"] \in Nat
      BY RatingQuietly DEF RatingProofs!TypeOK, RatingProofs!Events
    <2>2. Undisputed(s, t)
      BY <2>1 DEF Undisputed
    <2> QED
      BY <1>3, <2>2, PushIsFresh
  <1> QED
    BY <1>2, <1>3, RatingWrites

-----------------------------------------------------------------------------
LEMMA CopyNext ==
  ASSUME Backend # "loki", CopyInv, [Next]_vars, ~overlooked'
  PROVE  CopyInv'
  <1>1. LocalInv /\ LocalInv' /\ WindowsRated'
    BY LocalNext, WindowsNext DEF CopyInv
  <1>2. RatingProofs!ClientsEmpty' /\ RatingProofs!EndpointsRest'
    <2>1. CASE RatingMoves
      BY <1>1, <2>1, Assumptions, LocalTypes, RatingProofs!ClientsEmptyNext,
         RatingProofs!EndpointsRestNext DEF CopyInv, RatingMoves
    <2>2. CASE AgainMoves
      BY <2>2 DEF CopyInv, AgainMoves, ratingVars, RatingProofs!ClientsEmpty,
         RatingProofs!EndpointsRest
    <2> QED
      BY <2>1, <2>2, Moves
  <1>3. CASE ~AllQuiet'
    <2>1. (LocalInv =>
             (AllQuiet <=>
                /\ \A e \in {"crash", "error", "pushError"} :
                     spent[e] + rspent[e] = 0
                /\ spent["resetFault"] = 0))'
      BY QuietMeans, PTL
    <2>2. OneCopy'
      BY <1>1, <1>3, <2>1 DEF OneCopy
    <2> QED
      BY <1>1, <1>2, <1>3, <2>2 DEF CopyInv
  <1>4. CASE AllQuiet'
    <2>1. AllQuiet
      BY <1>1, <1>4, StaysQuiet
    <2>2. CASE RatingMoves
      <3>1. AgainProofs!ClientsEmpty'
        BY <1>4, <2>1, <2>2, RatingQuietly DEF CopyInv, againVars,
           AgainProofs!ClientsEmpty
      <3>2. spent'["reset"] = 0 => AgainProofs!RestIsClean'
        BY <1>1, <1>4, <2>1, <2>2, ResetsCounted, RatingRest
      <3> QED
        BY <1>1, <1>2, <1>4, <2>1, <2>2, <3>1, <3>2, RatingFresh,
           RatingDeleted, RatingCopies DEF CopyInv
    <2>3. CASE AgainMoves
      <3>1. spent'["reset"] = 0 => AgainProofs!RestIsClean'
        BY <1>1, <1>4, <2>1, <2>3, ResetsCounted, AgainAlone
      <3> QED
        BY <1>1, <1>2, <1>4, <2>1, <2>3, <3>1, AgainEmpty, AgainFresh,
           AgainCopies DEF CopyInv
    <2> QED
      BY <2>2, <2>3, Moves
  <1> QED
    BY <1>3, <1>4

LEMMA CopyInit ==
  ASSUME Init
  PROVE  CopyInv
  <1>1. LocalInv /\ RatingProofs!Init
    BY LocalInit, RatingStart DEF Init
  <1>2. RatingProofs!ClientsEmpty /\ RatingProofs!EndpointsRest
    BY <1>1 DEF RatingProofs!Init, RatingProofs!ClientsEmpty,
       RatingProofs!EndpointsRest
  <1>3. schedules = <<>> /\ \A c \in Callers : apc[c] = "idle"
    BY DEF Init, Again!Init
  <1>4. AgainProofs!ClientsEmpty
    BY AgainStart DEF Init, AgainProofs!Init, AgainProofs!ClientsEmpty
  <1>5. \A f \in Frames : frames[f] = 0
    BY <1>1, Names DEF RatingProofs!Init, RatingProofs!NoDocs
  <1>6. WindowsRated
    BY <1>3 DEF WindowsRated, Scheduled
  <1>7. AgainProofs!RestIsClean
    BY <1>3 DEF AgainProofs!RestIsClean, AgainProofs!Rows
  <1>8. FreshPeriods /\ OneCopy
    BY <1>5 DEF FreshPeriods, OneCopy, Frames
  <1>9. DeletedBeforeSet
    BY <1>1 DEF RatingProofs!Init, DeletedBeforeSet
  <1> QED
    BY <1>1, <1>2, <1>4, <1>6, <1>7, <1>8, <1>9 DEF CopyInv

(* With a backend that deletes what it is asked to delete, a period is     *)
(* stored twice only where a schedule ends or, once a reset was asked for, *)
(* within a schedule's window, as long as nothing fails: processors and    *)
(* reprocessors need no common lock.                                       *)
THEOREM SystemKeepsOneCopy ==
  ASSUME Backend # "loki"
  PROVE  Spec => []OneCopy
  <1>1. (overlooked \/ CopyInv) /\ [Next]_vars => (overlooked \/ CopyInv)'
    BY CopyNext, OverlookedBefore
  <1>2. overlooked \/ CopyInv => OneCopy
    BY DEF CopyInv, OneCopy
  <1> QED
    BY <1>1, <1>2, CopyInit, PTL DEF Spec
=============================================================================
