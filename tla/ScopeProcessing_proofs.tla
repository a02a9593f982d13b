------------------------ MODULE ScopeProcessing_proofs ------------------------
(***************************************************************************)
(* What holds of ScopeProcessing for every number of scopes, processors,   *)
(* endpoints, periods and events.                                          *)
(***************************************************************************)
EXTENDS ZonedProcessing, WellFoundedInduction, TLAPS

(* A deletion is confined to what it was asked for, and a failed push is   *)
(* reported: InfluxDB, or Elasticsearch with a single scope.               *)
Confined ==
  \/ Backend = "influxdb"
  \/ Backend = "elasticsearch" /\ \A r, s \in Scopes : r = s

(* A deletion leaves the other scopes alone.                               *)
Separate == Backend # "elasticsearch" \/ \A r, s \in Scopes : r = s

(* The documents of a client, and the content of a backend, are counts.    *)
LEMMA StoreTypes ==
  ASSUME NEW docs \in [Frames -> Nat], NEW stored \in [Frames -> Nat],
         NEW s, NEW t, NEW begin, NEW instant
  PROVE  /\ NoDocs \in [Frames -> Nat]
         /\ AddDoc(docs, s, t) \in [Frames -> Nat]
         /\ Commit(stored, docs) \in [Frames -> Nat]
         /\ DeleteFrom(stored, s, begin, instant) \in [Frames -> Nat]
  <1>1. NoDocs \in [Frames -> Nat]
    BY DEF NoDocs
  <1>2. AddDoc(docs, s, t) \in [Frames -> Nat]
    <2>1. \A f \in Frames : docs[f] + 1 \in Nat
      OBVIOUS
    <2> QED
      BY <2>1, Zenon DEF AddDoc
  <1>3. Commit(stored, docs) \in [Frames -> Nat]
    BY DEF Commit
  <1>4. DeleteFrom(stored, s, begin, instant) \in [Frames -> Nat]
    BY DEF DeleteFrom
  <1> QED
    BY <1>1, <1>2, <1>3, <1>4

(* A push stores what it sends and loses nothing.                          *)
LEMMA CommitKeeps ==
  ASSUME NEW stored \in [Frames -> Nat], NEW docs \in [Frames -> Nat],
         NEW f \in Frames, stored[f] > 0 \/ docs[f] > 0
  PROVE  Commit(stored, docs)[f] > 0
  BY DEF Commit

LEMMA AddDocAdds ==
  ASSUME NEW docs \in [Frames -> Nat], NEW s \in Scopes, NEW t \in Periods
  PROVE  AddDoc(docs, s, t)[<<s, t>>] > 0
  <1>1. <<s, t>> \in Frames
    BY DEF Frames
  <1>2. AddDoc(docs, s, t)[<<s, t>>] = docs[<<s, t>>] + 1
    BY <1>1 DEF AddDoc
  <1>3. docs[<<s, t>>] \in Nat
    BY <1>1
  <1> QED
    BY <1>2, <1>3

(* What a confined deletion takes is within its bounds.                    *)
LEMMA ResetConfined ==
  ASSUME Confined, NEW r \in Scopes, NEW s \in Scopes, NEW t \in Periods,
         NEW stored, NEW begin, NEW instant,
         DeleteFrom(stored, r, begin, instant)[<<s, t>>] # stored[<<s, t>>]
  PROVE  r = s /\ begin <= t
  <1>1. <<s, t>> \in Frames /\ <<s, t>>[1] = s /\ <<s, t>>[2] = t
    BY DEF Frames
  <1>2. Selects(r, <<s, t>>) /\ InOpenRange(begin, instant, t)
    BY <1>1 DEF DeleteFrom
  <1> QED
    BY <1>1, <1>2 DEF Confined, Selects, InOpenRange

(* check_time_state answers a period of the model or None.                 *)
LEMMA CheckTimeStateType ==
  ASSUME NEW last, NEW instant \in Times
  PROVE  CheckTimeState(last, instant) \in Periods \cup {NoTimestamp}
  BY RatingStoreAssumption DEF CheckTimeState, Due

USE DEF Never, NoTimestamp

-----------------------------------------------------------------------------
(***************************************************************************)
(* Type correctness.                                                       *)
(***************************************************************************)
LEMMA TypeInit == Init => TypeOK
  <1> SUFFICES ASSUME Init PROVE TypeOK
    OBVIOUS
  <1> USE RatingStoreAssumption
  <1>1. 0 \in Times /\ 0 \in Periods
    BY DEF Times, Periods
  <1>2. NoRequest \in Request
    BY <1>1 DEF NoRequest, Request
  <1>3. NoDocs \in [Frames -> Nat]
    BY DEF NoDocs
  <1> QED
    BY <1>1, <1>2, <1>3 DEF Init, TypeOK

(* The actions of a processor.                                             *)
LEMMA TypeProcessor ==
  ASSUME TypeOK, NEW p \in Processors, ProcessorStep(p)
  PROVE  TypeOK'
  <1> USE DEF TypeOK, Goto, Working, processorVars, endpointVars, tableVars,
              historyVars
  <1>1. CASE LoadScopes(p)
    BY <1>1 DEF LoadScopes
  <1>2. CASE EndCycle(p)
    BY <1>2 DEF EndCycle
  <1>3. CASE ProcessScope(p)
    BY <1>3 DEF ProcessScope
  <1>4. CASE Release(p)
    BY <1>4 DEF Release
  <1>5. CASE NextTimestamp(p)
    <2>1. CheckTimeState(lastProcessed[cur[p]], now) \in Periods \cup {NoTimestamp}
      BY CheckTimeStateType
    <2> QED
      BY <1>5, <2>1 DEF NextTimestamp
  <1>6. CASE CheckActive(p)
    BY <1>6 DEF CheckActive
  <1>7. CASE Collect(p)
    BY <1>7 DEF Collect
  <1>8. CASE Push(p)
    <2>1. AddDoc(buffer[p], cur[p], ts[p]) \in [Frames -> Nat]
      BY StoreTypes
    <2>2. frames' \in [Frames -> Nat] /\ NoDocs \in [Frames -> Nat]
      BY <1>8, <2>1, StoreTypes DEF Push
    <2>3. buffer' \in [Processors -> [Frames -> Nat]]
      BY <1>8, <2>2 DEF Push
    <2>4. overrun' \in [Scopes -> Nat]
      <3>1. 0 \in Nat /\ \A s \in Scopes : overrun[s] + 1 \in Nat
        OBVIOUS
      <3>2. overrun \in [Scopes -> Nat]
        OBVIOUS
      <3> QED
        BY <1>8, <3>1, <3>2, Zenon DEF Push
    <2>5. pc' \in [Processors -> Working \cup {"idle", "scan"}]
      BY <1>8 DEF Push
    <2> QED
      BY <1>8, <2>2, <2>3, <2>4, <2>5 DEF Push
  <1>9. CASE SaveState(p)
    BY <1>9 DEF SaveState
  <1>10. ASSUME NEW s \in Scopes, TryLock(p, s)
         PROVE  TypeOK'
    <2>1. UNCHANGED <<lock, pc, cur>>
            \/ /\ lock' = [lock EXCEPT ![s] = p]
               /\ pc' = [pc EXCEPT ![p] = "process"]
               /\ cur' = [cur EXCEPT ![p] = s]
      BY <1>10 DEF TryLock
    <2>2. lock' \in [Scopes -> Processors \cup Endpoints \cup {Free}]
      BY <2>1
    <2>3. /\ pc' \in [Processors -> Working \cup {"idle", "scan"}]
          /\ cur' \in [Processors -> Scopes \cup {NoScope}]
      <3>1. CASE UNCHANGED <<lock, pc, cur>>
        BY <3>1
      <3>2. CASE /\ pc' = [pc EXCEPT ![p] = "process"]
                 /\ cur' = [cur EXCEPT ![p] = s]
        BY <3>2
      <3> QED
        BY <2>1, <3>1, <3>2, Zenon
    <2>4. todo' \in [Processors -> SUBSET Scopes]
      BY <1>10 DEF TryLock
    <2> QED
      BY <1>10, <2>2, <2>3, <2>4 DEF TryLock
  <1> QED
    BY <1>1, <1>2, <1>3, <1>4, <1>5, <1>6, <1>7, <1>8, <1>9, <1>10
       DEF ProcessorStep

(* The faults of a processor.                                              *)
LEMMA SpendType ==
  ASSUME TypeOK, NEW e \in Events, Spend(e)
  PROVE  spent' \in [Events -> Nat] /\ spent'[e] \in Nat
  BY DEF TypeOK, Spend

LEMMA TypeProcessorFault ==
  ASSUME TypeOK, NEW p \in Processors,
         PushFails(p) \/ PushRefused(p) \/ ProcessingFails(p) \/ Crash(p)
  PROVE  TypeOK'
  <1> USE DEF TypeOK, Goto, Working, endpointVars, tableVars, historyVars
  <1>1. spent' \in [Events -> Nat]
    BY SpendType DEF Events, PushFails, PushRefused, ProcessingFails, Crash
  <1>2. AddDoc(buffer[p], cur[p], ts[p]) \in [Frames -> Nat]
    BY StoreTypes
  <1>3. CASE PushFails(p)
    <2>1. Commit(frames, AddDoc(buffer[p], cur[p], ts[p])) \in [Frames -> Nat]
      BY <1>2, StoreTypes
    <2> QED
      BY <1>1, <1>2, <1>3, <2>1 DEF PushFails
  <1>4. CASE PushRefused(p)
    BY <1>1, <1>2, <1>4 DEF PushRefused
  <1>5. CASE ProcessingFails(p)
    BY <1>1, <1>5 DEF ProcessingFails
  <1>6. CASE Crash(p)
    <2>1. NoDocs \in [Frames -> Nat]
      BY DEF NoDocs
    <2> QED
      BY <1>1, <1>6, <2>1 DEF Crash
  <1> QED
    BY <1>3, <1>4, <1>5, <1>6

(* The steps of an endpoint and its fault.                                 *)
LEMMA TypeEndpoint ==
  ASSUME TypeOK, NEW h \in Endpoints, EndpointStep(h) \/ DeleteRefused(h) \/ ResetFails(h)
  PROVE  TypeOK'
  <1> USE DEF TypeOK, Resetting, processorVars, endpointVars, tableVars,
              historyVars
  <1>1. NoRequest \in Request
    BY RatingStoreAssumption DEF NoRequest, Request, Periods
  <1>2. hreq[h].ts \in Periods
    BY DEF Request
  <1>3. CASE DeleteData(h)
    <2>1. frames' \in [Frames -> Nat]
      BY <1>3, StoreTypes DEF DeleteData
    <2> QED
      BY <1>3, <2>1 DEF DeleteData
  <1>4. CASE SetState(h)
    BY <1>2, <1>4 DEF SetState
  <1>5. CASE ReleaseAfterReset(h)
    BY <1>5 DEF ReleaseAfterReset
  <1>6. CASE EndReset(h)
    BY <1>1, <1>6 DEF EndReset
  <1>7. ASSUME NEW m \in requests, TakeRequest(h, m)
        PROVE  TypeOK'
    BY <1>7 DEF TakeRequest
  <1>8. ASSUME NEW s \in Scopes, AcquireForReset(h, s)
        PROVE  TypeOK'
    <2>1. [hreq[h] EXCEPT !.scopes = @ \ {s}] \in Request
      BY DEF Request
    <2>2. hreq' \in [Endpoints -> Request]
      BY <1>8, <2>1 DEF AcquireForReset
    <2> QED
      BY <1>8, <2>2 DEF AcquireForReset
  <1>9. CASE ResetFails(h)
    <2>1. spent' \in [Events -> Nat]
      BY <1>9, SpendType DEF Events, DeleteRefused, ResetFails
    <2> QED
      BY <1>1, <1>9, <2>1 DEF DeleteRefused, ResetFails
  <1>10. CASE DeleteRefused(h)
    <2>1. spent' \in [Events -> Nat]
      BY <1>10, SpendType DEF Events, DeleteRefused
    <2> QED
      BY <1>10, <2>1 DEF DeleteRefused
  <1> QED
    BY <1>3, <1>4, <1>5, <1>6, <1>7, <1>8, <1>9, <1>10 DEF EndpointStep

(* The steps of the API.                                                   *)
LEMMA TypeApi ==
  ASSUME TypeOK, ApiStep
  PROVE  TypeOK'
  <1> USE DEF TypeOK, processorVars, endpointVars, tableVars, historyVars
  <1>1. ASSUME NEW s \in Scopes, Toggle(s)
        PROVE  TypeOK'
    <2>1. spent' \in [Events -> Nat]
      BY <1>1, SpendType DEF Events, Toggle
    <2>2. active' \in [Scopes -> BOOLEAN]
      BY <1>1 DEF Toggle
    <2>3. overrun' \in [Scopes -> Nat]
      BY <1>1 DEF Toggle
    <2> QED
      BY <1>1, <2>1, <2>2, <2>3 DEF Toggle
  <1>2. ASSUME NEW S \in SUBSET Scopes, NEW t \in Periods, RequestReset(S, t)
        PROVE  TypeOK'
    <2>1. spent' \in [Events -> Nat] /\ spent'["reset"] \in Nat
      BY <1>2, SpendType DEF Events, RequestReset
    <2>2. [id |-> spent'["reset"], scopes |-> S, ts |-> t] \in Request
      BY <2>1 DEF Request
    <2> QED
      BY <1>2, <2>1, <2>2 DEF RequestReset
  <1> QED
    BY <1>1, <1>2 DEF ApiStep

LEMMA TypeNext == TypeOK /\ [Next]_vars => TypeOK'
  <1> SUFFICES ASSUME TypeOK, [Next]_vars PROVE TypeOK'
    OBVIOUS
  <1>1. CASE Tick
    BY <1>1, RatingStoreAssumption DEF TypeOK, Tick, Times, processorVars,
       endpointVars, tableVars, historyVars
  <1>2. CASE UNCHANGED vars
    BY <1>2 DEF TypeOK, vars, processorVars, endpointVars, tableVars,
       historyVars
  <1>3. CASE \E p \in Processors : ProcessorStep(p)
    BY <1>3, TypeProcessor
  <1>4. CASE \E h \in Endpoints : EndpointStep(h)
    BY <1>4, TypeEndpoint
  <1>5. CASE ApiStep
    BY <1>5, TypeApi
  <1>6. CASE Fault
    BY <1>6, TypeProcessorFault, TypeEndpoint DEF Fault
  <1> QED
    BY <1>1, <1>2, <1>3, <1>4, <1>5, <1>6 DEF Next

(* Every variable keeps its type, with any number of scopes, processors,   *)
(* endpoints and events.                                                   *)
THEOREM TypeCorrect == Spec => []TypeOK
  BY TypeInit, TypeNext, PTL DEF Spec
-----------------------------------------------------------------------------
(***************************************************************************)
(* Locks.                                                                  *)
(***************************************************************************)
(* Who holds a lock knows of which scope.                                  *)
HasScope ==
  /\ \A p \in Processors : pc[p] \in Working => cur[p] \in Scopes
  /\ \A h \in Endpoints : hpc[h] \in Resetting => hcur[h] \in Scopes

LockInv == TypeOK /\ HasScope /\ LocksAccounted

LEMMA LockInit == Init => HasScope /\ LocksAccounted
  BY ScopeProcessingAssumption
     DEF Init, HasScope, LocksAccounted, Working, Resetting

LEMMA LockProcessor ==
  ASSUME LockInv, NEW p \in Processors,
         \/ ProcessorStep(p)
         \/ PushFails(p) \/ PushRefused(p) \/ ProcessingFails(p) \/ Crash(p)
  PROVE  HasScope' /\ LocksAccounted'
  <1> USE ScopeProcessingAssumption
      DEF LockInv, TypeOK, HasScope, LocksAccounted, Goto, Working, endpointVars
  <1>1. CASE \/ LoadScopes(p) \/ EndCycle(p) \/ ProcessScope(p)
             \/ NextTimestamp(p) \/ CheckActive(p) \/ Collect(p) \/ Push(p)
             \/ SaveState(p) \/ PushFails(p) \/ PushRefused(p)
             \/ ProcessingFails(p)
    <2>1. UNCHANGED <<lock, cur, hpc, hcur>>
      BY <1>1 DEF LoadScopes, EndCycle, ProcessScope, NextTimestamp,
                  CheckActive, Collect, Push, SaveState, PushFails,
                  PushRefused, ProcessingFails
    <2>2. \E x : /\ pc' = [pc EXCEPT ![p] = x]
                 /\ x \in Working <=> pc[p] \in Working
      <3>1. CASE LoadScopes(p) \/ EndCycle(p)
        BY <3>1 DEF LoadScopes, EndCycle
      <3>2. CASE ProcessScope(p) \/ NextTimestamp(p)
        BY <3>2 DEF ProcessScope, NextTimestamp
      <3>3. CASE CheckActive(p) \/ Collect(p) \/ Push(p) \/ SaveState(p)
        BY <3>3 DEF CheckActive, Collect, Push, SaveState
      <3>4. CASE PushFails(p) \/ PushRefused(p) \/ ProcessingFails(p)
        BY <3>4 DEF PushFails, PushRefused, ProcessingFails
      <3> QED
        BY <1>1, <3>1, <3>2, <3>3, <3>4
    <2> QED
      BY <2>1, <2>2
  <1>2. CASE Release(p)
    <2>1. /\ pc[p] = "unlock" /\ cur[p] \in Scopes /\ lock[cur[p]] = p
          /\ pc' = [pc EXCEPT ![p] = "scan"]
          /\ lock' = [lock EXCEPT ![cur[p]] = Free]
          /\ cur' = [cur EXCEPT ![p] = NoScope]
          /\ UNCHANGED <<hpc, hcur>>
      BY <1>2 DEF Release
    <2>2. HasScope'
      BY <2>1
    <2>3. \A s \in Scopes, q \in Processors :
             lock'[s] = q <=> pc'[q] \in Working /\ cur'[q] = s
      BY <2>1
    <2>4. \A s \in Scopes, h \in Endpoints :
             lock'[s] = h <=> hpc'[h] \in Resetting /\ hcur'[h] = s
      BY <2>1
    <2> QED
      BY <2>2, <2>3, <2>4
  <1>3. ASSUME NEW s \in Scopes, TryLock(p, s)
        PROVE  HasScope' /\ LocksAccounted'
    <2>1. UNCHANGED <<hpc, hcur>> /\ pc[p] = "scan"
      BY <1>3 DEF TryLock
    <2>2. CASE UNCHANGED <<lock, pc, cur>>
      BY <2>1, <2>2
    <2>3. CASE /\ lock[s] = Free
               /\ lock' = [lock EXCEPT ![s] = p]
               /\ pc' = [pc EXCEPT ![p] = "process"]
               /\ cur' = [cur EXCEPT ![p] = s]
      <3>1. HasScope'
        BY <2>1, <2>3
      <3>2. \A r \in Scopes, q \in Processors :
               lock'[r] = q <=> pc'[q] \in Working /\ cur'[q] = r
        BY <2>1, <2>3
      <3>3. \A r \in Scopes, h \in Endpoints :
               lock'[r] = h <=> hpc'[h] \in Resetting /\ hcur'[h] = r
        BY <2>1, <2>3
      <3> QED
        BY <3>1, <3>2, <3>3
    <2> QED
      BY <1>3, <2>2, <2>3 DEF TryLock
  <1>4. CASE Crash(p)
    BY <1>4 DEF Crash
  <1> QED
    BY <1>1, <1>2, <1>3, <1>4 DEF ProcessorStep

LEMMA LockEndpoint ==
  ASSUME LockInv, NEW h \in Endpoints, EndpointStep(h) \/ DeleteRefused(h) \/ ResetFails(h)
  PROVE  HasScope' /\ LocksAccounted'
  <1> USE ScopeProcessingAssumption
      DEF LockInv, TypeOK, HasScope, LocksAccounted, Resetting, processorVars
  <1>1. ASSUME \/ DeleteData(h) \/ DeleteRefused(h) \/ SetState(h) \/ EndReset(h)
               \/ \E m \in requests : TakeRequest(h, m)
        PROVE  HasScope' /\ LocksAccounted'
    <2>1. /\ UNCHANGED <<lock, pc, cur, hcur>>
          /\ \A k \in Endpoints : hpc'[k] \in Resetting <=> hpc[k] \in Resetting
      BY <1>1 DEF DeleteData, DeleteRefused, SetState, EndReset, TakeRequest
    <2> QED
      BY <2>1
  <1>2. CASE ReleaseAfterReset(h)
    BY <1>2 DEF ReleaseAfterReset
  <1>3. ASSUME NEW s \in Scopes, AcquireForReset(h, s)
        PROVE  HasScope' /\ LocksAccounted'
    BY <1>3 DEF AcquireForReset
  <1>4. CASE ResetFails(h)
    BY <1>4 DEF DeleteRefused, ResetFails
  <1> QED
    BY <1>1, <1>2, <1>3, <1>4 DEF EndpointStep

LEMMA LockNext == LockInv /\ [Next]_vars => LockInv'
  <1> SUFFICES ASSUME LockInv, [Next]_vars PROVE LockInv'
    OBVIOUS
  <1>1. TypeOK'
    BY TypeNext DEF LockInv
  <1>2. CASE UNCHANGED vars \/ Tick \/ ApiStep
    <2>1. UNCHANGED <<lock, pc, cur, hpc, hcur>>
      BY <1>2 DEF vars, Tick, ApiStep, Toggle, RequestReset, processorVars,
                  endpointVars
    <2> QED
      BY <1>1, <2>1 DEF LockInv, HasScope, LocksAccounted
  <1>3. CASE \E p \in Processors : ProcessorStep(p)
    BY <1>1, <1>3, LockProcessor DEF LockInv
  <1>4. CASE \E h \in Endpoints : EndpointStep(h)
    BY <1>1, <1>4, LockEndpoint DEF LockInv
  <1>5. CASE Fault
    BY <1>1, <1>5, LockProcessor, LockEndpoint DEF Fault, LockInv
  <1> QED
    BY <1>2, <1>3, <1>4, <1>5 DEF Next

LEMMA LocksHold == Spec => []LockInv
  <1>1. Init => LockInv
    BY TypeInit, LockInit DEF LockInv
  <1> QED
    BY <1>1, LockNext, PTL DEF Spec

(* The lock of a scope is held exactly by the process that works on it,    *)
(* whatever crashes and failures: mutual exclusion, and no lock leaks.     *)
THEOREM LocksAreAccounted == Spec => []LocksAccounted
  <1>1. LockInv => LocksAccounted
    BY DEF LockInv
  <1> QED
    BY <1>1, LocksHold, PTL

(* What the locks are for: nobody else works on the scope of p, or of h.   *)
LEMMA Exclusive ==
  ASSUME LockInv
  PROVE  /\ \A p, q \in Processors :
              pc[p] \in Working /\ pc[q] \in Working /\ cur[p] = cur[q] => p = q
         /\ \A p \in Processors, h \in Endpoints :
              pc[p] \in Working /\ hpc[h] \in Resetting => cur[p] # hcur[h]
         /\ \A h, k \in Endpoints :
              hpc[h] \in Resetting /\ hpc[k] \in Resetting /\ hcur[h] = hcur[k]
                => h = k
  BY ScopeProcessingAssumption DEF LockInv, HasScope, LocksAccounted
-----------------------------------------------------------------------------
(***************************************************************************)
(* The period a processor has chosen.                                      *)
(***************************************************************************)
Rating == {"check", "collect", "push", "save"}

PeriodChosen == \A p \in Processors : pc[p] \in Rating => ts[p] \in Periods

WaitInv == LockInv /\ PeriodChosen /\ WaitRespected

(* A period that is due stays due.                                         *)
LEMMA DueStays ==
  ASSUME TypeOK, [Next]_vars, NEW t, Due(t, now)
  PROVE  Due(t, now')
  <1>1. now' = now \/ now' = now + 1
    <2>1. CASE Tick
      BY <2>1 DEF Tick
    <2>2. CASE Next /\ ~Tick
      BY <2>2 DEF Next, ProcessorStep, EndpointStep, ApiStep, Fault,
         LoadScopes, TryLock, EndCycle, ProcessScope, Release, NextTimestamp,
         CheckActive, Collect, Push, PushFails, PushRefused, SaveState,
         ProcessingFails, Crash, Toggle, RequestReset, TakeRequest,
         AcquireForReset, DeleteData, SetState, ReleaseAfterReset, EndReset,
         DeleteRefused, ResetFails
    <2>3. CASE UNCHANGED vars
      BY <2>3 DEF vars
    <2> QED
      BY <2>1, <2>2, <2>3
  <1>2. now \in Int
    BY RatingStoreAssumption DEF TypeOK, Times
  <1>3. PICK k \in Int : k = (t + WaitPeriods) * TicksPerPeriod
    BY RatingStoreAssumption DEF Due, Periods
  <1>4. t \in Periods /\ k < now
    BY <1>3 DEF Due
  <1>5. k < now'
    BY <1>1, <1>2, <1>4
  <1> QED
    BY <1>3, <1>4, <1>5 DEF Due

(* The row of a scope a processor works on is written by nobody else.      *)
LEMMA RowInHand ==
  ASSUME LockInv, NEW p \in Processors, pc[p] \in Working,
         \/ \E q \in Processors \ {p} : ProcessorStep(q)
         \/ \E h \in Endpoints : EndpointStep(h)
         \/ ApiStep \/ Fault \/ Tick
  PROVE  lastProcessed'[cur[p]] = lastProcessed[cur[p]]
  <1>1. ASSUME NEW q \in Processors \ {p}, ProcessorStep(q)
        PROVE  lastProcessed'[cur[p]] = lastProcessed[cur[p]]
    <2>1. CASE SaveState(q)
      <3>1. cur[q] # cur[p] /\ cur[p] \in Scopes
        BY <1>1, <2>1, Exclusive DEF SaveState, Goto, Working, LockInv, HasScope
      <3> QED
        BY <2>1, <3>1 DEF SaveState, LockInv, TypeOK
    <2>2. CASE ~SaveState(q)
      BY <1>1, <2>2 DEF ProcessorStep, LoadScopes, TryLock, EndCycle,
         ProcessScope, Release, NextTimestamp, CheckActive, Collect, Push,
         tableVars
    <2> QED
      BY <2>1, <2>2
  <1>2. ASSUME NEW h \in Endpoints, EndpointStep(h)
        PROVE  lastProcessed'[cur[p]] = lastProcessed[cur[p]]
    <2>1. CASE SetState(h)
      <3>1. hcur[h] # cur[p] /\ cur[p] \in Scopes
        BY <2>1, Exclusive DEF SetState, Resetting, LockInv, HasScope
      <3> QED
        BY <2>1, <3>1 DEF SetState, LockInv, TypeOK
    <2>2. CASE ~SetState(h)
      BY <1>2, <2>2 DEF EndpointStep, TakeRequest, AcquireForReset, DeleteData,
         ReleaseAfterReset, EndReset, tableVars
    <2> QED
      BY <2>1, <2>2
  <1>3. CASE ApiStep \/ Fault \/ Tick
    BY <1>3 DEF ApiStep, Fault, Tick, Toggle, RequestReset, PushFails,
       PushRefused, ProcessingFails, Crash, DeleteRefused, ResetFails, tableVars
  <1> QED
    BY <1>1, <1>2, <1>3

(* What a process does to its own step, scope and period, others do not.   *)
LEMMA LocalsInHand ==
  ASSUME TypeOK, NEW p \in Processors,
         \/ \E q \in Processors \ {p} :
              ProcessorStep(q) \/ PushFails(q) \/ PushRefused(q)
                \/ ProcessingFails(q) \/ Crash(q)
         \/ \E h \in Endpoints : EndpointStep(h) \/ DeleteRefused(h) \/ ResetFails(h)
         \/ ApiStep \/ Tick
  PROVE  pc'[p] = pc[p] /\ cur'[p] = cur[p] /\ ts'[p] = ts[p]
  <1> USE DEF TypeOK, Goto, processorVars
  <1>1. ASSUME NEW q \in Processors \ {p}, ProcessorStep(q)
        PROVE  pc'[p] = pc[p] /\ cur'[p] = cur[p] /\ ts'[p] = ts[p]
    BY <1>1 DEF ProcessorStep, LoadScopes, TryLock, EndCycle, ProcessScope,
       Release, NextTimestamp, CheckActive, Collect, Push, SaveState
  <1>2. ASSUME NEW q \in Processors \ {p},
               PushFails(q) \/ PushRefused(q) \/ ProcessingFails(q) \/ Crash(q)
        PROVE  pc'[p] = pc[p] /\ cur'[p] = cur[p] /\ ts'[p] = ts[p]
    BY <1>2 DEF PushFails, PushRefused, ProcessingFails, Crash
  <1>3. ASSUME NEW h \in Endpoints, EndpointStep(h) \/ DeleteRefused(h) \/ ResetFails(h)
        PROVE  pc'[p] = pc[p] /\ cur'[p] = cur[p] /\ ts'[p] = ts[p]
    BY <1>3 DEF EndpointStep, DeleteRefused, ResetFails, TakeRequest,
       AcquireForReset, DeleteData, SetState, ReleaseAfterReset, EndReset
  <1>4. CASE ApiStep \/ Tick
    BY <1>4 DEF ApiStep, Tick, Toggle, RequestReset
  <1> QED
    BY <1>1, <1>2, <1>3, <1>4

LEMMA WaitInit == Init => PeriodChosen /\ WaitRespected
  BY DEF Init, PeriodChosen, WaitRespected, Rating

LEMMA WaitNext == WaitInv /\ [Next]_vars => WaitInv'
  <1> SUFFICES ASSUME WaitInv, [Next]_vars PROVE WaitInv'
    OBVIOUS
  <1>1. LockInv' /\ LockInv /\ TypeOK
    BY LockNext DEF WaitInv, LockInv
  <1> SUFFICES ASSUME NEW p \in Processors, pc'[p] \in Rating
               PROVE  /\ ts'[p] \in Periods
                      /\ Known(cur[p])' => /\ Due(ts'[p], now')
                                           /\ ts'[p] = lastProcessed'[cur'[p]] + 1
    BY <1>1 DEF WaitInv, PeriodChosen, WaitRespected, Rating
  (* p kept its period: nobody has touched the row, and time only passed.  *)
  <1>2. ASSUME pc[p] \in Rating, cur'[p] = cur[p], ts'[p] = ts[p],
               lastProcessed'[cur[p]] = lastProcessed[cur[p]]
        PROVE  /\ ts'[p] \in Periods
               /\ Known(cur[p])' => /\ Due(ts'[p], now')
                                    /\ ts'[p] = lastProcessed'[cur'[p]] + 1
    <2>1. ts'[p] \in Periods
      BY <1>2 DEF WaitInv, PeriodChosen
    <2>2. ASSUME Known(cur[p])'
          PROVE  Due(ts[p], now) /\ ts[p] = lastProcessed[cur[p]] + 1
      BY <1>2, <2>2 DEF WaitInv, WaitRespected, Known, Rating
    <2> QED
      BY <1>1, <1>2, <2>1, <2>2, DueStays
  <1>3. CASE \/ \E q \in Processors \ {p} : ProcessorStep(q)
             \/ \E h \in Endpoints : EndpointStep(h)
             \/ ApiStep \/ Tick
    BY <1>1, <1>2, <1>3, RowInHand, LocalsInHand DEF Rating, Working
  <1>4. CASE Fault
    <2>1. CASE PushFails(p) \/ PushRefused(p) \/ ProcessingFails(p) \/ Crash(p)
      <3>1. PushRefused(p)
        BY <1>1, <2>1 DEF PushFails, ProcessingFails, Crash, Goto, TypeOK,
           Rating
      <3>2. /\ pc[p] = "push" /\ cur'[p] = cur[p] /\ ts'[p] = ts[p]
            /\ lastProcessed' = lastProcessed
        BY <3>1 DEF PushRefused, Goto, tableVars
      <3> QED
        BY <1>2, <3>2 DEF Rating
    <2>2. CASE ~(PushFails(p) \/ PushRefused(p) \/ ProcessingFails(p) \/ Crash(p))
      <3>1. pc'[p] = pc[p] /\ cur'[p] = cur[p] /\ ts'[p] = ts[p]
        BY <1>1, <1>4, <2>2, LocalsInHand DEF Fault
      <3> QED
        BY <1>1, <1>2, <1>4, <3>1, RowInHand DEF Rating, Working
    <2> QED
      BY <2>1, <2>2
  <1>5. CASE ProcessorStep(p)
    <2>1. CASE NextTimestamp(p)
      <3> DEFINE t == CheckTimeState(lastProcessed[cur[p]], now)
      <3>1. /\ ts'[p] = t /\ t # NoTimestamp /\ cur'[p] = cur[p]
            /\ lastProcessed' = lastProcessed /\ now' = now
        BY <1>1, <2>1 DEF NextTimestamp, Goto, Rating, TypeOK, tableVars
      <3>2. t \in Periods
        BY <1>1, <3>1, CheckTimeStateType DEF TypeOK
      <3>3. ASSUME Known(cur[p])
            PROVE  Due(t, now) /\ t = lastProcessed[cur[p]] + 1
        BY <3>1, <3>3 DEF CheckTimeState, Known
      <3> QED
        BY <3>1, <3>2, <3>3 DEF Known
    <2>2. CASE CheckActive(p) \/ Collect(p) \/ Push(p)
      <3>1. /\ pc[p] \in Rating /\ cur' = cur /\ ts' = ts
            /\ lastProcessed' = lastProcessed
        BY <2>2 DEF CheckActive, Collect, Push, Goto, Rating, tableVars
      <3> QED
        BY <1>2, <3>1
    <2>3. CASE \/ LoadScopes(p) \/ EndCycle(p) \/ ProcessScope(p)
               \/ Release(p) \/ SaveState(p)
               \/ \E s \in Scopes : TryLock(p, s)
      BY <1>1, <2>3 DEF LoadScopes, EndCycle, ProcessScope, Release, SaveState,
         TryLock, Goto, TypeOK, Rating
    <2> QED
      BY <1>5, <2>1, <2>2, <2>3 DEF ProcessorStep
  <1>6. CASE UNCHANGED vars
    BY <1>2, <1>6 DEF vars, processorVars, tableVars
  <1> QED
    BY <1>3, <1>4, <1>5, <1>6 DEF Next

LEMMA WaitHolds == Spec => []WaitInv
  <1>1. Init => WaitInv
    BY TypeInit, LockInit, WaitInit DEF WaitInv, LockInv
  <1> QED
    BY <1>1, WaitNext, PTL DEF Spec

(* A period of a known scope is collected only when it and the waiting     *)
(* periods are past, and it is the one after last_processed_timestamp: the *)
(* choice of next_timestamp_to_process is never stale when it is used.     *)
THEOREM WaitIsRespected == Spec => []WaitRespected
  <1>1. WaitInv => WaitRespected
    BY DEF WaitInv
  <1> QED
    BY <1>1, WaitHolds, PTL
-----------------------------------------------------------------------------
(***************************************************************************)
(* What counts as rated is stored.  The invariant adds to NoGap the two    *)
(* intermediate states of the code: a period pushed and not recorded yet,  *)
(* and a scope whose data a reset has deleted and whose row it has not     *)
(* set back yet.                                                           *)
(***************************************************************************)
PushedBeforeSave ==
  \A p \in Processors :
    pc[p] = "save" /\ <<cur[p], ts[p]>> \notin Idle
      => frames[<<cur[p], ts[p]>>] > 0

GivenUpBeforeSet ==
  \A h \in Endpoints :
    hpc[h] = "set" => {u \in Periods : hreq[h].ts <= u} \subseteq exempt[hcur[h]]

GapInv == WaitInv /\ PushedBeforeSave /\ GivenUpBeforeSet /\ NoGap

(* A stored frame stays until a reset deletes it.                          *)
LEMMA FramesKept ==
  ASSUME LockInv, [Next]_vars, Confined,
         NEW s \in Scopes, NEW t \in Periods, frames[<<s, t>>] > 0,
         \A h \in Endpoints : DeleteData(h) => ~(hcur[h] = s /\ hreq[h].ts <= t)
  PROVE  frames'[<<s, t>>] > 0
  <1>1. <<s, t>> \in Frames /\ TypeOK
    BY DEF Frames, LockInv
  <1>2. ASSUME NEW p \in Processors, Push(p) \/ PushFails(p)
        PROVE  frames'[<<s, t>>] > 0
    <2>1. AddDoc(buffer[p], cur[p], ts[p]) \in [Frames -> Nat]
      BY <1>1, StoreTypes DEF TypeOK
    <2>2. Commit(frames, AddDoc(buffer[p], cur[p], ts[p]))[<<s, t>>] > 0
      BY <1>1, <2>1, CommitKeeps DEF TypeOK
    <2> QED
      BY <1>2, <2>2 DEF Push, PushFails
  <1>3. ASSUME NEW h \in Endpoints, DeleteData(h)
        PROVE  frames'[<<s, t>>] > 0
    <2>1. hcur[h] \in Scopes /\ frames' = DeleteFrom(frames, hcur[h], hreq[h].ts, now)
      BY <1>3 DEF DeleteData, LockInv, HasScope, Resetting
    <2>2. ASSUME DeleteFrom(frames, hcur[h], hreq[h].ts, now)[<<s, t>>]
                   # frames[<<s, t>>]
          PROVE  hcur[h] = s /\ hreq[h].ts <= t
      BY <2>1, <2>2, ResetConfined
    <2> QED
      BY <1>3, <2>1, <2>2
  <1>4. CASE frames' = frames
    BY <1>4
  <1>5. \/ frames' = frames
        \/ \E p \in Processors : Push(p) \/ PushFails(p)
        \/ \E h \in Endpoints : DeleteData(h)
    BY DEF Next, ProcessorStep, EndpointStep, ApiStep, Fault, Tick, vars,
       LoadScopes, TryLock, EndCycle, ProcessScope, Release, NextTimestamp,
       CheckActive, Collect, PushRefused, SaveState, ProcessingFails, Crash,
       Toggle, RequestReset, TakeRequest, AcquireForReset, SetState,
       ReleaseAfterReset, EndReset, DeleteRefused, ResetFails
  <1> QED
    BY <1>2, <1>3, <1>4, <1>5

(* Who moves the mark of a scope, or takes periods out of exempt.          *)
LEMMA MarkMoves ==
  ASSUME TypeOK, [Next]_vars, NEW s \in Scopes
  PROVE  \/ /\ lastProcessed'[s] = lastProcessed[s]
            /\ exempt[s] \subseteq exempt'[s]
         \/ \E p \in Processors : SaveState(p) /\ cur[p] = s
         \/ \E h \in Endpoints : SetState(h) /\ hcur[h] = s
  <1>1. ASSUME NEW p \in Processors, SaveState(p), cur[p] # s
        PROVE  lastProcessed'[s] = lastProcessed[s] /\ exempt'[s] = exempt[s]
    BY <1>1 DEF SaveState, TypeOK
  <1>2. ASSUME NEW h \in Endpoints, SetState(h), hcur[h] # s
        PROVE  lastProcessed'[s] = lastProcessed[s] /\ exempt'[s] = exempt[s]
    BY <1>2 DEF SetState, TypeOK
  <1>3. ASSUME NEW h \in Endpoints, DeleteData(h) \/ DeleteRefused(h)
        PROVE  lastProcessed'[s] = lastProcessed[s] /\ exempt[s] \subseteq exempt'[s]
    <2>1. lastProcessed' = lastProcessed
      BY <1>3 DEF DeleteData, DeleteRefused, tableVars
    <2>2. CASE DeleteData(h)
      BY <2>1, <2>2 DEF DeleteData, TypeOK
    <2>3. CASE DeleteRefused(h)
      BY <2>1, <2>3 DEF DeleteRefused, TypeOK
    <2> QED
      BY <1>3, <2>2, <2>3
  <1>4. \/ UNCHANGED <<lastProcessed, exempt>>
        \/ \E p \in Processors : SaveState(p)
        \/ \E h \in Endpoints : SetState(h) \/ DeleteData(h) \/ DeleteRefused(h)
    BY DEF Next, ProcessorStep, EndpointStep, ApiStep, Fault, Tick, vars,
       LoadScopes, TryLock, EndCycle, ProcessScope, Release, NextTimestamp,
       CheckActive, Collect, Push, PushFails, PushRefused, ProcessingFails,
       Crash, Toggle, RequestReset, TakeRequest, AcquireForReset,
       ReleaseAfterReset, EndReset, DeleteRefused, ResetFails, tableVars,
       historyVars
  <1> QED
    BY <1>1, <1>2, <1>3, <1>4

LEMMA GapNoGap ==
  ASSUME GapInv, [Next]_vars, Confined
  PROVE  NoGap'
  <1> SUFFICES ASSUME NEW s \in Scopes, NEW t \in Periods,
                      t <= lastProcessed'[s], t \notin exempt'[s],
                      <<s, t>> \notin Idle
               PROVE  frames'[<<s, t>>] > 0
    BY DEF NoGap
  <1>1. TypeOK /\ LockInv
    BY DEF GapInv, WaitInv, LockInv
  <1>2. t \in Int /\ lastProcessed[s] \in Int
    BY <1>1, RatingStoreAssumption DEF TypeOK, Periods
  <1>3. CASE lastProcessed'[s] = lastProcessed[s] /\ exempt[s] \subseteq exempt'[s]
    <2>1. frames[<<s, t>>] > 0
      BY <1>3 DEF GapInv, NoGap
    <2>2. ASSUME NEW h \in Endpoints, DeleteData(h), hcur[h] = s, hreq[h].ts <= t
          PROVE  FALSE
      BY <1>1, <2>2 DEF DeleteData, TypeOK
    <2> QED
      BY <1>1, <2>1, <2>2, FramesKept
  <1>4. ASSUME NEW p \in Processors, SaveState(p), cur[p] = s
        PROVE  frames'[<<s, t>>] > 0
    <2>1. /\ frames' = frames
          /\ pc[p] = "save" /\ ts[p] \in Periods
          /\ lastProcessed'[s] = ts[p]
          /\ exempt'[s] = (IF Known(s) THEN exempt[s]
                           ELSE {u \in Periods : u < ts[p]}) \ {ts[p]}
      BY <1>1, <1>4 DEF SaveState, Goto, GapInv, WaitInv, PeriodChosen, Rating,
                        TypeOK
    <2>2. CASE t = ts[p]
      BY <1>4, <2>1, <2>2 DEF GapInv, PushedBeforeSave
    <2>3. CASE t # ts[p]
      <3>1. ts[p] \in Int /\ t < ts[p]
        BY <1>2, <2>1, <2>3, RatingStoreAssumption DEF Periods
      <3>2. Known(s) /\ t \notin exempt[s]
        BY <2>1, <2>3, <3>1
      <3>3. ts[p] = lastProcessed[s] + 1
        BY <1>4, <2>1, <3>2 DEF GapInv, WaitInv, WaitRespected
      <3>4. t <= lastProcessed[s]
        BY <1>2, <3>1, <3>3
      <3> QED
        BY <2>1, <3>2, <3>4 DEF GapInv, NoGap
    <2> QED
      BY <2>2, <2>3
  <1>5. ASSUME NEW h \in Endpoints, SetState(h), hcur[h] = s
        PROVE  frames'[<<s, t>>] > 0
    <2> DEFINE r == hreq[h].ts
    <2>1. /\ frames' = frames
          /\ hpc[h] = "set" /\ r \in Periods
          /\ lastProcessed'[s] = r
          /\ exempt'[s] = {u \in exempt[s] : u <= r}
                          \cup {u \in Periods : lastProcessed[s] < u /\ u < r}
      BY <1>1, <1>5 DEF SetState, TypeOK, Request
    <2>2. r \in Int /\ r \in exempt[s]
      BY <1>5, <2>1, RatingStoreAssumption
         DEF GapInv, GivenUpBeforeSet, Periods
    <2>3. t < r /\ t \notin exempt[s]
      BY <1>2, <2>1, <2>2
    <2>4. t <= lastProcessed[s]
      BY <1>2, <2>1, <2>2, <2>3
    <2> QED
      BY <2>1, <2>3, <2>4 DEF GapInv, NoGap
  <1> QED
    BY <1>1, <1>3, <1>4, <1>5, MarkMoves

(* How a processor comes to record a period.                               *)
LEMMA ReachesSave ==
  ASSUME TypeOK, [Next]_vars, NEW p \in Processors, pc'[p] = "save"
  PROVE  /\ cur'[p] = cur[p] /\ ts'[p] = ts[p]
         /\ \/ pc[p] = "save"
            \/ Push(p)
            \/ pc[p] = "collect" /\ <<cur[p], ts[p]>> \in Idle
            \/ Backend = "loki"
  <1>1. CASE \/ \E q \in Processors \ {p} :
                  \/ ProcessorStep(q)
                  \/ PushFails(q) \/ PushRefused(q) \/ ProcessingFails(q) \/ Crash(q)
             \/ \E h \in Endpoints : EndpointStep(h) \/ DeleteRefused(h) \/ ResetFails(h)
             \/ ApiStep \/ Tick
    BY <1>1, LocalsInHand
  <1>2. CASE PushFails(p) \/ PushRefused(p) \/ ProcessingFails(p) \/ Crash(p)
    BY <1>2 DEF PushFails, PushRefused, ProcessingFails, Crash, Goto, TypeOK
  <1>3. CASE ProcessorStep(p)
    BY <1>3 DEF ProcessorStep, LoadScopes, EndCycle, ProcessScope, Release,
       NextTimestamp, CheckActive, Collect, Push, SaveState, TryLock, Goto,
       TypeOK
  <1>4. CASE UNCHANGED vars
    BY <1>4 DEF vars, processorVars
  <1> QED
    BY <1>1, <1>2, <1>3, <1>4 DEF Next, Fault

(* A push stores the period in hand.                                       *)
LEMMA PushStores ==
  ASSUME WaitInv, NEW p \in Processors, Push(p)
  PROVE  frames'[<<cur[p], ts[p]>>] > 0
  <1>1. TypeOK /\ LockInv
    BY DEF WaitInv, LockInv
  <1>2. /\ pc[p] = "push"
        /\ frames' = Commit(frames, AddDoc(buffer[p], cur[p], ts[p]))
    BY DEF Push, Goto
  <1>3. cur[p] \in Scopes /\ ts[p] \in Periods
    BY <1>1, <1>2 DEF LockInv, HasScope, Working, WaitInv, PeriodChosen, Rating
  <1>4. /\ AddDoc(buffer[p], cur[p], ts[p]) \in [Frames -> Nat]
        /\ AddDoc(buffer[p], cur[p], ts[p])[<<cur[p], ts[p]>>] > 0
    BY <1>1, <1>3, StoreTypes, AddDocAdds DEF TypeOK
  <1>5. <<cur[p], ts[p]>> \in Frames
    BY <1>3 DEF Frames
  <1> QED
    BY <1>1, <1>2, <1>4, <1>5, CommitKeeps DEF TypeOK

LEMMA GapPushed ==
  ASSUME GapInv, [Next]_vars, Confined
  PROVE  PushedBeforeSave'
  <1> SUFFICES ASSUME NEW p \in Processors, pc'[p] = "save",
                      <<cur'[p], ts'[p]>> \notin Idle
               PROVE  frames'[<<cur'[p], ts'[p]>>] > 0
    BY DEF PushedBeforeSave
  <1>1. TypeOK /\ LockInv /\ WaitInv
    BY DEF GapInv, WaitInv, LockInv
  <1>2. cur'[p] = cur[p] /\ ts'[p] = ts[p]
    BY <1>1, ReachesSave
  <1>3. CASE pc[p] = "save"
    <2>1. cur[p] \in Scopes /\ ts[p] \in Periods
      BY <1>1, <1>3 DEF LockInv, HasScope, Working, WaitInv, PeriodChosen,
         Rating
    <2>2. frames[<<cur[p], ts[p]>>] > 0
      BY <1>2, <1>3 DEF GapInv, PushedBeforeSave
    <2>3. ASSUME NEW h \in Endpoints, DeleteData(h)
          PROVE  hcur[h] # cur[p]
      BY <1>1, <1>3, <2>3, Exclusive DEF DeleteData, Working, Resetting
    <2> QED
      BY <1>1, <1>2, <2>1, <2>2, <2>3, FramesKept
  <1>4. CASE Push(p)
    BY <1>1, <1>2, <1>4, PushStores
  <1> QED
    BY <1>1, <1>2, <1>3, <1>4, ReachesSave DEF Confined

LEMMA GapGivenUp ==
  ASSUME LockInv, GivenUpBeforeSet, [Next]_vars
  PROVE  GivenUpBeforeSet'
  <1> SUFFICES ASSUME NEW h \in Endpoints, hpc'[h] = "set"
               PROVE  {u \in Periods : hreq'[h].ts <= u} \subseteq exempt'[hcur'[h]]
    BY DEF GivenUpBeforeSet
  <1>1. TypeOK /\ LockInv
    BY DEF LockInv
  <1>2. CASE DeleteData(h) \/ DeleteRefused(h)
    <2>1. hcur'[h] = hcur[h] /\ hreq'[h] = hreq[h] /\ hcur[h] \in Scopes
      BY <1>1, <1>2 DEF DeleteData, DeleteRefused, LockInv, HasScope, Resetting
    <2>2. exempt'[hcur[h]] = exempt[hcur[h]] \cup {u \in Periods : hreq[h].ts <= u}
      BY <1>1, <1>2, <2>1 DEF DeleteData, DeleteRefused, TypeOK
    <2> QED
      BY <2>1, <2>2
  <1>3. CASE ~DeleteData(h) /\ ~DeleteRefused(h)
    <2>1. hpc[h] = "set" /\ hcur'[h] = hcur[h] /\ hreq'[h] = hreq[h]
      <3>1. CASE \E k \in Endpoints : EndpointStep(k) \/ DeleteRefused(k) \/ ResetFails(k)
        BY <1>1, <1>3, <3>1 DEF EndpointStep, DeleteRefused, ResetFails,
           SetState, ReleaseAfterReset, EndReset, TakeRequest, AcquireForReset,
           DeleteData, TypeOK
      <3>2. CASE \E p \in Processors :
                   \/ ProcessorStep(p)
                   \/ PushFails(p) \/ PushRefused(p) \/ ProcessingFails(p)
                   \/ Crash(p)
        BY <3>2 DEF ProcessorStep, LoadScopes, EndCycle, ProcessScope, Release,
           NextTimestamp, CheckActive, Collect, Push, SaveState, TryLock,
           PushFails, PushRefused, ProcessingFails, Crash, endpointVars
      <3>3. CASE ApiStep \/ Tick \/ UNCHANGED vars
        BY <3>3 DEF ApiStep, Toggle, RequestReset, Tick, vars, endpointVars
      <3> QED
        BY <3>1, <3>2, <3>3 DEF Next, Fault
    <2>2. hcur[h] \in Scopes
      BY <1>1, <2>1 DEF LockInv, HasScope, Resetting
    <2>3. ~ \E p \in Processors : SaveState(p) /\ cur[p] = hcur[h]
      BY <1>1, <2>1, Exclusive DEF SaveState, Goto, Working, Resetting
    <2>4. ~ \E k \in Endpoints : SetState(k) /\ hcur[k] = hcur[h]
      <3> SUFFICES ASSUME NEW k \in Endpoints, SetState(k), hcur[k] = hcur[h]
                   PROVE  FALSE
        OBVIOUS
      <3>1. k = h
        BY <1>1, <2>1, Exclusive DEF SetState, Resetting
      <3> QED
        BY <1>1, <3>1 DEF SetState, TypeOK
    <2>5. exempt[hcur[h]] \subseteq exempt'[hcur[h]]
      BY <1>1, <2>2, <2>3, <2>4, MarkMoves
    <2> QED
      BY <2>1, <2>5 DEF GivenUpBeforeSet
  <1> QED
    BY <1>2, <1>3

LEMMA GapInit == Init => GapInv
  <1> SUFFICES ASSUME Init PROVE GapInv
    OBVIOUS
  <1>1. WaitInv
    BY TypeInit, LockInit, WaitInit DEF WaitInv, LockInv
  <1>2. PushedBeforeSave /\ GivenUpBeforeSet
    BY DEF Init, PushedBeforeSave, GivenUpBeforeSet
  <1>3. NoGap
    BY RatingStoreAssumption DEF Init, NoGap, Periods
  <1> QED
    BY <1>1, <1>2, <1>3 DEF GapInv

LEMMA GapHolds ==
  ASSUME Confined
  PROVE  Spec => []GapInv
  <1>1. GapInv /\ [Next]_vars => GapInv'
    <2>1. GapInv => WaitInv /\ LockInv
      BY DEF GapInv, WaitInv
    <2> QED
      BY <2>1, WaitNext, GapPushed, GapGivenUp, GapNoGap DEF GapInv
  <1> QED
    BY <1>1, GapInit, PTL DEF Spec

(* With a backend that confines a deletion to what was asked and reports a *)
(* failed push, every period up to last_processed_timestamp that has usage *)
(* is stored, those a reset has given up apart, whatever crashes, failed   *)
(* pushes and interrupted resets came before.                              *)
THEOREM NothingIsMissing ==
  ASSUME Confined
  PROVE  Spec => []NoGap
  <1>1. GapInv => NoGap
    BY DEF GapInv
  <1> QED
    BY <1>1, GapHolds, PTL
-----------------------------------------------------------------------------
(***************************************************************************)
(* Deactivation.                                                           *)
(***************************************************************************)
(* Only a scope with a row can be deactivated, and one that has had the    *)
(* period a worker had begun has no worker left that read the old flag.    *)
InactiveKnown == \A s \in Scopes : ~active[s] => Known(s)

OverrunSpent ==
  \A s \in Scopes : overrun[s] # 0 =>
    /\ ~active[s] /\ overrun[s] = 1
    /\ \A p \in Processors : pc[p] \in {"collect", "push"} => cur[p] # s

OverrunInv == WaitInv /\ InactiveKnown /\ OverrunSpent

(* A row is never deleted.                                                 *)
LEMMA KnownStays ==
  ASSUME WaitInv, [Next]_vars, NEW s \in Scopes, Known(s)
  PROVE  Known(s)'
  <1>1. TypeOK
    BY DEF WaitInv, LockInv
  <1>2. ASSUME NEW p \in Processors, SaveState(p), cur[p] = s
        PROVE  Known(s)'
    <2>1. lastProcessed'[s] = ts[p] /\ ts[p] \in Periods
      BY <1>1, <1>2 DEF SaveState, Goto, TypeOK, WaitInv, PeriodChosen, Rating
    <2> QED
      BY <2>1, RatingStoreAssumption DEF Known, Periods
  <1>3. ASSUME NEW h \in Endpoints, SetState(h), hcur[h] = s
        PROVE  Known(s)'
    <2>1. lastProcessed'[s] = hreq[h].ts /\ hreq[h].ts \in Periods
      BY <1>1, <1>3 DEF SetState, TypeOK, Request
    <2> QED
      BY <2>1, RatingStoreAssumption DEF Known, Periods
  <1>4. CASE lastProcessed'[s] = lastProcessed[s]
    BY <1>4 DEF Known
  <1> QED
    BY <1>1, <1>2, <1>3, <1>4, MarkMoves

LEMMA OverrunNext == OverrunInv /\ [Next]_vars => OverrunInv'
  <1> SUFFICES ASSUME OverrunInv, [Next]_vars PROVE OverrunInv'
    OBVIOUS
  <1>1. WaitInv /\ WaitInv' /\ LockInv /\ TypeOK
    BY WaitNext DEF OverrunInv, WaitInv, LockInv
  <1>2. \/ UNCHANGED <<active, overrun>>
        \/ \E p \in Processors : Push(p)
        \/ \E s \in Scopes : Toggle(s)
    BY DEF Next, ProcessorStep, EndpointStep, ApiStep, Fault, Tick, vars,
       LoadScopes, TryLock, EndCycle, ProcessScope, Release, NextTimestamp,
       CheckActive, Collect, PushFails, PushRefused, SaveState,
       ProcessingFails, Crash, RequestReset, TakeRequest, AcquireForReset,
       DeleteData, SetState, ReleaseAfterReset, EndReset, DeleteRefused,
       ResetFails, tableVars, historyVars
  <1>3. InactiveKnown'
    <2> SUFFICES ASSUME NEW s \in Scopes, ~active'[s] PROVE Known(s)'
      BY DEF InactiveKnown
    <2>1. Known(s)
      <3>1. CASE \E r \in Scopes : Toggle(r)
        BY <1>1, <3>1 DEF Toggle, TypeOK, OverrunInv, InactiveKnown
      <3>2. CASE active' = active
        BY <3>2 DEF OverrunInv, InactiveKnown
      <3> QED
        BY <1>2, <3>1, <3>2 DEF Push, tableVars
    <2> QED
      BY <1>1, <2>1, KnownStays
  <1>4. OverrunSpent'
    <2> SUFFICES ASSUME NEW s \in Scopes, overrun'[s] # 0
                 PROVE  /\ ~active'[s] /\ overrun'[s] = 1
                        /\ \A p \in Processors :
                             pc'[p] \in {"collect", "push"} => cur'[p] # s
      BY DEF OverrunSpent
    (* Nothing happened to s: who works on it has read the flag before.    *)
    <2>1. ASSUME active'[s] = active[s], overrun'[s] = overrun[s]
          PROVE  /\ ~active'[s] /\ overrun'[s] = 1
                 /\ \A p \in Processors :
                      pc'[p] \in {"collect", "push"} => cur'[p] # s
      <3>1. /\ ~active[s] /\ overrun[s] = 1 /\ Known(s)
            /\ \A p \in Processors : pc[p] \in {"collect", "push"} => cur[p] # s
        BY <2>1 DEF OverrunInv, OverrunSpent, InactiveKnown
      <3>2. ASSUME NEW p \in Processors,
                   pc'[p] \in {"collect", "push"}, cur'[p] = s
            PROVE  FALSE
        <4>1. CASE \/ \E q \in Processors \ {p} :
                        \/ ProcessorStep(q)
                        \/ PushFails(q) \/ PushRefused(q)
                        \/ ProcessingFails(q) \/ Crash(q)
                   \/ \E h \in Endpoints : EndpointStep(h) \/ DeleteRefused(h) \/ ResetFails(h)
                   \/ ApiStep \/ Tick
          BY <1>1, <3>1, <3>2, <4>1, LocalsInHand
        <4>2. CASE PushFails(p) \/ PushRefused(p) \/ ProcessingFails(p) \/ Crash(p)
          BY <1>1, <3>2, <4>2 DEF PushFails, PushRefused, ProcessingFails,
             Crash, Goto, TypeOK
        <4>3. CASE CheckActive(p)
          BY <1>1, <3>1, <3>2, <4>3 DEF CheckActive, Goto, TypeOK
        <4>4. CASE Collect(p)
          BY <1>1, <3>1, <3>2, <4>4 DEF Collect, Goto, TypeOK
        <4>5. CASE ProcessorStep(p) /\ ~CheckActive(p) /\ ~Collect(p)
          BY <1>1, <3>2, <4>5 DEF ProcessorStep, LoadScopes, EndCycle,
             ProcessScope, Release, NextTimestamp, Push, SaveState, TryLock,
             Goto, TypeOK
        <4>6. CASE UNCHANGED vars
          BY <3>1, <3>2, <4>6 DEF vars, processorVars
        <4> QED
          BY <4>1, <4>2, <4>3, <4>4, <4>5, <4>6 DEF Next, Fault
      <3> QED
        BY <2>1, <3>1, <3>2
    <2>2. ASSUME NEW p \in Processors, Push(p)
          PROVE  /\ ~active'[s] /\ overrun'[s] = 1
                 /\ \A q \in Processors :
                      pc'[q] \in {"collect", "push"} => cur'[q] # s
      <3>1. CASE cur[p] # s
        <4>1. active' = active /\ overrun'[s] = overrun[s]
          BY <1>1, <2>2, <3>1 DEF Push, TypeOK, tableVars
        <4> QED
          BY <2>1, <4>1
      <3>2. CASE cur[p] = s
        <4>1. /\ pc[p] = "push" /\ active' = active /\ cur' = cur
              /\ pc' = [pc EXCEPT ![p] = "save"]
          BY <2>2 DEF Push, Goto, tableVars
        <4>2. overrun'[s] = IF active[s] THEN 0 ELSE overrun[s] + 1
          BY <1>1, <2>2, <3>2 DEF Push, TypeOK
        <4>3. overrun[s] = 0
          BY <3>2, <4>1 DEF OverrunInv, OverrunSpent
        <4>4. ASSUME NEW q \in Processors,
                     pc'[q] \in {"collect", "push"}, cur'[q] = s
              PROVE  FALSE
          BY <1>1, <3>2, <4>1, <4>4, Exclusive DEF TypeOK, Working
        <4> QED
          BY <4>1, <4>2, <4>3, <4>4
      <3> QED
        BY <3>1, <3>2
    <2>3. ASSUME NEW r \in Scopes, Toggle(r)
          PROVE  active'[s] = active[s] /\ overrun'[s] = overrun[s]
      BY <1>1, <2>3 DEF Toggle, TypeOK
    <2> QED
      BY <1>2, <2>1, <2>2, <2>3
  <1> QED
    BY <1>1, <1>3, <1>4 DEF OverrunInv

LEMMA OverrunHolds == Spec => []OverrunInv
  <1>1. Init => OverrunInv
    <2> SUFFICES ASSUME Init PROVE OverrunInv
      OBVIOUS
    <2>1. WaitInv
      BY TypeInit, LockInit, WaitInit DEF WaitInv, LockInv
    <2>2. InactiveKnown /\ OverrunSpent
      BY DEF Init, InactiveKnown, OverrunSpent
    <2> QED
      BY <2>1, <2>2 DEF OverrunInv
  <1> QED
    BY <1>1, OverrunNext, PTL DEF Spec

(* After a deactivation at most one period is still stored, the one whose  *)
(* worker had read the flag before, even if the scope changes hands, is    *)
(* reset or its workers crash.                                             *)
THEOREM OverrunIsBounded == Spec => []OverrunBounded
  <1>1. OverrunInv => OverrunBounded
    <2> SUFFICES ASSUME OverrunInv, NEW s \in Scopes PROVE overrun[s] <= 1
      BY DEF OverrunBounded
    <2>1. overrun[s] = 0 \/ overrun[s] = 1
      BY DEF OverrunInv, OverrunSpent
    <2> QED
      BY <2>1
  <1> QED
    BY <1>1, OverrunHolds, PTL

-----------------------------------------------------------------------------
(***************************************************************************)
(* As long as the pushes succeed: only the owner of its lock touches a     *)
(* scope, nothing is stored twice, and the processors and endpoints        *)
(* together keep the ledger of RatingLedger; and what is left of it when   *)
(* they fail.                                                              *)
(***************************************************************************)

(***************************************************************************)
(* Clients hold nothing back, and what a reset has deleted stays deleted   *)
(* until it has set the row.                                               *)
(***************************************************************************)
ClientsEmpty ==
  spent["pushError"] = 0 => \A p \in Processors : buffer[p] = NoDocs

DeletedBeforeSet ==
  spent["pushError"] = 0 =>
    \A h \in Endpoints, u \in Periods :
      hpc[h] = "set" /\ hreq[h].ts <= u => frames[<<hcur[h], u>>] = 0

CleanInv == WaitInv /\ ClientsEmpty /\ DeletedBeforeSet

(* A kind of event that has not happened after a step did not happen.      *)
LEMMA NotSpent ==
  ASSUME TypeOK, [Next]_vars, NEW e \in Events, spent'[e] = 0
  PROVE  spent[e] = 0 /\ ~Spend(e)
  <1>1. ASSUME NEW d \in Events, Spend(d)
        PROVE  spent[e] = 0 /\ d # e
    BY <1>1 DEF Spend, TypeOK
  <1>2. spent' = spent \/ \E d \in Events : Spend(d)
    <2>1. CASE ApiStep
      BY <2>1 DEF ApiStep, Toggle, RequestReset, Events
    <2>2. CASE Fault
      BY <2>2 DEF Fault, PushFails, PushRefused, ProcessingFails, Crash,
         DeleteRefused, ResetFails, Events
    <2>3. CASE Tick \/ UNCHANGED vars
      BY <2>3 DEF Tick, vars
    <2>4. CASE \E p \in Processors : ProcessorStep(p)
      BY <2>4 DEF ProcessorStep, LoadScopes, TryLock, EndCycle, ProcessScope,
         Release, NextTimestamp, CheckActive, Collect, Push, SaveState
    <2>5. CASE \E h \in Endpoints : EndpointStep(h)
      BY <2>5 DEF EndpointStep, TakeRequest, AcquireForReset, DeleteData,
         SetState, ReleaseAfterReset, EndReset
    <2> QED
      BY <2>1, <2>2, <2>3, <2>4, <2>5 DEF Next
  <1> QED
    BY <1>1, <1>2 DEF Spend, TypeOK

(* What a client that holds nothing back sends is the frame at hand.       *)
LEMMA OneDoc ==
  ASSUME NEW s, NEW t, NEW f \in Frames
  PROVE  AddDoc(NoDocs, s, t)[f] = IF f = <<s, t>> THEN 1 ELSE 0
  BY DEF AddDoc, NoDocs

LEMMA CleanCommit ==
  ASSUME TypeOK, NEW s, NEW t, NEW f \in Frames
  PROVE  Commit(frames, AddDoc(NoDocs, s, t))[f] =
           IF f # <<s, t>> THEN frames[f]
           ELSE IF Backend = "influxdb" THEN 1 ELSE frames[f] + 1
  <1> DEFINE doc == AddDoc(NoDocs, s, t)[f]
  <1>1. Commit(frames, AddDoc(NoDocs, s, t))[f] =
          IF Backend # "influxdb" THEN frames[f] + doc
          ELSE IF doc > 0 THEN 1 ELSE frames[f]
    BY DEF Commit
  <1>2. frames[f] \in Nat
    BY DEF TypeOK
  <1>3. CASE f = <<s, t>>
    <2>1. doc = 1
      BY <1>3, OneDoc
    <2> QED
      BY <1>1, <1>2, <1>3, <2>1
  <1>4. CASE f # <<s, t>>
    <2>1. doc = 0
      BY <1>4, OneDoc
    <2> QED
      BY <1>1, <1>2, <1>4, <2>1
  <1> QED
    BY <1>3, <1>4

LEMMA CleanPush ==
  ASSUME TypeOK, NEW p \in Processors, Push(p), buffer[p] = NoDocs,
         NEW f \in Frames
  PROVE  /\ f # <<cur[p], ts[p]>> => frames'[f] = frames[f]
         /\ f = <<cur[p], ts[p]>> =>
              frames'[f] = IF Backend = "influxdb" THEN 1 ELSE frames[f] + 1
  <1>1. frames' = Commit(frames, AddDoc(NoDocs, cur[p], ts[p]))
    BY DEF Push
  <1> QED
    BY <1>1, CleanCommit

(* Who writes to the backend while no push has failed.                     *)
LEMMA WhoWrites ==
  ASSUME TypeOK, [Next]_vars, spent'["pushError"] = 0
  PROVE  \/ frames' = frames
         \/ \E p \in Processors : Push(p)
         \/ \E h \in Endpoints : DeleteData(h)
  <1>1. ~Spend("pushError")
    BY NotSpent DEF Events
  <1> QED
    BY <1>1 DEF Next, ProcessorStep, EndpointStep, ApiStep, Fault, Tick, vars,
       LoadScopes, TryLock, EndCycle, ProcessScope, Release, NextTimestamp,
       CheckActive, Collect, PushFails, PushRefused, SaveState,
       ProcessingFails, Crash, Toggle, RequestReset, TakeRequest,
       AcquireForReset, SetState, ReleaseAfterReset, EndReset, DeleteRefused,
       ResetFails

LEMMA ClientsEmptyNext ==
  ASSUME TypeOK, ClientsEmpty, [Next]_vars
  PROVE  ClientsEmpty'
  <1> SUFFICES ASSUME spent'["pushError"] = 0, NEW q \in Processors
               PROVE  buffer'[q] = NoDocs
    BY DEF ClientsEmpty
  <1>1. spent["pushError"] = 0 /\ ~Spend("pushError")
    BY NotSpent DEF Events
  <1>2. buffer[q] = NoDocs
    BY <1>1 DEF ClientsEmpty
  <1>3. ASSUME NEW p \in Processors, Push(p) \/ Crash(p)
        PROVE  buffer'[q] = NoDocs
    BY <1>2, <1>3 DEF Push, Crash, TypeOK
  <1>4. \/ buffer' = buffer
        \/ \E p \in Processors : Push(p) \/ Crash(p)
    BY <1>1 DEF Next, ProcessorStep, EndpointStep, ApiStep, Fault, Tick, vars,
       LoadScopes, TryLock, EndCycle, ProcessScope, Release, NextTimestamp,
       CheckActive, Collect, PushFails, PushRefused, SaveState,
       ProcessingFails, Toggle, RequestReset, TakeRequest, AcquireForReset,
       DeleteData, SetState, ReleaseAfterReset, EndReset, DeleteRefused,
       ResetFails, processorVars
  <1> QED
    BY <1>2, <1>3, <1>4

(* An endpoint that is about to set the row has deleted, or still stands   *)
(* where it was.                                                           *)
LEMMA AboutToSet ==
  ASSUME TypeOK, [Next]_vars, NEW h \in Endpoints, hpc'[h] = "set"
  PROVE  \/ DeleteData(h) \/ DeleteRefused(h)
         \/ hpc[h] = "set" /\ hcur'[h] = hcur[h] /\ hreq'[h] = hreq[h]
  <1>1. CASE \E k \in Endpoints : EndpointStep(k) \/ DeleteRefused(k) \/ ResetFails(k)
    BY <1>1 DEF EndpointStep, DeleteRefused, ResetFails, SetState,
       ReleaseAfterReset, EndReset, TakeRequest, AcquireForReset, DeleteData,
       TypeOK
  <1>2. CASE \E p \in Processors :
               \/ ProcessorStep(p)
               \/ PushFails(p) \/ PushRefused(p) \/ ProcessingFails(p) \/ Crash(p)
    BY <1>2 DEF ProcessorStep, LoadScopes, EndCycle, ProcessScope, Release,
       NextTimestamp, CheckActive, Collect, Push, SaveState, TryLock,
       PushFails, PushRefused, ProcessingFails, Crash, endpointVars
  <1>3. CASE ApiStep \/ Tick \/ UNCHANGED vars
    BY <1>3 DEF ApiStep, Toggle, RequestReset, Tick, vars, endpointVars
  <1> QED
    BY <1>1, <1>2, <1>3 DEF Next, Fault

(* A deletion only takes away, and takes away what it was asked for.       *)
LEMMA DeletionEffect ==
  ASSUME TypeOK, NEW h \in Endpoints, DeleteData(h),
         NEW s \in Scopes, NEW t \in Periods
  PROVE  /\ frames'[<<s, t>>] \in {0, frames[<<s, t>>]}
         /\ Backend # "loki" /\ s = hcur[h] /\ hreq[h].ts <= t
              => frames'[<<s, t>>] = 0
         /\ Backend # "elasticsearch" /\ s # hcur[h]
              => frames'[<<s, t>>] = frames[<<s, t>>]
         /\ Backend # "loki" /\ ~(hreq[h].ts <= t)
              => frames'[<<s, t>>] = frames[<<s, t>>]
  <1>1. frames'[<<s, t>>] =
          IF Selects(hcur[h], <<s, t>>) /\ InOpenRange(hreq[h].ts, now, t)
          THEN 0 ELSE frames[<<s, t>>]
    BY DEF DeleteData, DeleteFrom, Frames
  <1> QED
    BY <1>1 DEF Selects, InOpenRange

LEMMA OthersKept ==
  ASSUME Separate, LockInv, NEW h \in Endpoints, DeleteData(h),
         NEW s \in Scopes, NEW t \in Periods, s # hcur[h]
  PROVE  frames'[<<s, t>>] = frames[<<s, t>>]
  <1>1. TypeOK /\ hcur[h] \in Scopes
    BY DEF LockInv, HasScope, DeleteData, Resetting
  <1>2. Backend # "elasticsearch"
    BY <1>1 DEF Separate
  <1> QED
    BY <1>1, <1>2, DeletionEffect

LEMMA DeletedNext ==
  ASSUME CleanInv, [Next]_vars, Backend # "loki"
  PROVE  DeletedBeforeSet'
  <1> SUFFICES ASSUME spent'["pushError"] = 0,
                      NEW h \in Endpoints, NEW u \in Periods,
                      hpc'[h] = "set", hreq'[h].ts <= u
               PROVE  frames'[<<hcur'[h], u>>] = 0
    BY DEF DeletedBeforeSet
  <1>1. TypeOK /\ LockInv /\ spent["pushError"] = 0
    BY NotSpent DEF CleanInv, WaitInv, LockInv, Events
  <1>2. CASE DeleteData(h)
    <2>1. hcur'[h] = hcur[h] /\ hreq'[h] = hreq[h] /\ hcur[h] \in Scopes
      BY <1>1, <1>2 DEF DeleteData, LockInv, HasScope, Resetting
    <2> QED
      BY <1>1, <1>2, <2>1, DeletionEffect
  <1>3. CASE hpc[h] = "set" /\ hcur'[h] = hcur[h] /\ hreq'[h] = hreq[h]
    <2>1. frames[<<hcur[h], u>>] = 0 /\ hcur[h] \in Scopes
      BY <1>1, <1>3 DEF CleanInv, DeletedBeforeSet, LockInv, HasScope, Resetting
    <2>2. ASSUME NEW p \in Processors, Push(p)
          PROVE  frames'[<<hcur[h], u>>] = 0
      <3>1. cur[p] # hcur[h]
        BY <1>1, <1>3, <2>2, Exclusive DEF Push, Goto, Working, Resetting
      <3>2. <<hcur[h], u>> \in Frames /\ <<hcur[h], u>> # <<cur[p], ts[p]>>
        BY <2>1, <3>1 DEF Frames
      <3>3. buffer[p] = NoDocs
        BY <1>1 DEF CleanInv, ClientsEmpty
      <3> QED
        BY <1>1, <2>1, <2>2, <3>2, <3>3, CleanPush
    <2>3. ASSUME NEW k \in Endpoints, DeleteData(k)
          PROVE  frames'[<<hcur[h], u>>] = 0
      BY <1>1, <2>1, <2>3, DeletionEffect
    <2> QED
      BY <1>1, <1>3, <2>1, <2>2, <2>3, WhoWrites
  <1>4. ~DeleteRefused(h)
    BY DEF DeleteRefused
  <1> QED
    BY <1>1, <1>2, <1>3, <1>4, AboutToSet

LEMMA CleanInit == Init => ClientsEmpty /\ DeletedBeforeSet
  BY DEF Init, ClientsEmpty, DeletedBeforeSet

LEMMA CleanNext ==
  ASSUME Backend # "loki"
  PROVE  CleanInv /\ [Next]_vars => CleanInv'
  <1>1. CleanInv => WaitInv /\ TypeOK /\ ClientsEmpty
    BY DEF CleanInv, WaitInv, LockInv
  <1> QED
    BY <1>1, WaitNext, ClientsEmptyNext, DeletedNext DEF CleanInv
LEMMA StartsWell == Init => WaitInv
  BY TypeInit, LockInit, WaitInit DEF WaitInv, LockInv

-----------------------------------------------------------------------------
(***************************************************************************)
(* Locked writes.                                                          *)
(***************************************************************************)
LEMMA OwnersOwn ==
  ASSUME LockInv
  PROVE  /\ \A p \in Processors : pc[p] \in Working => Owns(cur[p])
         /\ \A h \in Endpoints : hpc[h] \in Resetting => Owns(hcur[h])
  BY DEF LockInv, HasScope, LocksAccounted, Owns

LEMMA LockedStep ==
  ASSUME WaitInv, ClientsEmpty, [Next]_vars, Separate,
         NEW s \in Scopes
  PROVE  \/ /\ lastProcessed'[s] = lastProcessed[s]
            /\ \A t \in Periods : frames'[<<s, t>>] = frames[<<s, t>>]
         \/ Owns(s)
         \/ spent["pushError"] > 0
  <1>1. TypeOK /\ LockInv
    BY DEF WaitInv, LockInv
  <1> SUFFICES ASSUME ~Owns(s), ~(spent["pushError"] > 0)
               PROVE  /\ lastProcessed'[s] = lastProcessed[s]
                      /\ \A t \in Periods : frames'[<<s, t>>] = frames[<<s, t>>]
    OBVIOUS
  <1>2. spent["pushError"] = 0
    BY <1>1 DEF TypeOK, Events
  <1>3. lastProcessed'[s] = lastProcessed[s]
    <2>1. ASSUME NEW p \in Processors, SaveState(p) PROVE cur[p] # s
      BY <1>1, <2>1, OwnersOwn DEF SaveState, Goto, Working
    <2>2. ASSUME NEW h \in Endpoints, SetState(h) PROVE hcur[h] # s
      BY <1>1, <2>2, OwnersOwn DEF SetState, Resetting
    <2> QED
      BY <1>1, <2>1, <2>2, MarkMoves
  <1>4. ASSUME NEW t \in Periods
        PROVE  frames'[<<s, t>>] = frames[<<s, t>>]
    <2>1. ASSUME NEW p \in Processors, Push(p) \/ PushFails(p)
          PROVE  frames'[<<s, t>>] = frames[<<s, t>>]
      <3>1. cur[p] # s
        BY <1>1, <2>1, OwnersOwn DEF Push, PushFails, Goto, Working
      <3>2. <<s, t>> \in Frames /\ <<s, t>> # <<cur[p], ts[p]>>
        BY <3>1 DEF Frames
      <3>3. buffer[p] = NoDocs
        BY <1>2 DEF ClientsEmpty
      <3>4. frames' \in {frames, Commit(frames, AddDoc(NoDocs, cur[p], ts[p]))}
        BY <2>1, <3>3 DEF Push, PushFails
      <3> QED
        BY <1>1, <3>2, <3>4, CleanCommit
    <2>2. ASSUME NEW h \in Endpoints, DeleteData(h)
          PROVE  frames'[<<s, t>>] = frames[<<s, t>>]
      <3>1. hcur[h] # s
        BY <1>1, <2>2, OwnersOwn DEF DeleteData, Resetting
      <3> QED
        BY <1>1, <2>2, <3>1, OthersKept
    <2>3. \/ frames' = frames
          \/ \E p \in Processors : Push(p) \/ PushFails(p)
          \/ \E h \in Endpoints : DeleteData(h)
      BY DEF Next, ProcessorStep, EndpointStep, ApiStep, Fault, Tick, vars,
         LoadScopes, TryLock, EndCycle, ProcessScope, Release, NextTimestamp,
         CheckActive, Collect, PushRefused, SaveState, ProcessingFails, Crash,
         Toggle, RequestReset, TakeRequest, AcquireForReset, SetState,
         ReleaseAfterReset, EndReset, DeleteRefused, ResetFails
    <2> QED
      BY <2>1, <2>2, <2>3
  <1> QED
    BY <1>3, <1>4
(* Where a deletion leaves other scopes alone, the data and the row of a   *)
(* scope change only in the hands of the process that holds its lock,      *)
(* until a push has failed: internal_run and reset_state never write after *)
(* they have released it.                                                  *)
THEOREM WritesAreLocked ==
  ASSUME Separate
  PROVE  Spec => LockedWrites
  <1>1. Init => WaitInv /\ ClientsEmpty
    BY StartsWell, CleanInit
  <1>2. WaitInv /\ ClientsEmpty /\ [Next]_vars => (WaitInv /\ ClientsEmpty)'
    <2>1. WaitInv => TypeOK
      BY DEF WaitInv, LockInv
    <2> QED
      BY <2>1, WaitNext, ClientsEmptyNext
  <1>3. WaitInv /\ ClientsEmpty /\ [Next]_vars =>
          [\A s \in Scopes :
             \/ /\ lastProcessed'[s] = lastProcessed[s]
                /\ \A t \in Periods : frames'[<<s, t>>] = frames[<<s, t>>]
             \/ Owns(s)
             \/ spent["pushError"] > 0]_vars
    BY LockedStep
  <1> QED
    BY <1>1, <1>2, <1>3, PTL DEF Spec, LockedWrites

-----------------------------------------------------------------------------
(***************************************************************************)
(* Deletions.                                                              *)
(***************************************************************************)
(* InfluxDB holds a frame once or not at all.                              *)
StoredOnce == \A f \in Frames : frames[f] \in {0, 1}

LEMMA BackendWrites ==
  ASSUME [Next]_vars
  PROVE  \/ frames' = frames
         \/ \E p \in Processors :
              frames' = Commit(frames, AddDoc(buffer[p], cur[p], ts[p]))
         \/ \E h \in Endpoints : DeleteData(h)
  BY DEF Next, ProcessorStep, EndpointStep, ApiStep, Fault, Tick, vars,
     LoadScopes, TryLock, EndCycle, ProcessScope, Release, NextTimestamp,
     CheckActive, Collect, Push, PushFails, PushRefused, SaveState,
     ProcessingFails, Crash, Toggle, RequestReset, TakeRequest,
     AcquireForReset, SetState, ReleaseAfterReset, EndReset, DeleteRefused,
     ResetFails

LEMMA StoredOnceNext ==
  ASSUME TypeOK, StoredOnce, [Next]_vars, Backend = "influxdb"
  PROVE  StoredOnce'
  <1> SUFFICES ASSUME NEW f \in Frames PROVE frames'[f] \in {0, 1}
    BY DEF StoredOnce
  <1>1. PICK s \in Scopes, t \in Periods : f = <<s, t>>
    BY DEF Frames
  <1>2. ASSUME NEW h \in Endpoints, DeleteData(h)
        PROVE  frames'[f] \in {0, 1}
    <2>1. frames'[f] \in {0, frames[f]}
      BY <1>1, <1>2, DeletionEffect
    <2> QED
      BY <2>1 DEF StoredOnce
  <1>3. ASSUME NEW p \in Processors,
               frames' = Commit(frames, AddDoc(buffer[p], cur[p], ts[p]))
        PROVE  frames'[f] \in {0, 1}
    BY <1>3 DEF Commit, StoredOnce
  <1> QED
    BY <1>2, <1>3, BackendWrites DEF StoredOnce

(* Where a deletion leaves other scopes alone, stored data disappear only  *)
(* in the hands of an endpoint, for the scope it handles and from the      *)
(* requested timestamp on, or from the period before it with Loki.         *)
THEOREM DeletionsAreAsked ==
  ASSUME Separate
  PROVE  Spec => DeletesWhatWasAsked
  <1> DEFINE Asked(f) ==
        \/ frames'[f] >= frames[f]
        \/ \E h \in Endpoints :
             /\ hpc[h] = "delete" /\ hcur[h] = f[1]
             /\ \/ hreq[h].ts <= f[2]
                \/ Backend = "loki" /\ hreq[h].ts = f[2] + 1
  <1> DEFINE Once == Backend = "influxdb" => StoredOnce
  <1>1. LockInv /\ Once /\ [Next]_vars => \A f \in Frames : Asked(f)
    <2> SUFFICES ASSUME LockInv, TypeOK, Once, [Next]_vars, NEW f \in Frames,
                        ~(\E h \in Endpoints :
                            /\ hpc[h] = "delete" /\ hcur[h] = f[1]
                            /\ \/ hreq[h].ts <= f[2]
                               \/ Backend = "loki" /\ hreq[h].ts = f[2] + 1)
                 PROVE  frames'[f] >= frames[f]
      BY DEF LockInv
    <2>1. PICK s \in Scopes, t \in Periods : f = <<s, t>>
      BY DEF Frames
    <2>2. frames[f] \in Nat
      BY DEF TypeOK
    <2>3. ASSUME NEW h \in Endpoints, DeleteData(h)
          PROVE  frames'[f] = frames[f]
      <3>1. hpc[h] = "delete" /\ hreq[h].ts \in Int /\ t \in Int
        BY <2>3 DEF DeleteData, TypeOK, Request, Periods
      <3>2. \/ s # hcur[h]
            \/ /\ ~(hreq[h].ts <= t)
               /\ Backend = "loki" => hreq[h].ts # t + 1
        BY <2>1, <3>1
      <3>3. CASE s # hcur[h]
        BY <2>1, <2>3, <3>3, OthersKept
      <3>4. CASE s = hcur[h]
        <4>1. frames'[f] =
                IF Selects(hcur[h], f) /\ InOpenRange(hreq[h].ts, now, t)
                THEN 0 ELSE frames[f]
          BY <2>1, <2>3 DEF DeleteData, DeleteFrom
        <4>2. ~InOpenRange(hreq[h].ts, now, t)
          BY <3>1, <3>2, <3>4 DEF InOpenRange
        <4> QED
          BY <4>1, <4>2
      <3> QED
        BY <3>3, <3>4
    <2>4. ASSUME NEW p \in Processors,
                 frames' = Commit(frames, AddDoc(buffer[p], cur[p], ts[p]))
          PROVE  frames'[f] >= frames[f]
      <3>1. CASE Backend = "influxdb"
        <4>1. frames'[f] \in {1, frames[f]}
          BY <2>4, <3>1 DEF Commit
        <4> QED
          BY <2>2, <3>1, <4>1 DEF StoredOnce
      <3>2. CASE Backend # "influxdb"
        <4>1. AddDoc(buffer[p], cur[p], ts[p])[f] \in Nat
          <5>1. buffer[p] \in [Frames -> Nat]
            BY DEF TypeOK
          <5>2. AddDoc(buffer[p], cur[p], ts[p]) \in [Frames -> Nat]
            BY <5>1, StoreTypes
          <5> QED
            BY <5>2
        <4>2. frames'[f] = frames[f] + AddDoc(buffer[p], cur[p], ts[p])[f]
          BY <2>4, <3>2 DEF Commit
        <4> QED
          BY <2>2, <4>1, <4>2
      <3> QED
        BY <3>1, <3>2
    <2> QED
      BY <2>2, <2>3, <2>4, BackendWrites
  <1>2. Init => LockInv /\ Once
    BY TypeInit, LockInit DEF Init, StoredOnce, NoDocs, LockInv
  <1>3. LockInv /\ Once /\ [Next]_vars => LockInv' /\ Once'
    BY LockNext, StoredOnceNext DEF LockInv
  <1>4. LockInv /\ Once /\ [Next]_vars => [\A f \in Frames : Asked(f)]_vars
    BY <1>1
  <1> QED
    BY <1>2, <1>3, <1>4, PTL DEF Spec, DeletesWhatWasAsked
-----------------------------------------------------------------------------
(***************************************************************************)
(* No duplicates.                                                          *)
(***************************************************************************)
Quiet ==
  \A e \in {"crash", "error", "pushError", "resetFault"} : spent[e] = 0

(* What is stored after the mark of a scope was pushed by a processor that *)
(* is about to move the mark.                                              *)
FreshPeriods ==
  Quiet => \A s \in Scopes, t \in Periods :
    lastProcessed[s] < t /\ frames[<<s, t>>] # 0
      => \E p \in Processors : pc[p] = "save" /\ cur[p] = s /\ ts[p] = t

DupInv == CleanInv /\ FreshPeriods /\ NoDuplicates

LEMMA StaysQuiet ==
  ASSUME TypeOK, [Next]_vars, Quiet'
  PROVE  /\ Quiet /\ spent["pushError"] = 0 /\ spent'["pushError"] = 0
         /\ \A p \in Processors : ~PushFails(p) /\ ~PushRefused(p)
                                    /\ ~ProcessingFails(p) /\ ~Crash(p)
         /\ \A h \in Endpoints : ~ResetFails(h)
  <1>1. \A e \in {"crash", "error", "pushError", "resetFault"} :
           spent[e] = 0 /\ ~Spend(e)
    BY NotSpent DEF Quiet, Events
  <1> QED
    BY <1>1 DEF Quiet, PushFails, PushRefused, ProcessingFails, Crash,
       DeleteRefused, ResetFails

(* The period a processor has chosen lies after the mark.                  *)
LEMMA ChosenAfterMark ==
  ASSUME WaitInv, NEW p \in Processors, pc[p] \in Rating
  PROVE  /\ cur[p] \in Scopes /\ ts[p] \in Periods
         /\ lastProcessed[cur[p]] < ts[p]
         /\ Known(cur[p]) => ts[p] = lastProcessed[cur[p]] + 1
  <1>1. cur[p] \in Scopes /\ ts[p] \in Periods
    BY DEF WaitInv, LockInv, HasScope, PeriodChosen, Rating, Working
  <1>2. ts[p] \in Int /\ 0 <= ts[p] /\ lastProcessed[cur[p]] \in Int
    BY <1>1, RatingStoreAssumption DEF WaitInv, LockInv, TypeOK, Periods
  <1>3. Known(cur[p]) => ts[p] = lastProcessed[cur[p]] + 1
    BY DEF WaitInv, WaitRespected, Rating
  <1> QED
    BY <1>1, <1>2, <1>3 DEF Known

LEMMA PushIsFresh ==
  ASSUME DupInv, Quiet, NEW p \in Processors, Push(p)
  PROVE  frames[<<cur[p], ts[p]>>] = 0
  <1>1. pc[p] = "push" /\ WaitInv /\ LockInv
    BY DEF Push, Goto, DupInv, CleanInv, WaitInv
  <1>2. /\ cur[p] \in Scopes /\ ts[p] \in Periods
        /\ lastProcessed[cur[p]] < ts[p]
    BY <1>1, ChosenAfterMark DEF Rating
  <1>3. ASSUME NEW q \in Processors, pc[q] = "save", cur[q] = cur[p]
        PROVE  FALSE
    BY <1>1, <1>3, Exclusive DEF Working
  <1> QED
    BY <1>2, <1>3 DEF DupInv, FreshPeriods

LEMMA FreshNext ==
  ASSUME DupInv, [Next]_vars, Backend # "loki"
  PROVE  FreshPeriods'
  <1> SUFFICES ASSUME Quiet', NEW s \in Scopes, NEW t \in Periods,
                      lastProcessed'[s] < t, frames'[<<s, t>>] # 0
               PROVE  \E p \in Processors :
                        pc'[p] = "save" /\ cur'[p] = s /\ ts'[p] = t
    BY DEF FreshPeriods
  <1>1. CleanInv /\ WaitInv /\ LockInv /\ TypeOK
    BY DEF DupInv, CleanInv, WaitInv, LockInv
  <1>2. Quiet /\ spent["pushError"] = 0 /\ spent'["pushError"] = 0
    BY <1>1, StaysQuiet
  <1>3. t \in Int /\ lastProcessed[s] \in Int
    BY <1>1, RatingStoreAssumption DEF TypeOK, Periods
  <1>4. ASSUME NEW p \in Processors, SaveState(p), cur[p] = s
        PROVE  FALSE
    <2>1. /\ pc[p] = "save" /\ lastProcessed'[s] = ts[p]
          /\ frames' = frames
      BY <1>1, <1>4 DEF SaveState, Goto, TypeOK
    <2>2. ts[p] \in Periods /\ lastProcessed[s] < ts[p]
      BY <1>1, <1>4, <2>1, ChosenAfterMark DEF Rating
    <2>3. lastProcessed[s] < t /\ t # ts[p]
      BY <1>3, <2>1, <2>2, RatingStoreAssumption DEF Periods
    <2>4. PICK q \in Processors : pc[q] = "save" /\ cur[q] = s /\ ts[q] = t
      BY <1>2, <2>1, <2>3 DEF DupInv, FreshPeriods
    <2>5. p = q
      BY <1>1, <1>4, <2>1, <2>4, Exclusive DEF Working
    <2> QED
      BY <2>3, <2>4, <2>5
  <1>5. ASSUME NEW h \in Endpoints, SetState(h), hcur[h] = s
        PROVE  FALSE
    <2>1. /\ hpc[h] = "set" /\ lastProcessed'[s] = hreq[h].ts
          /\ frames' = frames /\ hreq[h].ts \in Periods
      BY <1>1, <1>5 DEF SetState, TypeOK, Request
    <2>2. hreq[h].ts <= t
      BY <1>3, <2>1, RatingStoreAssumption DEF Periods
    <2> QED
      BY <1>2, <1>5, <2>1, <2>2 DEF DupInv, CleanInv, DeletedBeforeSet
  <1>6. CASE lastProcessed'[s] = lastProcessed[s]
    <2>1. CASE frames[<<s, t>>] # 0
      <3>1. PICK q \in Processors : pc[q] = "save" /\ cur[q] = s /\ ts[q] = t
        BY <1>2, <1>6, <2>1 DEF DupInv, FreshPeriods
      <3>2. ~SaveState(q)
        BY <1>4, <3>1
      <3>3. ~ProcessorStep(q)
        BY <3>1, <3>2 DEF ProcessorStep, LoadScopes, EndCycle, ProcessScope,
           Release, NextTimestamp, CheckActive, Collect, Push, TryLock, Goto
      <3>4. pc'[q] = pc[q] /\ cur'[q] = cur[q] /\ ts'[q] = ts[q]
        <4>1. CASE UNCHANGED vars
          BY <4>1 DEF vars, processorVars
        <4>2. CASE Next
          BY <1>1, <3>3, <4>2, LocalsInHand, StaysQuiet DEF Next, Fault
        <4> QED
          BY <4>1, <4>2
      <3> QED
        BY <3>1, <3>4
    <2>2. CASE frames[<<s, t>>] = 0
      <3>1. ~ \E h \in Endpoints : DeleteData(h)
        BY <1>1, <2>2, DeletionEffect
      <3>2. PICK p \in Processors : Push(p)
        BY <1>1, <1>2, <2>2, <3>1, WhoWrites
      <3>3. buffer[p] = NoDocs /\ <<s, t>> \in Frames
        BY <1>1, <1>2 DEF CleanInv, ClientsEmpty, Frames
      <3>4. <<s, t>> = <<cur[p], ts[p]>>
        BY <1>1, <2>2, <3>2, <3>3, CleanPush
      <3>5. pc'[p] = "save" /\ cur'[p] = cur[p] /\ ts'[p] = ts[p]
        BY <1>1, <3>2 DEF Push, Goto, TypeOK
      <3> QED
        BY <3>4, <3>5
    <2> QED
      BY <2>1, <2>2
  <1> QED
    BY <1>1, <1>4, <1>5, <1>6, MarkMoves

LEMMA DupNext ==
  ASSUME DupInv, [Next]_vars
  PROVE  NoDuplicates'
  <1> SUFFICES ASSUME Quiet', NEW f \in Frames PROVE frames'[f] <= 1
    BY DEF NoDuplicates, Quiet
  <1>1. CleanInv /\ TypeOK
    BY DEF DupInv, CleanInv, WaitInv, LockInv
  <1>2. Quiet /\ spent["pushError"] = 0 /\ spent'["pushError"] = 0
    BY <1>1, StaysQuiet
  <1>3. frames[f] <= 1 /\ frames[f] \in Nat
    BY <1>1, <1>2 DEF DupInv, NoDuplicates, Quiet, TypeOK
  <1>4. PICK s \in Scopes, t \in Periods : f = <<s, t>>
    BY DEF Frames
  <1>5. ASSUME NEW h \in Endpoints, DeleteData(h)
        PROVE  frames'[f] <= 1
    <2>1. frames'[f] \in {0, frames[f]}
      BY <1>1, <1>4, <1>5, DeletionEffect
    <2> QED
      BY <1>3, <2>1
  <1>6. ASSUME NEW p \in Processors, Push(p)
        PROVE  frames'[f] <= 1
    <2>1. buffer[p] = NoDocs
      BY <1>1, <1>2 DEF CleanInv, ClientsEmpty
    <2>2. CASE f # <<cur[p], ts[p]>>
      BY <1>1, <1>3, <1>6, <2>1, <2>2, CleanPush
    <2>3. CASE f = <<cur[p], ts[p]>>
      <3>1. frames[f] = 0
        BY <1>2, <1>6, <2>3, PushIsFresh
      <3>2. frames'[f] = 1
        BY <1>1, <1>6, <2>1, <2>3, <3>1, CleanPush
      <3> QED
        BY <3>2
    <2> QED
      BY <2>2, <2>3
  <1> QED
    BY <1>1, <1>2, <1>3, <1>5, <1>6, WhoWrites

(* Without crashes and failures no frame is stored twice, on backends that *)
(* overwrite and on those that append: two processors, or a processor and  *)
(* a reset, never rate the same period of a scope.                         *)
THEOREM NothingIsDuplicated ==
  ASSUME Backend # "loki"
  PROVE  Spec => []NoDuplicates
  <1>1. Init => DupInv
    <2> SUFFICES ASSUME Init PROVE DupInv
      OBVIOUS
    <2>1. CleanInv
      BY StartsWell, CleanInit DEF CleanInv
    <2>2. \A f \in Frames : frames[f] = 0
      BY DEF Init, NoDocs
    <2>3. NoDuplicates
      BY <2>2 DEF NoDuplicates
    <2>4. FreshPeriods
      BY <2>2 DEF FreshPeriods, Frames
    <2> QED
      BY <2>1, <2>3, <2>4 DEF DupInv
  <1>2. DupInv /\ [Next]_vars => DupInv'
    <2>1. DupInv => CleanInv
      BY DEF DupInv
    <2> QED
      BY <2>1, CleanNext, FreshNext, DupNext DEF DupInv
  <1>3. DupInv => NoDuplicates
    BY DEF DupInv
  <1> QED
    BY <1>1, <1>2, <1>3, PTL DEF Spec
-----------------------------------------------------------------------------
(***************************************************************************)
(* The ledger.                                                             *)
(***************************************************************************)
(* Only scopes with a row are reset.                                       *)
ResetsKnown ==
  /\ \A m \in requests : \A s \in m.scopes : Known(s)
  /\ \A h \in Endpoints : \A s \in hreq[h].scopes : Known(s)
  /\ \A h \in Endpoints : hpc[h] \in Resetting => Known(hcur[h])

LedgerInv ==
  GapInv /\ CleanInv /\ ResetsKnown /\ spent["pushError"] = 0

LEMMA ResetsKnownNext ==
  ASSUME WaitInv, ResetsKnown, [Next]_vars
  PROVE  ResetsKnown'
  <1>1. TypeOK /\ HasScope
    BY DEF WaitInv, LockInv
  <1>2. \A s \in Scopes : Known(s) => Known(s)'
    BY KnownStays
  <1>3. /\ \A m \in requests : \A s \in m.scopes : s \in Scopes
        /\ \A h \in Endpoints : \A s \in hreq[h].scopes : s \in Scopes
        /\ \A h \in Endpoints : hpc[h] \in Resetting => hcur[h] \in Scopes
    BY <1>1 DEF TypeOK, HasScope, Request
  (* Whatever was there to be reset, and still is, was known.              *)
  <1>4. ASSUME requests' \subseteq requests, hreq' = hreq, hcur' = hcur,
               \A h \in Endpoints : hpc'[h] \in Resetting => hpc[h] \in Resetting
        PROVE  ResetsKnown'
    BY <1>2, <1>3, <1>4 DEF ResetsKnown
  <1>5. ASSUME NEW S \in SUBSET Scopes, NEW t \in Periods, RequestReset(S, t)
        PROVE  ResetsKnown'
    <2>1. /\ requests' = requests \cup
                           {[id |-> spent'["reset"], scopes |-> S, ts |-> t]}
          /\ hreq' = hreq /\ hcur' = hcur /\ hpc' = hpc
          /\ \A s \in S : Known(s)
      BY <1>5 DEF RequestReset
    <2>2. \A m \in requests' : \A s \in m.scopes : s \in Scopes /\ Known(s)
      BY <1>3, <2>1 DEF ResetsKnown
    <2> QED
      BY <1>2, <1>3, <2>1, <2>2 DEF ResetsKnown
  <1>6. ASSUME NEW k \in Endpoints, NEW m \in requests, TakeRequest(k, m)
        PROVE  ResetsKnown'
    <2>1. /\ requests' \subseteq requests /\ hcur' = hcur
          /\ hpc' = [hpc EXCEPT ![k] = "scan"]
          /\ hreq' = [hreq EXCEPT ![k] = m]
      BY <1>6 DEF TakeRequest
    <2>2. \A h \in Endpoints : hpc'[h] \in Resetting => hpc[h] \in Resetting
      BY <1>1, <2>1 DEF TypeOK, Resetting
    <2>3. \A h \in Endpoints : \A s \in hreq'[h].scopes : s \in Scopes /\ Known(s)
      BY <1>1, <1>3, <2>1 DEF ResetsKnown, TypeOK
    <2> QED
      BY <1>2, <1>3, <2>1, <2>2, <2>3 DEF ResetsKnown
  <1>7. ASSUME NEW k \in Endpoints, NEW r \in Scopes, AcquireForReset(k, r)
        PROVE  ResetsKnown'
    <2>1. /\ requests' = requests
          /\ hcur' = [hcur EXCEPT ![k] = r]
          /\ hpc' = [hpc EXCEPT ![k] = "delete"]
          /\ r \in hreq[k].scopes
      BY <1>7 DEF AcquireForReset
    <2>2. \A h \in Endpoints : hreq'[h].scopes \subseteq hreq[h].scopes
      <3>1. hreq' = [hreq EXCEPT ![k].scopes = @ \ {r}]
        BY <1>7 DEF AcquireForReset
      <3>2. \A h \in Endpoints : hreq[h] \in Request
        BY <1>1 DEF TypeOK
      <3>3. [hreq[k] EXCEPT !.scopes = @ \ {r}].scopes = hreq[k].scopes \ {r}
        BY <3>2 DEF Request
      <3>4. \A h \in Endpoints : h # k => hreq'[h] = hreq[h]
        BY <1>1, <3>1 DEF TypeOK
      <3>5. hreq'[k] = [hreq[k] EXCEPT !.scopes = @ \ {r}]
        BY <1>1, <3>1 DEF TypeOK
      <3> QED
        BY <3>3, <3>4, <3>5
    <2>3. \A h \in Endpoints :
            hpc'[h] \in Resetting => hcur'[h] \in Scopes /\ Known(hcur'[h])
      <3>1. Known(r)
        BY <2>1 DEF ResetsKnown
      <3>2. \A h \in Endpoints :
              h # k => hpc'[h] = hpc[h] /\ hcur'[h] = hcur[h]
        BY <1>1, <2>1 DEF TypeOK
      <3>3. hcur'[k] = r
        BY <1>1, <2>1 DEF TypeOK
      <3> QED
        BY <1>3, <3>1, <3>2, <3>3 DEF ResetsKnown
    <2> QED
      BY <1>2, <1>3, <2>1, <2>2, <2>3 DEF ResetsKnown
  <1>8. ASSUME NEW k \in Endpoints,
               \/ EndReset(k) \/ ResetFails(k) \/ ReleaseAfterReset(k)
        PROVE  ResetsKnown'
    <2>1. requests' = requests
      BY <1>8 DEF EndReset, DeleteRefused, ResetFails, ReleaseAfterReset
    <2>2. \A h \in Endpoints : hreq'[h].scopes \subseteq hreq[h].scopes
      <3>1. NoRequest.scopes = {}
        BY DEF NoRequest
      <3>2. \A h \in Endpoints : hreq'[h] = hreq[h] \/ hreq'[h] = NoRequest
        BY <1>1, <1>8 DEF EndReset, DeleteRefused, ResetFails,
           ReleaseAfterReset, TypeOK
      <3> QED
        BY <3>1, <3>2
    <2>3. \A h \in Endpoints : hpc'[h] \in Resetting =>
                                 hpc[h] \in Resetting /\ hcur'[h] = hcur[h]
      BY <1>1, <1>8 DEF EndReset, DeleteRefused, ResetFails, ReleaseAfterReset,
         TypeOK, Resetting
    <2> QED
      BY <1>2, <1>3, <2>1, <2>2, <2>3 DEF ResetsKnown
  <1>9. ASSUME NEW k \in Endpoints,
               DeleteData(k) \/ DeleteRefused(k) \/ SetState(k)
        PROVE  ResetsKnown'
    <2>1. requests' = requests /\ hreq' = hreq /\ hcur' = hcur
      BY <1>9 DEF DeleteData, DeleteRefused, SetState
    <2>2. \A h \in Endpoints : hpc'[h] \in Resetting => hpc[h] \in Resetting
      BY <1>1, <1>9 DEF DeleteData, DeleteRefused, SetState, TypeOK, Resetting
    <2> QED
      BY <1>4, <2>1, <2>2
  <1>10. CASE \E p \in Processors :
                \/ ProcessorStep(p)
                \/ PushFails(p) \/ PushRefused(p) \/ ProcessingFails(p) \/ Crash(p)
    <2>1. UNCHANGED <<requests, hpc, hcur, hreq>>
      BY <1>10 DEF ProcessorStep, LoadScopes, EndCycle, ProcessScope, Release,
         NextTimestamp, CheckActive, Collect, Push, SaveState, TryLock,
         PushFails, PushRefused, ProcessingFails, Crash, endpointVars
    <2> QED
      BY <1>4, <2>1
  <1>11. CASE Tick \/ UNCHANGED vars \/ \E s \in Scopes : Toggle(s)
    <2>1. UNCHANGED <<requests, hpc, hcur, hreq>>
      BY <1>11 DEF Tick, vars, Toggle, endpointVars
    <2> QED
      BY <1>4, <2>1
  <1> QED
    BY <1>5, <1>6, <1>7, <1>8, <1>9, <1>10, <1>11
       DEF Next, EndpointStep, ApiStep, Fault
LEMMA LedgerNext ==
  ASSUME Confined, Budget["pushError"] = 0
  PROVE  LedgerInv /\ [Next]_vars => LedgerInv'
  <1> SUFFICES ASSUME LedgerInv, [Next]_vars PROVE LedgerInv'
    OBVIOUS
  <1>1. WaitInv /\ WaitInv' /\ TypeOK /\ TypeOK'
    BY WaitNext DEF LedgerInv, CleanInv, WaitInv, LockInv
  <1>2. GapInv'
    BY <1>1, GapPushed, GapGivenUp, GapNoGap
       DEF LedgerInv, GapInv, WaitInv
  <1>3. CleanInv' /\ ResetsKnown'
    BY <1>1, CleanNext, ResetsKnownNext DEF LedgerInv, Confined
  <1>4. ~Spend("pushError")
    BY DEF Spend, LedgerInv
  <1>5. spent'["pushError"] = 0
    <2>1. spent' = spent \/ \E d \in Events \ {"pushError"} : Spend(d)
      BY <1>4 DEF Next, ProcessorStep, EndpointStep, ApiStep, Fault, Tick, vars,
         LoadScopes, TryLock, EndCycle, ProcessScope, Release, NextTimestamp,
         CheckActive, Collect, Push, PushFails, PushRefused, SaveState,
         ProcessingFails, Crash, Toggle, RequestReset, TakeRequest,
         AcquireForReset, DeleteData, SetState, ReleaseAfterReset, EndReset,
         DeleteRefused, ResetFails, Events
    <2> QED
      BY <1>1, <2>1 DEF Spend, LedgerInv, TypeOK, Events
  <1> QED
    BY <1>2, <1>3, <1>5 DEF LedgerInv

USE DEF Ledger!Periods, Ledger!Never

(* What the push, the deletion and the update of a row are in the ledger.  *)
LEMMA PushRecords ==
  ASSUME LedgerInv, NEW p \in Processors, Push(p)
  PROVE  Ledger!Record(cur[p], ts[p]) /\ cur[p] \in Scopes /\ ts[p] \in Periods
  <1> DEFINE s == cur[p]
             t == ts[p]
  <1>1. WaitInv /\ TypeOK /\ buffer[p] = NoDocs /\ pc[p] = "push"
    BY DEF LedgerInv, CleanInv, ClientsEmpty, WaitInv, LockInv, Push, Goto
  <1>2. /\ s \in Scopes /\ t \in Periods
        /\ Known(s) => t = lastProcessed[s] + 1
    BY <1>1, ChosenAfterMark DEF Rating
  <1>3. lastProcessed' = lastProcessed
    BY DEF Push, tableVars
  <1>4. \A r \in Scopes, u \in Periods :
           frames'[<<r, u>>] > 0 <=> frames[<<r, u>>] > 0 \/ (r = s /\ u = t)
    <2> SUFFICES ASSUME NEW r \in Scopes, NEW u \in Periods
                 PROVE  frames'[<<r, u>>] > 0
                          <=> frames[<<r, u>>] > 0 \/ (r = s /\ u = t)
      OBVIOUS
    <2>1. <<r, u>> \in Frames
      BY DEF Frames
    <2>2. CASE r = s /\ u = t
      <3>1. frames[<<r, u>>] \in Nat
        BY <1>1, <2>1 DEF TypeOK
      <3>2. frames'[<<r, u>>] \in {1, frames[<<r, u>>] + 1}
        BY <1>1, <2>1, <2>2, CleanPush
      <3> QED
        BY <2>2, <3>1, <3>2
    <2>3. CASE ~(r = s /\ u = t)
      <3>1. <<r, u>> # <<s, t>>
        BY <2>3
      <3> QED
        BY <1>1, <2>1, <2>3, <3>1, CleanPush
    <2> QED
      BY <2>2, <2>3
  <1>5. StoredPeriods' = [StoredPeriods EXCEPT ![s] = @ \cup {t}]
    <2>1. \A r \in Scopes : StoredPeriods'[r] =
             IF r = s THEN StoredPeriods[r] \cup {t} ELSE StoredPeriods[r]
      BY <1>2, <1>4 DEF StoredPeriods
    <2>2. /\ StoredPeriods = [r \in Scopes |-> StoredPeriods[r]]
          /\ StoredPeriods' = [r \in Scopes |-> StoredPeriods'[r]]
      BY DEF StoredPeriods
    <2> QED
      BY <1>2, <2>1, <2>2
  <1> QED
    BY <1>2, <1>3, <1>5 DEF Ledger!Record, Ledger!Follows, Known

LEMMA SaveAdvances ==
  ASSUME LedgerInv, NEW p \in Processors, SaveState(p)
  PROVE  Ledger!Advance(cur[p], ts[p]) /\ cur[p] \in Scopes /\ ts[p] \in Periods
  <1> DEFINE s == cur[p]
             t == ts[p]
  <1>1. WaitInv /\ TypeOK /\ pc[p] = "save"
    BY DEF LedgerInv, CleanInv, WaitInv, LockInv, SaveState, Goto
  <1>2. /\ s \in Scopes /\ t \in Periods
        /\ Known(s) => t = lastProcessed[s] + 1
    BY <1>1, ChosenAfterMark DEF Rating
  <1>3. /\ lastProcessed' = [lastProcessed EXCEPT ![s] = t]
        /\ frames' = frames
    BY DEF SaveState
  <1>4. <<s, t>> \in Idle \/ t \in StoredPeriods[s]
    BY <1>1, <1>2 DEF LedgerInv, GapInv, PushedBeforeSave, StoredPeriods
  <1>5. StoredPeriods' = StoredPeriods
    BY <1>3 DEF StoredPeriods
  <1> QED
    BY <1>2, <1>3, <1>4, <1>5 DEF Ledger!Advance, Ledger!Follows, Known

LEMMA DeleteErases ==
  ASSUME LedgerInv, Confined, NEW h \in Endpoints, DeleteData(h)
  PROVE  /\ Ledger!Erase(hcur[h], hreq[h].ts)
         /\ hcur[h] \in Scopes /\ hreq[h].ts \in Periods
  <1> DEFINE s == hcur[h]
             t == hreq[h].ts
  <1>1. LockInv /\ TypeOK /\ hpc[h] = "delete"
    BY DEF LedgerInv, CleanInv, WaitInv, LockInv, DeleteData
  <1>2. s \in Scopes /\ t \in Periods /\ Known(s)
    BY <1>1 DEF LockInv, HasScope, Resetting, TypeOK, Request, LedgerInv,
                ResetsKnown
  <1>3. lastProcessed' = lastProcessed
    BY DEF DeleteData, tableVars
  <1>4. /\ t \in Int /\ Periods \subseteq Int
        /\ Separate /\ Backend # "loki"
    BY <1>2, RatingStoreAssumption DEF Periods, Confined, Separate
  <1>5. \A r \in Scopes, u \in Periods :
           frames'[<<r, u>>] > 0 <=> frames[<<r, u>>] > 0 /\ (r = s => u < t)
    <2> SUFFICES ASSUME NEW r \in Scopes, NEW u \in Periods
                 PROVE  frames'[<<r, u>>] > 0
                          <=> frames[<<r, u>>] > 0 /\ (r = s => u < t)
      OBVIOUS
    <2>1. CASE r = s /\ t <= u
      BY <1>1, <1>4, <2>1, DeletionEffect
    <2>2. CASE ~(r = s /\ t <= u)
      <3>1. r = s => u < t
        BY <1>4, <2>2
      <3>2. frames'[<<r, u>>] = frames[<<r, u>>]
        <4>1. CASE r # s
          BY <1>1, <1>4, <4>1, OthersKept
        <4>2. CASE r = s
          BY <1>1, <1>4, <2>2, <4>2, DeletionEffect
        <4> QED
          BY <4>1, <4>2
      <3> QED
        BY <3>1, <3>2
    <2> QED
      BY <2>1, <2>2
  <1>6. StoredPeriods' = [StoredPeriods EXCEPT ![s] = {u \in @ : u < t}]
    BY <1>2, <1>5 DEF StoredPeriods
  <1> QED
    BY <1>2, <1>3, <1>6 DEF Ledger!Erase, Known

LEMMA SetLands ==
  ASSUME LedgerInv, NEW h \in Endpoints, SetState(h)
  PROVE  /\ Ledger!Land(hcur[h], hreq[h].ts)
         /\ hcur[h] \in Scopes /\ hreq[h].ts \in Periods
  <1> DEFINE s == hcur[h]
             t == hreq[h].ts
  <1>1. LockInv /\ TypeOK /\ hpc[h] = "set"
    BY DEF LedgerInv, CleanInv, WaitInv, LockInv, SetState
  <1>2. s \in Scopes /\ t \in Periods /\ Known(s)
    BY <1>1 DEF LockInv, HasScope, Resetting, TypeOK, Request, LedgerInv,
                ResetsKnown
  <1>3. /\ lastProcessed' = [lastProcessed EXCEPT ![s] = t]
        /\ frames' = frames
    BY DEF SetState
  <1>4. t \in Int /\ Periods \subseteq Int
    BY <1>2, RatingStoreAssumption DEF Periods
  <1>5. \A u \in StoredPeriods[s] : u < t
    <2> SUFFICES ASSUME NEW u \in Periods, frames[<<s, u>>] > 0, ~(u < t)
                 PROVE  FALSE
      BY <1>2 DEF StoredPeriods
    <2>1. t <= u
      BY <1>4
    <2>2. frames[<<s, u>>] = 0
      BY <1>1, <2>1 DEF LedgerInv, CleanInv, DeletedBeforeSet
    <2> QED
      BY <2>2
  <1>6. StoredPeriods' = StoredPeriods
    BY <1>3 DEF StoredPeriods
  <1> QED
    BY <1>2, <1>3, <1>5, <1>6 DEF Ledger!Land, Known

LEMMA LedgerStep ==
  ASSUME LedgerInv, [Next]_vars, Confined, Budget["pushError"] = 0
  PROVE  [Ledger!Next]_(Ledger!ledgerVars)
  <1>1. ~Spend("pushError")
    BY DEF LedgerInv, Spend
  <1>2. ASSUME NEW p \in Processors, Push(p)
        PROVE  Ledger!Next
    BY <1>2, PushRecords DEF Ledger!Next, Periods
  <1>3. ASSUME NEW p \in Processors, SaveState(p)
        PROVE  Ledger!Next
    BY <1>3, SaveAdvances DEF Ledger!Next, Periods
  <1>4. ASSUME NEW h \in Endpoints, DeleteData(h)
        PROVE  Ledger!Next
    BY <1>4, DeleteErases DEF Ledger!Next, Periods
  <1>5. ASSUME NEW h \in Endpoints, SetState(h)
        PROVE  Ledger!Next
    BY <1>5, SetLands DEF Ledger!Next, Periods
  <1>6. ASSUME UNCHANGED <<lastProcessed, frames>>
        PROVE  UNCHANGED Ledger!ledgerVars
    BY <1>6 DEF Ledger!ledgerVars, StoredPeriods
  <1>7. \/ UNCHANGED <<lastProcessed, frames>>
        \/ \E p \in Processors : Push(p) \/ SaveState(p)
        \/ \E h \in Endpoints : DeleteData(h) \/ SetState(h)
    BY <1>1 DEF Next, ProcessorStep, EndpointStep, ApiStep, Fault, Tick, vars,
       LoadScopes, TryLock, EndCycle, ProcessScope, Release, NextTimestamp,
       CheckActive, Collect, PushFails, PushRefused, ProcessingFails, Crash,
       Toggle, RequestReset, TakeRequest, AcquireForReset, ReleaseAfterReset,
       EndReset, DeleteRefused, ResetFails, tableVars
  <1> QED
    BY <1>2, <1>3, <1>4, <1>5, <1>6, <1>7

(* The processors and endpoints implement RatingLedger: with a backend     *)
(* that confines deletions and pushes that succeed, whatever the crashes   *)
(* and other errors, a mark moves only over data that is stored, one       *)
(* period at a time, and goes back only to where everything from there on  *)
(* has been erased.                                                        *)
THEOREM ImplementsLedger ==
  ASSUME Confined, Budget["pushError"] = 0
  PROVE  Spec => KeepsLedger
  <1>1. Init => LedgerInv
    <2> SUFFICES ASSUME Init PROVE LedgerInv
      OBVIOUS
    <2>1. CleanInv
      BY StartsWell, CleanInit DEF CleanInv
    <2>2. GapInv
      BY GapInit
    <2>3. ResetsKnown
      BY DEF Init, ResetsKnown, Resetting, NoRequest
    <2>4. spent["pushError"] = 0
      BY DEF Init, Events
    <2> QED
      BY <2>1, <2>2, <2>3, <2>4 DEF LedgerInv
  <1>2. Init => Ledger!Init
    BY DEF Init, NoDocs, Frames, Ledger!Init, StoredPeriods
  <1>3. LedgerInv /\ [Next]_vars => LedgerInv'
    BY LedgerNext
  <1>4. LedgerInv /\ [Next]_vars => [Ledger!Next]_(Ledger!ledgerVars)
    BY LedgerStep
  <1> QED
    BY <1>1, <1>2, <1>3, <1>4, PTL DEF Spec, KeepsLedger, Ledger!Spec

-----------------------------------------------------------------------------
(***************************************************************************)
(* The promise that rated periods are stored becomes weaker when the       *)
(* client hides the errors of a push, as Loki's does: they are stored or   *)
(* in the memory of a live process.                                        *)
(***************************************************************************)
Held(f) == frames[f] > 0 \/ \E p \in Processors : buffer[p][f] > 0

(* No memory is lost and no data given up.                                 *)
Undisturbed == spent["crash"] = 0 /\ spent["reset"] = 0

(* Without a request of the API the endpoints rest.                        *)
EndpointsRest ==
  spent["reset"] = 0 => requests = {} /\ \A h \in Endpoints : hpc[h] = "idle"

HeldBeforeSave ==
  Undisturbed =>
    \A p \in Processors :
      pc[p] = "save" /\ <<cur[p], ts[p]>> \notin Idle => Held(<<cur[p], ts[p]>>)

HeldInv == WaitInv /\ EndpointsRest /\ HeldBeforeSave /\ StoredOrBuffered

LEMMA EndpointsRestNext ==
  ASSUME TypeOK, EndpointsRest, [Next]_vars
  PROVE  EndpointsRest'
  <1> SUFFICES ASSUME spent'["reset"] = 0
               PROVE  requests' = {} /\ \A h \in Endpoints : hpc'[h] = "idle"
    BY DEF EndpointsRest
  <1>1. /\ requests = {} /\ \A h \in Endpoints : hpc[h] = "idle"
        /\ ~Spend("reset")
    BY NotSpent DEF EndpointsRest, Events
  <1>2. CASE ApiStep
    BY <1>1, <1>2 DEF ApiStep, Toggle, RequestReset, endpointVars
  <1>3. CASE \E h \in Endpoints : EndpointStep(h) \/ DeleteRefused(h) \/ ResetFails(h)
    BY <1>1, <1>3 DEF EndpointStep, TakeRequest, AcquireForReset, DeleteData,
       SetState, ReleaseAfterReset, EndReset, DeleteRefused, ResetFails
  <1>4. CASE \E p \in Processors :
               \/ ProcessorStep(p)
               \/ PushFails(p) \/ PushRefused(p) \/ ProcessingFails(p) \/ Crash(p)
    BY <1>1, <1>4 DEF ProcessorStep, LoadScopes, TryLock, EndCycle,
       ProcessScope, Release, NextTimestamp, CheckActive, Collect, Push,
       SaveState, PushFails, PushRefused, ProcessingFails, Crash, endpointVars
  <1>5. CASE Tick \/ UNCHANGED vars
    BY <1>1, <1>5 DEF Tick, vars, endpointVars
  <1> QED
    BY <1>2, <1>3, <1>4, <1>5 DEF Next, Fault

(* A push, failed, refused or not, keeps what is stored and what the       *)
(* client held, and stores or holds the frame at hand.                     *)
LEMMA PushHolds ==
  ASSUME TypeOK, NEW p \in Processors, Push(p) \/ PushFails(p) \/ PushRefused(p),
         NEW f \in Frames,
         Held(f) \/ AddDoc(buffer[p], cur[p], ts[p])[f] > 0
  PROVE  Held(f)'
  <1> DEFINE docs == AddDoc(buffer[p], cur[p], ts[p])
  <1>1. docs \in [Frames -> Nat] /\ buffer[p] \in [Frames -> Nat]
    BY StoreTypes DEF TypeOK
  <1>2. docs[f] \in Nat /\ docs[f] >= buffer[p][f]
    <2>1. docs[f] = IF f = <<cur[p], ts[p]>> THEN buffer[p][f] + 1 ELSE buffer[p][f]
      BY <1>1 DEF AddDoc
    <2> QED
      BY <1>1, <2>1
  <1>3. \/ buffer' = [buffer EXCEPT ![p] = docs]
        \/ buffer' = [buffer EXCEPT ![p] = NoDocs] /\ frames' = Commit(frames, docs)
    BY DEF Push, PushFails, PushRefused
  <1>4. frames' = frames \/ frames' = Commit(frames, docs)
    BY DEF Push, PushFails, PushRefused
  <1>5. ASSUME frames[f] > 0
        PROVE  Held(f)'
    BY <1>1, <1>4, <1>5, CommitKeeps DEF TypeOK, Held
  <1>6. ASSUME NEW q \in Processors, q # p, buffer[q][f] > 0
        PROVE  Held(f)'
    BY <1>3, <1>6 DEF TypeOK, Held
  <1>7. ASSUME docs[f] > 0
        PROVE  Held(f)'
    <2>1. CASE buffer' = [buffer EXCEPT ![p] = docs]
      BY <1>7, <2>1 DEF TypeOK, Held
    <2>2. CASE frames' = Commit(frames, docs)
      BY <1>1, <1>7, <2>2, CommitKeeps DEF TypeOK, Held
    <2> QED
      BY <1>3, <2>1, <2>2
  <1>8. buffer[p][f] > 0 => docs[f] > 0
    BY <1>1, <1>2
  <1> QED
    BY <1>5, <1>6, <1>7, <1>8 DEF Held

(* As long as no process dies and no reset is asked, nothing is lost.      *)
LEMMA HeldStays ==
  ASSUME TypeOK, EndpointsRest, [Next]_vars, Undisturbed', NEW f \in Frames, Held(f)
  PROVE  Held(f)'
  <1>1. /\ ~Spend("crash")
        /\ \A h \in Endpoints : hpc[h] = "idle"
    BY NotSpent DEF Undisturbed, EndpointsRest, Events
  <1>2. CASE \E p \in Processors : Push(p) \/ PushFails(p) \/ PushRefused(p)
    BY <1>2, PushHolds
  <1>3. CASE UNCHANGED <<frames, buffer>>
    BY <1>3 DEF Held
  <1>4. \/ UNCHANGED <<frames, buffer>>
        \/ \E p \in Processors : Push(p) \/ PushFails(p) \/ PushRefused(p)
    BY <1>1 DEF Next, ProcessorStep, EndpointStep, ApiStep, Fault, Tick, vars,
       LoadScopes, TryLock, EndCycle, ProcessScope, Release, NextTimestamp,
       CheckActive, Collect, SaveState, ProcessingFails, Crash, Toggle,
       RequestReset, TakeRequest, AcquireForReset, DeleteData, SetState,
       ReleaseAfterReset, EndReset, DeleteRefused, ResetFails, processorVars
  <1> QED
    BY <1>2, <1>3, <1>4

LEMMA UndisturbedBefore ==
  ASSUME TypeOK, [Next]_vars, Undisturbed'
  PROVE  Undisturbed
  BY NotSpent DEF Undisturbed, Events

LEMMA HeldSaveNext ==
  ASSUME HeldInv, [Next]_vars
  PROVE  HeldBeforeSave'
  <1> SUFFICES ASSUME Undisturbed', NEW p \in Processors, pc'[p] = "save",
                      NEW f, f = <<cur'[p], ts'[p]>>, f \notin Idle
               PROVE  Held(f)'
    BY DEF HeldBeforeSave, Held
  <1>1. TypeOK /\ LockInv /\ EndpointsRest
    BY DEF HeldInv, WaitInv, LockInv
  <1>2. Undisturbed
    BY <1>1, UndisturbedBefore
  <1>3. ASSUME pc[p] \in {"push", "save"}
        PROVE  cur[p] \in Scopes /\ ts[p] \in Periods /\ <<cur[p], ts[p]>> \in Frames
    BY <1>1, <1>3 DEF LockInv, HasScope, Working, HeldInv, WaitInv,
                      PeriodChosen, Rating, Frames
  <1>4. ASSUME pc[p] = "save", cur'[p] = cur[p], ts'[p] = ts[p]
        PROVE  Held(f)'
    <2>1. f \in Frames /\ Held(f)
      BY <1>2, <1>3, <1>4 DEF HeldInv, HeldBeforeSave
    <2> QED
      BY <1>1, <2>1, HeldStays
  <1>5. CASE Push(p) \/ PushRefused(p)
    <2>1. pc[p] = "push" /\ f = <<cur[p], ts[p]>>
      BY <1>5 DEF Push, PushRefused, Goto
    <2>2. f \in Frames /\ AddDoc(buffer[p], cur[p], ts[p])[f] > 0
      BY <1>1, <1>3, <2>1, AddDocAdds DEF TypeOK
    <2> QED
      BY <1>1, <1>5, <2>2, PushHolds
  <1>6. CASE ProcessorStep(p) /\ ~Push(p)
    <2>1. CASE Collect(p)
      BY <1>1, <2>1 DEF Collect, Goto, TypeOK
    <2>2. CASE ~Collect(p)
      BY <1>1, <1>6, <2>2 DEF ProcessorStep, LoadScopes, EndCycle, ProcessScope,
         Release, NextTimestamp, CheckActive, SaveState, TryLock, Goto, TypeOK
    <2> QED
      BY <2>1, <2>2
  <1>7. CASE PushFails(p) \/ ProcessingFails(p) \/ Crash(p)
    BY <1>1, <1>7 DEF PushFails, ProcessingFails, Crash, Goto, TypeOK
  <1>8. CASE \/ \E q \in Processors \ {p} :
                  \/ ProcessorStep(q)
                  \/ PushFails(q) \/ PushRefused(q) \/ ProcessingFails(q) \/ Crash(q)
             \/ \E h \in Endpoints : EndpointStep(h) \/ DeleteRefused(h) \/ ResetFails(h)
             \/ ApiStep \/ Tick
    BY <1>1, <1>4, <1>8, LocalsInHand
  <1>9. CASE UNCHANGED vars
    BY <1>4, <1>9 DEF vars, processorVars
  <1> QED
    BY <1>5, <1>6, <1>7, <1>8, <1>9 DEF Next, Fault

LEMMA StoredOrBufferedNext ==
  ASSUME HeldInv, [Next]_vars
  PROVE  StoredOrBuffered'
  <1> SUFFICES ASSUME Undisturbed', NEW s \in Scopes, NEW t \in Periods,
                      t <= lastProcessed'[s], t \notin exempt'[s],
                      <<s, t>> \notin Idle
               PROVE  Held(<<s, t>>)'
    BY DEF StoredOrBuffered, Undisturbed, Held
  <1>1. TypeOK /\ LockInv /\ EndpointsRest /\ <<s, t>> \in Frames
    BY DEF HeldInv, WaitInv, LockInv, Frames
  <1>2. Undisturbed
    BY <1>1, UndisturbedBefore
  <1>3. lastProcessed[s] \in Int
    BY <1>1, RatingStoreAssumption DEF TypeOK, Periods
  <1>4. ASSUME t <= lastProcessed[s], t \notin exempt[s]
        PROVE  Held(<<s, t>>)'
    <2>1. Held(<<s, t>>)
      BY <1>2, <1>4 DEF HeldInv, StoredOrBuffered, Undisturbed, Held
    <2> QED
      BY <1>1, <2>1, HeldStays
  <1>5. ASSUME NEW p \in Processors, SaveState(p), cur[p] = s
        PROVE  Held(<<s, t>>)'
    <2>1. /\ pc[p] = "save" /\ ts[p] \in Periods
          /\ lastProcessed'[s] = ts[p]
          /\ exempt'[s] = (IF Known(s) THEN exempt[s]
                           ELSE {u \in Periods : u < ts[p]}) \ {ts[p]}
      BY <1>1, <1>5 DEF SaveState, Goto, HeldInv, WaitInv, PeriodChosen, Rating,
                        TypeOK
    <2>2. CASE t = ts[p]
      <3>1. Held(<<s, t>>)
        BY <1>2, <1>5, <2>1, <2>2 DEF HeldInv, HeldBeforeSave
      <3> QED
        BY <1>1, <3>1, HeldStays
    <2>3. CASE t # ts[p]
      <3>1. /\ ts[p] \in Int /\ t \in Int /\ lastProcessed[s] \in Int
            /\ t < ts[p]
        BY <1>3, <2>1, <2>3, RatingStoreAssumption DEF Periods
      <3>2. Known(s) /\ t \notin exempt[s]
        BY <2>1, <2>3, <3>1
      <3>3. ts[p] = lastProcessed[s] + 1
        BY <1>5, <2>1, <3>2 DEF HeldInv, WaitInv, WaitRespected
      <3> QED
        BY <1>4, <3>1, <3>2, <3>3
    <2> QED
      BY <2>2, <2>3
  <1>6. ASSUME NEW h \in Endpoints, SetState(h)
        PROVE  FALSE
    BY <1>1, <1>2, <1>6 DEF EndpointsRest, Undisturbed, SetState
  <1> QED
    BY <1>1, <1>4, <1>5, <1>6, MarkMoves

LEMMA HeldInit == Init => HeldInv
  <1> SUFFICES ASSUME Init PROVE HeldInv
    OBVIOUS
  <1>1. StoredOrBuffered
    <2>1. \A s \in Scopes, t \in Periods : ~(t <= lastProcessed[s])
      BY RatingStoreAssumption DEF Init, Periods
    <2> QED
      BY <2>1 DEF StoredOrBuffered
  <1> QED
    BY <1>1, StartsWell DEF Init, HeldInv, EndpointsRest, HeldBeforeSave

(* Whatever the backend and however its client answers, a period recorded  *)
(* as rated is stored or held by a processor as long as none dies and no   *)
(* reset is asked: a failed or refused push loses nothing by itself.       *)
THEOREM RatedIsHeld == Spec => []StoredOrBuffered
  <1>1. HeldInv /\ [Next]_vars => HeldInv'
    <2>1. HeldInv => WaitInv /\ TypeOK
      BY DEF HeldInv, WaitInv, LockInv
    <2> QED
      BY <2>1, WaitNext, EndpointsRestNext, HeldSaveNext, StoredOrBufferedNext
         DEF HeldInv
  <1>2. HeldInv => StoredOrBuffered
    BY DEF HeldInv
  <1> QED
    BY <1>1, <1>2, HeldInit, PTL DEF Spec
-----------------------------------------------------------------------------
(***************************************************************************)
(* Conversions.                                                            *)
(***************************************************************************)
(* An instant is read back from its wall clock and fold, also in the hours *)
(* that the clock shows twice.                                             *)
LEMMA RoundTrip ==
  ASSUME NEW z \in Zones, NEW u \in Int
  PROVE  LocalToUtc(z, UtcToLocal(z, u)) = u
  <1> DEFINE wall == u + Offset(z, u)
             dt == UtcToLocal(z, u)
  <1>0. z.standard \in Int /\ z.saved \in Int
    BY LocalTimeAssumption
  <1>1. CASE u \in z.summer
    <2>1. wall = u + z.standard + z.saved
      BY <1>0, <1>1 DEF Offset
    <2>2. wall - z.standard = u + z.saved /\ wall - z.standard - z.saved = u
      BY <1>0, <2>1
    <2>3. dt.wall = wall /\ dt.fold = 0
      BY <1>1 DEF UtcToLocal
    <2>4. CASE Ambiguous(z, wall)
      <3>1. IsDst(z, dt)
        BY <2>3, <2>4 DEF IsDst
      <3> HIDE DEF wall, dt
      <3>2. LocalToUtc(z, dt) = u
        BY <3>1, <2>2, <2>3 DEF LocalToUtc
      <3> QED
        BY <3>2 DEF dt
    <2>5. CASE ~Ambiguous(z, wall)
      <3>1. wall - z.standard \in z.summer
        BY <2>5, <2>2, <1>1 DEF Ambiguous
      <3>2. IsDst(z, dt)
        BY <3>1, <2>3, <2>5 DEF IsDst
      <3> HIDE DEF wall, dt
      <3>3. LocalToUtc(z, dt) = u
        BY <3>2, <2>2, <2>3 DEF LocalToUtc
      <3> QED
        BY <3>3 DEF dt
    <2> QED
      BY <2>4, <2>5
  <1>2. CASE u \notin z.summer
    <2>1. wall = u + z.standard
      BY <1>0, <1>2 DEF Offset
    <2>2. wall - z.standard = u
      BY <1>0, <2>1
    <2>3. dt.wall = wall /\ (Ambiguous(z, wall) => dt.fold = 1)
      BY <1>2 DEF UtcToLocal
    <2>4. ~IsDst(z, dt)
      BY <1>2, <2>2, <2>3 DEF IsDst
    <2> HIDE DEF wall, dt
    <2>5. LocalToUtc(z, dt) = u
      BY <2>2, <2>3, <2>4 DEF LocalToUtc
    <2> QED
      BY <2>5 DEF dt
  <1> QED
    BY <1>1, <1>2

(* Periods are moved on UTC.                                               *)
LEMMA MovedOnUtc ==
  ASSUME NEW z \in Zones, NEW u \in Int, NEW delta \in Int
  PROVE  /\ AddDelta(z, UtcToLocal(z, u), delta) = UtcToLocal(z, u + delta)
         /\ SubstractDelta(z, UtcToLocal(z, u), delta) = UtcToLocal(z, u - delta)
  BY RoundTrip DEF AddDelta, SubstractDelta

(* In every zone and from any hour on, periods begin where the one before  *)
(* ended and last as long as they should (add_delta, substract_delta and   *)
(* diff_seconds of utils.tz), whether or not the offset changes in them.   *)
THEOREM PeriodsMeet == \A z \in Zones : \A u \in Int : Tiles(z, u)
  <1> SUFFICES ASSUME NEW z \in Zones, NEW u \in Int
               PROVE  Tiles(z, u)
    OBVIOUS
  <1> DEFINE dt == UtcToLocal(z, u)
  <1>1. LocalToUtc(z, dt) = u
    BY RoundTrip
  <1>2. ASSUME NEW period \in 1 .. MaxDelta
        PROVE  LET next == AddDelta(z, dt, period)
               IN  /\ LocalToUtc(z, next) = u + period
                   /\ DiffSeconds(z, dt, next) = period
                   /\ SubstractDelta(z, next, period) = dt
    <2>0. period \in Int /\ period > 0 /\ u + period \in Int
      BY LocalTimeAssumption
    <2> DEFINE next == UtcToLocal(z, u + period)
    <2>1. AddDelta(z, dt, period) = next
      BY <2>0, MovedOnUtc
    <2>2. LocalToUtc(z, next) = u + period
      BY <2>0, RoundTrip
    <2>3. SubstractDelta(z, next, period) = UtcToLocal(z, (u + period) - period)
      BY <2>0, MovedOnUtc
    <2>4. (u + period) - period = u
      BY <2>0
    <2>5. SubstractDelta(z, next, period) = dt
      BY <2>3, <2>4
    <2> HIDE DEF dt, next
    <2>6. DiffSeconds(z, dt, next) = period
      BY <1>1, <2>0, <2>2 DEF DiffSeconds
    <2> QED
      BY <2>1, <2>2, <2>5, <2>6
  <1> QED
    BY <1>1, <1>2 DEF Tiles

-----------------------------------------------------------------------------
(***************************************************************************)
(* The processors' clock.                                                  *)
(***************************************************************************)
(* Multiplying by a positive number keeps the order.                       *)
LEMMA OrderOfMultiples ==
  ASSUME NEW m \in Int, NEW n \in Int, NEW k \in Nat \ {0}
  PROVE  m * k < n * k <=> m < n
  <1>1. ASSUME m < n PROVE m * k < n * k
    BY <1>1
  <1>2. ASSUME ~(m < n) PROVE ~(m * k < n * k)
    BY <1>2
  <1> QED
    BY <1>1, <1>2

(* The bounds of a waited period, in hours.                                *)
LEMMA HoursOfPeriods ==
  ASSUME NEW t \in Int, NEW wait \in Int
  PROVE  LET ticks == TicksPerPeriod
         IN  /\ Hour(t * ticks) \in Int /\ Hour(ticks) \in Int
             /\ Hour(t * ticks) + Hour(ticks) = Hour((t + 1) * ticks)
             /\ Hour((t + 1) * ticks) + wait * Hour(ticks)
                  = Hour((t + 1 + wait) * ticks)
  <1>1. TicksPerPeriod \in Int /\ HoursPerTick \in Int
    BY RatingStoreAssumption, ZonedProcessingAssumption
  <1> DEFINE h == HoursPerTick
             n == TicksPerPeriod
  <1>2. (t * n) * h + n * h = ((t + 1) * n) * h
    BY <1>1
  <1>3. ((t + 1) * n) * h + wait * (n * h) = ((t + 1 + wait) * n) * h
    BY <1>1
  <1>4. (t * n) * h \in Int /\ n * h \in Int
    BY <1>1
  <1> QED
    BY <1>2, <1>3, <1>4 DEF Hour

(* A processor that works out on local times whether a scope has a period  *)
(* to be rated, and which, gets what ScopeProcessing says, at any time of  *)
(* any behaviour and in any zone, unless the offset at the time differs    *)
(* from the one at the end of the wait: then it may be wrong by what       *)
(* summer time saves (check_time_state, _check_state).                     *)
THEOREM LocalClockAgrees == Spec => []DueOnTheLocalClock
  <1>1. ASSUME TypeOK PROVE DueOnTheLocalClock
    <2> SUFFICES ASSUME NEW s \in Scopes, Known(s)
                 PROVE  GivenInTime(lastProcessed[s], now)
      <3>1. ASSUME NEW r \in Scopes, Known(r)
            PROVE  lastProcessed[r] \in Periods /\ now \in Times
        BY <1>1, <3>1 DEF TypeOK, Known
      <3>2. ASSUME NEW last \in Periods, NEW instant \in Times
            PROVE  InTime[last][instant] = GivenInTime(last, instant)
        BY DEF InTime
      <3> QED
        BY <3>1, <3>2 DEF DueOnTheLocalClock
    <2> SUFFICES ASSUME NEW z \in Zones, NEW wait \in 0 .. 2,
                        NEW hour \in Hour(now) .. Hour(now) + HoursPerTick - 1
                 PROVE  LET last   == lastProcessed[s]
                            given  == ZonedTimeState(z, last, hour, wait)
                            waited == WaitedUntil(last, wait)
                        IN  /\ \A dt \in given :
                                 LocalToUtc(z, dt)
                                   = Hour((last + 1) * TicksPerPeriod)
                            /\ given # {} => waited < hour + z.saved
                            /\ given = {} => hour <= waited + z.saved
                            /\ Offset(z, waited) = Offset(z, hour) =>
                                 /\ given # {} <=> waited < hour
                                 /\ hour = Hour(now) =>
                                      (given # {} <=>
                                         (last + 1 + wait) * TicksPerPeriod < now)
      BY DEF GivenInTime
    <2>1. lastProcessed[s] \in Int /\ now \in Int /\ wait \in Int
      BY <1>1, RatingStoreAssumption DEF TypeOK, Periods, Times, Never
    <2>2. TicksPerPeriod \in Int /\ HoursPerTick \in Nat \ {0}
      BY RatingStoreAssumption, ZonedProcessingAssumption
    <2> DEFINE t == lastProcessed[s]
               n == TicksPerPeriod
               due == (t + 1 + wait) * n
               next == UtcToLocal(z, Hour((t + 1) * n))
               given == ZonedTimeState(z, t, hour, wait)
               waited == WaitedUntil(t, wait)
    <2>3. /\ Hour((t + 1) * n) \in Int /\ Hour(t * n) \in Int /\ Hour(n) \in Int
          /\ waited \in Int /\ hour \in Int
      BY <2>1, <2>2 DEF Hour, WaitedUntil
    <2>4. AddDelta(z, UtcToLocal(z, Hour(t * n)), Hour(n)) = next
      <3>1. AddDelta(z, UtcToLocal(z, Hour(t * n)), Hour(n))
              = UtcToLocal(z, Hour(t * n) + Hour(n))
        BY <2>3, MovedOnUtc
      <3>2. Hour(t * n) + Hour(n) = Hour((t + 1) * n)
        BY <2>1, HoursOfPeriods
      <3> QED
        BY <3>1, <3>2
    <2>5. AddDelta(z, next, wait * Hour(n)).wall = waited + Offset(z, waited)
      <3>1. wait * Hour(n) \in Int
        BY <2>1, <2>3
      <3>2. AddDelta(z, next, wait * Hour(n))
              = UtcToLocal(z, Hour((t + 1) * n) + wait * Hour(n))
        BY <3>1, <2>3, MovedOnUtc
      <3>3. Hour((t + 1) * n) + wait * Hour(n) = waited
        BY <2>1, HoursOfPeriods DEF WaitedUntil
      <3> QED
        BY <3>2, <3>3 DEF UtcToLocal
    <2>6. waited < Hour(now) <=> due < now
      BY <2>1, <2>2, OrderOfMultiples DEF Hour, WaitedUntil
    <2>7. LocalToUtc(z, next) = Hour((t + 1) * n)
      BY <2>3, RoundTrip
    <2>8. given = IF waited + Offset(z, waited) < hour + Offset(z, hour)
                  THEN {next} ELSE {}
      <3>1. UtcToLocal(z, hour).wall = hour + Offset(z, hour)
        BY DEF UtcToLocal
      <3> QED
        BY <2>4, <2>5, <3>1 DEF ZonedTimeState, LocalNext
    <2>9. /\ Offset(z, waited) \in Int /\ Offset(z, hour) \in Int
          /\ Offset(z, waited) <= Offset(z, hour) + z.saved
          /\ Offset(z, hour) <= Offset(z, waited) + z.saved
      <3>1. z.standard \in Int /\ z.saved \in Nat
        BY LocalTimeAssumption
      <3>2. \A u : /\ Offset(z, u) \in Int
                   /\ z.standard <= Offset(z, u)
                   /\ Offset(z, u) <= z.standard + z.saved
        BY <3>1 DEF Offset
      <3> QED
        BY <3>1, <3>2
    <2>10. z.saved \in Nat
      BY LocalTimeAssumption
    <2> HIDE DEF given, waited, due, next
    <2>11. /\ given # {} <=> waited + Offset(z, waited) < hour + Offset(z, hour)
           /\ \A dt \in given : dt = next
      BY <2>8
    <2>12. /\ given # {} => waited < hour + z.saved
           /\ given = {} => hour <= waited + z.saved
           /\ Offset(z, waited) = Offset(z, hour) =>
                (given # {} <=> waited < hour)
      BY <2>3, <2>9, <2>10, <2>11
    <2>13. \A dt \in given : LocalToUtc(z, dt) = Hour((t + 1) * n)
      BY <2>7, <2>11
    <2> QED
      BY <2>6, <2>12, <2>13 DEF given, waited, due
  <1> QED
    BY <1>1, TypeCorrect, PTL

-----------------------------------------------------------------------------
(***************************************************************************)
(* Months.                                                                 *)
(***************************************************************************)
Less == {p \in Nat \X Nat : p[1] < p[2]}

LEMMA LessWF == IsWellFoundedOn(Less, Nat)
  BY NatLessThanWellFounded DEF OpToRel, Less

(* A set of numbers that is not empty has a least one.                     *)
LEMMA LeastNumber ==
  ASSUME NEW T \in SUBSET Nat, T # {}
  PROVE  \E n \in T : \A k \in T : n <= k
  <1>1. PICK n \in T : \A k \in T : ~(<<k, n>> \in Less)
    BY LessWF, WFMin
  <1>2. ASSUME NEW k \in T PROVE n <= k
    <2>1. <<k, n>> \in Nat \X Nat /\ ~(<<k, n>> \in Less)
      BY <1>1
    <2>2. ~(k < n)
      BY <2>1 DEF Less
    <2> QED
      BY <2>1, <2>2
  <1> QED
    BY <1>2

(* A set that holds 0 and with every number the next one holds all.        *)
LEMMA Induction ==
  ASSUME NEW T, 0 \in T, \A n \in Nat : n \in T => n + 1 \in T
  PROVE  Nat \subseteq T
  <1> SUFFICES ASSUME NEW m \in Nat, m \notin T
               PROVE  FALSE
    OBVIOUS
  <1>1. PICK n \in Nat \ T : \A k \in Nat \ T : n <= k
    <2> DEFINE U == Nat \ T
    <2>1. U \in SUBSET Nat /\ U # {}
      OBVIOUS
    <2> HIDE DEF U
    <2>2. \E n \in U : \A k \in U : n <= k
      BY <2>1, LeastNumber
    <2> QED
      BY <2>2 DEF U
  <1>2. n # 0
    BY <1>1
  <1>3. n - 1 \in Nat
    BY <1>2
  <1>4. n - 1 \in T
    BY <1>1, <1>3
  <1>5. (n - 1) + 1 \in T
    BY <1>3, <1>4
  <1> QED
    BY <1>1, <1>5

(* The table of the months' beginnings, for the first n of them.           *)
BeginUpTo(f, n) ==
  f = [m \in 1 .. n |-> IF m = 1 THEN -(Months[1] * Day)
                        ELSE f[m - 1] + Months[m - 1] * Day]

(* There is such a table, of any length.                                   *)
LEMMA BeginExists ==
  ASSUME NEW n \in Nat
  PROVE  \E f : BeginUpTo(f, n)
  <1> DEFINE T == {k \in Nat : \E f : BeginUpTo(f, k)}
  <1>1. 0 \in T
    <2> DEFINE f == [m \in 1 .. 0 |-> 0]
    <2>0. 1 .. 0 = {}
      OBVIOUS
    <2>1. BeginUpTo(f, 0)
      BY <2>0 DEF BeginUpTo
    <2> QED
      BY <2>1
  <1>2. ASSUME NEW k \in Nat, k \in T
        PROVE  k + 1 \in T
    <2>1. PICK f : BeginUpTo(f, k)
      BY <1>2
    <2> DEFINE last == IF k + 1 = 1 THEN -(Months[1] * Day) ELSE f[k] + Months[k] * Day
               g == [m \in 1 .. k + 1 |-> IF m = k + 1 THEN last ELSE f[m]]
    <2>2. ASSUME NEW m \in 1 .. k + 1
          PROVE  g[m] = IF m = 1 THEN -(Months[1] * Day)
                        ELSE g[m - 1] + Months[m - 1] * Day
      <3>1. CASE m = k + 1
        <4>1. g[m] = last
          BY <3>1
        <4>2. m # 1 => g[m - 1] = f[k] /\ m - 1 = k
          BY <3>1
        <4> QED
          BY <3>1, <4>1, <4>2
      <3>2. CASE m # k + 1
        <4>1. m \in 1 .. k /\ g[m] = f[m]
          BY <3>2
        <4>2. f[m] = IF m = 1 THEN -(Months[1] * Day)
                     ELSE f[m - 1] + Months[m - 1] * Day
          BY <2>1, <4>1 DEF BeginUpTo
        <4>3. m # 1 => g[m - 1] = f[m - 1]
          BY <4>1
        <4> HIDE DEF g
        <4> QED
          BY <4>1, <4>2, <4>3
      <3> QED
        BY <3>1, <3>2
    <2> DEFINE h == [m \in 1 .. k + 1 |-> IF m = 1 THEN -(Months[1] * Day)
                        ELSE g[m - 1] + Months[m - 1] * Day]
    <2>3. g = h
      <3>1. \A m \in 1 .. k + 1 : g[m] = h[m]
        <4> HIDE DEF g
        <4> QED
          BY <2>2
      <3>2. g = [m \in 1 .. k + 1 |-> g[m]] /\ h = [m \in 1 .. k + 1 |-> h[m]]
        OBVIOUS
      <3> HIDE DEF g, h
      <3> QED
        BY <3>1, <3>2
    <2>4. BeginUpTo(g, k + 1)
      <3> HIDE DEF g
      <3> QED
        BY <2>3 DEF BeginUpTo
    <2> HIDE DEF g
    <2> QED
      BY <2>4
  <1> HIDE DEF T
  <1>3. Nat \subseteq T
    BY <1>1, <1>2, Induction
  <1> QED
    BY <1>3 DEF T

LEMMA BeginDefined == BeginUpTo(Begin, Len(Months) + 1)
  <1>1. Len(Months) + 1 \in Nat
    BY LocalTimeAssumption
  <1>2. \E f : BeginUpTo(f, Len(Months) + 1)
    BY <1>1, BeginExists
  <1> QED
    BY <1>2 DEF Begin, BeginUpTo

LEMMA BeginSteps ==
  /\ DOMAIN Begin = 1 .. Len(Months) + 1
  /\ Begin[1] = -(Months[1] * Day)
  /\ \A m \in 1 .. Len(Months) : Begin[m + 1] = Begin[m] + Months[m] * Day
  <1> DEFINE f == Begin
             n == Len(Months)
  <1>0. n \in Nat
    BY LocalTimeAssumption
  <1>1. f = [m \in 1 .. n + 1 |-> IF m = 1 THEN -(Months[1] * Day)
                                  ELSE f[m - 1] + Months[m - 1] * Day]
    BY BeginDefined DEF BeginUpTo
  <1> HIDE DEF f, n
  <1>2. DOMAIN f = 1 .. n + 1
    BY <1>1
  <1>3. \A m \in 1 .. n + 1 : f[m] = IF m = 1 THEN -(Months[1] * Day)
                                    ELSE f[m - 1] + Months[m - 1] * Day
    BY <1>1
  <1>4. f[1] = -(Months[1] * Day)
    BY <1>0, <1>3
  <1>5. ASSUME NEW m \in 1 .. n
        PROVE  f[m + 1] = f[m] + Months[m] * Day
    <2>1. m + 1 \in 1 .. n + 1 /\ m + 1 # 1 /\ (m + 1) - 1 = m
      BY <1>0
    <2> QED
      BY <1>3, <2>1
  <1> QED
    BY <1>2, <1>4, <1>5 DEF f, n

LEMMA Lengths ==
  ASSUME Months # <<>>
  PROVE  /\ Len(Months) \in Nat \ {0}
         /\ \A m \in 1 .. Len(Months) : Months[m] * Day \in Nat \ {0}
  <1>1. Months \in Seq(Nat \ {0}) /\ Day \in Nat \ {0}
    BY LocalTimeAssumption
  <1>2. ASSUME NEW m \in 1 .. Len(Months) PROVE Months[m] * Day \in Nat \ {0}
    <2>1. Months[m] \in Nat \ {0}
      BY <1>1
    <2> HIDE DEF LocalTimeAssumption
    <2>2. \A a, b \in Nat \ {0} : a * b \in Nat \ {0}
      OBVIOUS
    <2> QED
      BY <1>1, <2>1, <2>2
  <1> QED
    BY <1>1, <1>2

LEMMA BeginTypes ==
  ASSUME Months # <<>>
  PROVE  \A m \in 1 .. Len(Months) + 1 : Begin[m] \in Int
  <1> DEFINE n == Len(Months)
             T == {k \in Nat : k \in 1 .. n + 1 => Begin[k] \in Int}
  <1>0. n \in Nat \ {0}
    BY Lengths
  <1>1. 0 \in T
    OBVIOUS
  <1>2. ASSUME NEW k \in Nat, k \in T PROVE k + 1 \in T
    <2>1. CASE k = 0
      <3>1. Months[1] * Day \in Nat
        BY <1>0, Lengths
      <3>2. Begin[1] \in Int
        BY <3>1, BeginSteps
      <3> QED
        BY <2>1, <3>2
    <2>2. CASE k \in 1 .. n
      <3>1. Begin[k] \in Int /\ Months[k] * Day \in Int
        BY <1>0, <1>2, <2>2, Lengths
      <3>2. Begin[k + 1] \in Int
        BY <2>2, <3>1, BeginSteps
      <3> QED
        BY <3>2
    <2>3. CASE k > n
      BY <1>0, <2>3
    <2> QED
      BY <1>0, <2>1, <2>2, <2>3
  <1> HIDE DEF T
  <1>3. Nat \subseteq T
    BY <1>1, <1>2, Induction
  <1> QED
    BY <1>0, <1>3 DEF T

(* Months come one after the other.                                        *)
LEMMA BeginOrder ==
  ASSUME Months # <<>>
  PROVE  \A i, j \in 1 .. Len(Months) + 1 : i < j => Begin[i] < Begin[j]
  <1> DEFINE n == Len(Months)
  <1>0. n \in Nat \ {0}
    BY Lengths
  <1> SUFFICES ASSUME NEW i \in 1 .. n + 1
               PROVE  \A j \in 1 .. n + 1 : i < j => Begin[i] < Begin[j]
    OBVIOUS
  <1> DEFINE T == {k \in Nat : k \in 1 .. n + 1 /\ i < k => Begin[i] < Begin[k]}
  <1>1. 0 \in T
    OBVIOUS
  <1>2. ASSUME NEW k \in Nat, k \in T PROVE k + 1 \in T
    <2> SUFFICES ASSUME k + 1 \in 1 .. n + 1, i < k + 1
                 PROVE  Begin[i] < Begin[k + 1]
      OBVIOUS
    <2>1. k \in 1 .. n
      BY <1>0
    <2>2. Begin[k + 1] = Begin[k] + Months[k] * Day
      BY <2>1, BeginSteps
    <2>3. Months[k] * Day \in Nat \ {0}
      BY <2>1, Lengths
    <2>4. Begin[k] \in Int /\ Begin[i] \in Int
      BY <1>0, <2>1, BeginTypes
    <2>5. Begin[k] < Begin[k + 1]
      BY <2>2, <2>3, <2>4
    <2>6. i = k \/ Begin[i] < Begin[k]
      BY <1>0, <1>2, <2>1
    <2> QED
      BY <2>2, <2>3, <2>4, <2>6
  <1> HIDE DEF T
  <1>3. Nat \subseteq T
    BY <1>1, <1>2, Induction
  <1> QED
    BY <1>0, <1>3 DEF T

(* An hour of the calendar is in one month.                                *)
LEMMA MonthUnique ==
  ASSUME Months # <<>>, NEW hour \in Int, NEW m \in DOMAIN Months,
         Begin[m] <= hour, hour < Begin[m + 1]
  PROVE  MonthOf(hour) = m
  <1> DEFINE n == Len(Months)
  <1>0. n \in Nat \ {0} /\ DOMAIN Months = 1 .. n
    BY Lengths, LocalTimeAssumption
  <1>1. ASSUME NEW k \in 1 .. n, Begin[k] <= hour, hour < Begin[k + 1]
        PROVE  k = m
    <2>1. \A i \in 1 .. n + 1 : Begin[i] \in Int
      BY BeginTypes
    <2>2. ASSUME NEW i \in 1 .. n, NEW j \in 1 .. n, i < j,
                 hour < Begin[i + 1], Begin[j] <= hour
          PROVE  FALSE
      <3>1. i + 1 \in 1 .. n + 1 /\ j \in 1 .. n + 1
        BY <1>0
      <3>2. i + 1 = j \/ Begin[i + 1] < Begin[j]
        BY <1>0, <3>1, <2>2, BeginOrder
      <3>3. Begin[i + 1] <= Begin[j]
        BY <2>1, <3>1, <3>2
      <3> QED
        BY <2>1, <2>2, <3>1, <3>3
    <2> QED
      BY <1>0, <1>1, <2>2
  <1>2. \A k \in DOMAIN Months : (Begin[k] <= hour /\ hour < Begin[k + 1]) => k = m
    BY <1>0, <1>1
  <1> QED
    BY <1>2 DEF MonthOf

LEMMA MonthExists ==
  ASSUME Months # <<>>, NEW hour \in Int,
         Begin[1] <= hour, hour < Begin[Len(Months) + 1]
  PROVE  /\ MonthOf(hour) \in 1 .. Len(Months)
         /\ Begin[MonthOf(hour)] <= hour
         /\ hour < Begin[MonthOf(hour) + 1]
  <1> DEFINE n == Len(Months)
             T == {k \in Nat : k \in 1 .. n + 1 /\ hour < Begin[k]}
  <1>0. n \in Nat \ {0} /\ DOMAIN Months = 1 .. n
    BY Lengths, LocalTimeAssumption
  <1>1. T \in SUBSET Nat /\ n + 1 \in T
    BY <1>0
  <1> HIDE DEF T
  <1>2. PICK k \in T : \A j \in T : k <= j
    BY <1>1, LeastNumber
  <1>3. k \in 1 .. n + 1 /\ hour < Begin[k]
    BY <1>2 DEF T
  <1>4. k # 1
    BY <1>3, BeginTypes, <1>0
  <1>5. k - 1 \in 1 .. n /\ (k - 1) + 1 = k
    BY <1>0, <1>3, <1>4
  <1>6. k - 1 \notin T
    BY <1>2, <1>3, <1>0, <1>5
  <1>7. ~(hour < Begin[k - 1])
    BY <1>0, <1>5, <1>6 DEF T
  <1>8. Begin[k - 1] \in Int
    BY <1>0, <1>5, BeginTypes
  <1>9. Begin[k - 1] <= hour
    BY <1>7, <1>8
  <1>10. MonthOf(hour) = k - 1
    BY <1>0, <1>3, <1>5, <1>9, MonthUnique
  <1> QED
    BY <1>3, <1>5, <1>9, <1>10
(* The offset of a zone where the clock shows b.                           *)
OffsetAt(z, b) ==
  z.standard + (IF b - z.standard \in z.summer THEN z.saved ELSE 0)

(* The wall clock passes b once.                                           *)
LEMMA PassesOnce ==
  ASSUME NEW z \in Zones, NEW b \in Int, Settled(z, b)
  PROVE  /\ OffsetAt(z, b) \in Int
         /\ LocalToUtc(z, [wall |-> b, fold |-> 0]) = b - OffsetAt(z, b)
         /\ \A u \in Int : b <= u + Offset(z, u) <=> b - OffsetAt(z, b) <= u
  <1> DEFINE std == z.standard
             saved == z.saved
             dt == [wall |-> b, fold |-> 0]
             k == OffsetAt(z, b)
  <1>0. std \in Int /\ saved \in Nat
    BY LocalTimeAssumption
  <1>1. b - std \in b - std - saved .. b - std
    BY <1>0
  <1>2. b - std - saved \in b - std - saved .. b - std
    BY <1>0
  <1>3. CASE b - std - saved .. b - std \subseteq z.summer
    <2>1. b - std \in z.summer /\ k = std + saved
      BY <1>1, <1>3 DEF OffsetAt
    <2>2. IsDst(z, dt)
      BY <2>1 DEF IsDst
    <2>3. LocalToUtc(z, dt) = b - std - saved
      BY <2>2 DEF LocalToUtc
    <2>4. ASSUME NEW u \in Int
          PROVE  b <= u + Offset(z, u) <=> b - k <= u
      <3>1. CASE u \in z.summer
        BY <1>0, <2>1, <3>1 DEF Offset
      <3>2. CASE u \notin z.summer
        <4>1. u < b - std - saved \/ u > b - std
          BY <1>0, <1>3, <3>2
        <4>2. Offset(z, u) = std
          BY <1>0, <3>2 DEF Offset
        <4> HIDE DEF k, std, saved
        <4> QED
          BY <1>0, <2>1, <4>1, <4>2
      <3> QED
        BY <3>1, <3>2
    <2> HIDE DEF k, dt, std, saved
    <2>5. k \in Int /\ b - std - saved = b - k
      BY <1>0, <2>1
    <2> QED
      BY <2>3, <2>4, <2>5 DEF k, dt
  <1>4. CASE (b - std - saved .. b - std) \cap z.summer = {}
    <2>1. b - std \notin z.summer /\ b - std - saved \notin z.summer /\ k = std
      BY <1>0, <1>1, <1>2, <1>4 DEF OffsetAt
    <2>2. ~IsDst(z, dt)
      BY <2>1 DEF IsDst, Ambiguous
    <2>3. LocalToUtc(z, dt) = b - std
      BY <1>0, <2>2 DEF LocalToUtc
    <2>4. ASSUME NEW u \in Int
          PROVE  b <= u + Offset(z, u) <=> b - k <= u
      <3>1. CASE u \notin z.summer
        BY <1>0, <2>1, <3>1 DEF Offset
      <3>2. CASE u \in z.summer
        <4>1. u < b - std - saved \/ u > b - std
          BY <1>0, <1>4, <3>2
        <4>2. Offset(z, u) = std + saved
          BY <1>0, <3>2 DEF Offset
        <4> HIDE DEF k, std, saved
        <4> QED
          BY <1>0, <2>1, <4>1, <4>2
      <3> QED
        BY <3>1, <3>2
    <2> HIDE DEF k, dt, std, saved
    <2> QED
      BY <1>0, <2>1, <2>3, <2>4 DEF k, dt
  <1> QED
    BY <1>3, <1>4 DEF Settled

(* Where the offset of one month's beginning puts the next one's, the      *)
(* next one's offset holds already.                                        *)
LEMMA OffsetOfEnd ==
  ASSUME NEW z \in Zones, NEW b \in Int, NEW c \in Int,
         Settled(z, b), Settled(z, c)
  PROVE  /\ Offset(z, b - OffsetAt(z, b)) = OffsetAt(z, b)
         /\ Offset(z, c - OffsetAt(z, b)) = OffsetAt(z, c)
  <1> DEFINE std == z.standard
             saved == z.saved
  <1>0. std \in Int /\ saved \in Nat
    BY LocalTimeAssumption
  <1>1. OffsetAt(z, b) \in {std, std + saved}
    BY <1>0 DEF OffsetAt
  <1>2. ASSUME NEW d \in Int, Settled(z, d), NEW k \in {std, std + saved}
        PROVE  Offset(z, d - k) = OffsetAt(z, d)
    <2> DEFINE hours == d - std - saved .. d - std
    <2>1. d - k \in hours /\ d - std \in hours
      BY <1>0
    <2>2. hours \subseteq z.summer \/ hours \cap z.summer = {}
      BY <1>2 DEF Settled
    <2> HIDE DEF hours
    <2>3. d - k \in z.summer <=> d - std \in z.summer
      BY <2>1, <2>2
    <2> QED
      BY <2>3 DEF Offset, OffsetAt
  <1> QED
    BY <1>1, <1>2

(* The default range of the API is the month, but for the change of the    *)
(* offset in it.                                                           *)
LEMMA MonthsCover ==
  ASSUME CalendarFits, NEW z \in Zones, NEW hour \in Hours
  PROVE  Covers(z, hour)
  <1> DEFINE n == Len(Months)
             wall == hour + Offset(z, hour)
             m == MonthOf(wall)
             b == Begin[m]
             e == Begin[m + 1]
             k == OffsetAt(z, b)
             l == OffsetAt(z, e)
             len == Months[m] * Day
             range == DefaultRange(z, hour)
  <1>0. Months # <<>> /\ n \in Nat \ {0}
    BY Lengths DEF CalendarFits
  <1>1. \A u \in Hours : u \in Int /\ Offset(z, u) \in Int
    BY LocalTimeAssumption DEF Offset
  <1>2. wall \in Int /\ hour \in Int
    BY <1>1
  <1>3. \A u \in Hours : \A h \in {u, u + Offset(z, u)} :
          Begin[1] <= h /\ h < Begin[n + 1]
    BY DEF CalendarFits
  <1>4. m \in 1 .. n
    BY <1>0, <1>2, <1>3, MonthExists
  <1>5. b \in Int /\ e \in Int /\ e = b + len /\ len \in Int
    BY <1>0, <1>4, BeginTypes, BeginSteps, Lengths
  <1>6. Settled(z, b) /\ Settled(z, e)
    BY <1>0, <1>4, BeginSteps DEF CalendarFits
  <1>7. k \in Int /\ l \in Int
    BY <1>5, <1>6, PassesOnce
  <1>8. range.begin = b - k /\ range.end = e - k
    <2> DEFINE start == [wall |-> b, fold |-> 0]
               dt == UtcToLocal(z, hour)
    <2>1. dt.wall = wall
      BY DEF UtcToLocal
    <2>2. GetMonthStart(dt) = start
      BY <2>1 DEF GetMonthStart
    <2>3. LocalToUtc(z, start) = b - k
      BY <1>5, <1>6, PassesOnce
    <2>4. GetNextMonth(z, dt) = UtcToLocal(z, (b - k) + len)
      BY <2>1, <2>2, <2>3 DEF GetNextMonth, AddDelta
    <2>5. (b - k) + len = e - k /\ e - k \in Int
      BY <1>5, <1>7
    <2>6. LocalToUtc(z, UtcToLocal(z, e - k)) = e - k
      BY <2>5, RoundTrip
    <2> HIDE DEF dt, start, b, e, k, len
    <2> QED
      BY <2>2, <2>3, <2>4, <2>5, <2>6 DEF DefaultRange, dt
  <1>9. Offset(z, range.begin) = k /\ Offset(z, range.end) = l
    BY <1>5, <1>6, <1>8, OffsetOfEnd
  <1>10. InRange(hour, NaiveRange(hour))
    <2> DEFINE i == MonthOf(hour)
    <2>1. /\ i \in 1 .. n
          /\ Begin[i] <= hour
          /\ hour < Begin[i + 1]
      BY <1>0, <1>2, <1>3, MonthExists
    <2>2. Begin[i + 1] = Begin[i] + Months[i] * Day
      BY <2>1, BeginSteps
    <2>3. Months[i] \in Int /\ Day \in Int /\ Begin[i] \in Int
      BY <1>0, <2>1, BeginTypes, LocalTimeAssumption
    <2>4. (Begin[i] + (Months[i] - 1) * Day) + Day = Begin[i] + Months[i] * Day
      BY <2>3
    <2> HIDE DEF i
    <2> QED
      BY <2>1, <2>2, <2>4 DEF InRange, NaiveRange, NaiveMonthEnd, i
  <1>11. ASSUME NEW u \in Hours
         PROVE  u \in SameMonth(z, hour) <=> b - k <= u /\ u < e - l
    <2> DEFINE shown == u + Offset(z, u)
    <2>1. shown \in Int /\ u \in Int
      BY <1>1
    <2>2. u \in SameMonth(z, hour) <=> MonthOf(shown) = m
      BY DEF SameMonth
    <2>3. MonthOf(shown) = m <=> b <= shown /\ shown < e
      <3>1. ASSUME MonthOf(shown) = m PROVE b <= shown /\ shown < e
        BY <1>0, <1>3, <2>1, <3>1, MonthExists
      <3>2. ASSUME b <= shown, shown < e PROVE MonthOf(shown) = m
        <4>1. m \in DOMAIN Months
          BY <1>4, LocalTimeAssumption
        <4> QED
          BY <1>0, <2>1, <3>2, <4>1, MonthUnique
      <3> QED
        BY <3>1, <3>2
    <2>4. b <= shown <=> b - k <= u
      BY <1>5, <1>6, <2>1, PassesOnce
    <2>5. e <= shown <=> e - l <= u
      BY <1>5, <1>6, <2>1, PassesOnce
    <2> HIDE DEF shown, b, e, k, l, m
    <2> QED
      BY <1>5, <1>7, <2>1, <2>2, <2>3, <2>4, <2>5
  <1>12. (e - k) - (l - k) = e - l
    BY <1>5, <1>7
  <1>13. range = [begin |-> b - k, end |-> e - k]
    BY <1>8 DEF DefaultRange
  <1> HIDE DEF b, e, k, l, m, wall, range
  <1>14. \A u \in Hours :
           u \in SameMonth(z, hour)
             <=> InRange(u, [range EXCEPT !.end = @ - (l - k)])
    <2>1. [range EXCEPT !.end = @ - (l - k)] = [begin |-> b - k, end |-> e - l]
      BY <1>12, <1>13
    <2> QED
      BY <1>11, <2>1 DEF InRange
  <1> QED
    BY <1>9, <1>10, <1>14 DEF Covers, range

-----------------------------------------------------------------------------
(* In zones that do not change their offset with a month, and at any time  *)
(* of any behaviour: periods tile the time, the processors' local clocks   *)
(* agree with the model's, and the range that a listing or a total without *)
(* one gets (_check_begin_end) holds the hours of the month that is asked  *)
(* in and no other, but for the change of the offset in that month.        *)
THEOREM RangesAreMonths ==
  ASSUME CalendarFits
  PROVE  Spec => []PeriodsTile
  <1>1. ClockSound
    <2>1. Hours \subseteq Int
      BY LocalTimeAssumption
    <2> QED
      BY <2>1, PeriodsMeet, MonthsCover DEF ClockSound
  <1>2. DueOnTheLocalClock => PeriodsTile
    BY <1>1 DEF PeriodsTile
  <1> QED
    BY <1>2, LocalClockAgrees, PTL
=============================================================================
