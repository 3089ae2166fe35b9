------------------------- MODULE CallLifecycleProofs -------------------------
(***************************************************************************)
(* The calls implement the cache's specification, so that everything       *)
(* proved about ConnectionCache holds of them; and what they add to it.    *)
(***************************************************************************)
EXTENDS CallLifecycle, ConnectionCacheProofs

-----------------------------------------------------------------------------
(* Refinement *)

\* A call drives the cache by the cache's own operations and by nothing else:
\* every step of the calls is a step of ConnectionCache or leaves it alone.
LEMMA StepImplements == CallTypeOK /\ [CallNext]_allVars => [Next]_vars
<1> SUFFICES ASSUME CallTypeOK, [CallNext]_allVars PROVE [Next]_vars
  OBVIOUS
<1>1. CASE UNCHANGED allVars
  BY <1>1 DEF allVars
<1>2. CASE \E c \in Calls, k \in Keys : Begin(c, k)
  BY <1>2 DEF Begin
<1>3. ASSUME NEW c \in Calls,
             \/ Refuse(c) \/ Start(c) \/ Finish(c) \/ FinishDead(c)
             \/ FinishDeadUncached(c) \/ GuardFires(c) \/ Cancel(c)
      PROVE  [Next]_vars
  <2>1. CASE Refuse(c)
    BY <2>1 DEF Refuse
  <2>2. CASE Start(c)
    <3>1. target[c] \in Keys
      BY <2>2 DEF Start, CallTypeOK
    <3> QED BY <2>2, <3>1 DEF Start, Next
  <2>3. CASE Finish(c) \/ FinishDead(c) \/ FinishDeadUncached(c)
    BY <2>3 DEF Finish, FinishDead, FinishDeadUncached, Next
  <2>4. CASE GuardFires(c)
    <3>1. want[c] \in Keys
      BY <2>4 DEF GuardFires, CallTypeOK, TypeOK, Phases
    <3> QED BY <2>4, <3>1 DEF GuardFires, EvictIfThere, Next
  <2>5. CASE Cancel(c)
    <3>1. target[c] \in Keys
      BY <2>5 DEF Cancel, CallTypeOK
    <3> QED BY <2>5, <3>1 DEF Cancel, EvictIfThere, Next
  <2> QED BY <1>3, <2>1, <2>2, <2>3, <2>4, <2>5
<1>4. CASE Proceed
  BY <1>4 DEF Proceed, Next
<1>5. CASE AllServed
  BY <1>5 DEF AllServed, allVars
<1> QED BY <1>1, <1>2, <1>3, <1>4, <1>5 DEF CallNext

\* What a call adds to the cache keeps its type.
LEMMA OwnTypes ==
  ASSUME CallTypeOK, [CallNext]_allVars
  PROVE  /\ target' \in [Calls -> Keys \cup {None}]
         /\ answer' \in [Calls -> Answers]
         /\ stmt' \in [Calls -> Statements]
         /\ fired' \subseteq Calls
         /\ discarded' \subseteq Calls
<1>1. CASE UNCHANGED allVars \/ AllServed
  BY <1>1 DEF allVars, callVars, AllServed, CallTypeOK
<1>2. CASE \E c \in Calls, k \in Keys : Begin(c, k)
  BY <1>2 DEF Begin, CallTypeOK
<1>3. CASE Proceed
  BY <1>3 DEF Proceed, CallTypeOK, Statement, Tell, Answers, Statements
<1>4. ASSUME NEW c \in Calls, Refuse(c) \/ Start(c) \/ Finish(c)
      PROVE  /\ target' = target /\ fired' = fired /\ discarded' = discarded
             /\ answer' \in [Calls -> Answers]
             /\ stmt' \in [Calls -> Statements]
  BY <1>4 DEF Refuse, Start, Finish, CallTypeOK, callVars, Tell, Answers, Statements
<1>5. ASSUME NEW c \in Calls, FinishDead(c) \/ FinishDeadUncached(c)
      PROVE  /\ target' = target /\ fired' = fired /\ discarded' \subseteq Calls
             /\ answer' \in [Calls -> Answers]
             /\ stmt' \in [Calls -> Statements]
  <2>1. held[c] \in Calls
    BY <1>5 DEF FinishDead, FinishDeadUncached, ReleaseDead, ReleaseUncached,
                CallTypeOK, TypeOK
  <2> QED BY <1>5, <2>1 DEF FinishDead, FinishDeadUncached, CallTypeOK, Tell,
                            Answers, Statements, Stopped
<1>6. ASSUME NEW c \in Calls, GuardFires(c) \/ Cancel(c)
      PROVE  /\ target' = target /\ fired' \subseteq Calls
             /\ discarded' \subseteq Calls
             /\ answer' \in [Calls -> Answers]
             /\ stmt' \in [Calls -> Statements]
  BY <1>6 DEF GuardFires, Cancel, CallTypeOK, TypeOK, Tell, Answers, Statements,
              Stopped, Active, EntryOf
<1> QED BY <1>1, <1>2, <1>3, <1>4, <1>5, <1>6 DEF CallNext, CallTypeOK

-----------------------------------------------------------------------------
(* The invariant *)

CallInv == CallTypeOK /\ StructInv /\ InFlightExact

LEMMA NextCallInv == CallInv /\ [CallNext]_allVars => CallInv'
<1> SUFFICES ASSUME CallInv, [CallNext]_allVars PROVE CallInv'
  OBVIOUS
<1>1. [Next]_vars
  BY StepImplements DEF CallInv
<1>2. StructInv' /\ InFlightExact'
  BY <1>1, NextStruct, NextExact DEF CallInv
<1>3. CallTypeOK'
  BY <1>2, OwnTypes DEF CallInv, CallTypeOK, StructInv
<1> QED BY <1>2, <1>3 DEF CallInv

THEOREM CallInvCorrect == CallSpec => []CallInv
<1>1. CallInit => CallInv
  BY InitStruct, InitExact
     DEF CallInit, CallInv, CallTypeOK, StructInv, Answers, Statements
<1> QED BY <1>1, NextCallInv, PTL DEF CallSpec

\* Type correctness of the calls.
THEOREM CallTypeCorrect == CallSpec => []CallTypeOK
BY CallInvCorrect, PTL DEF CallInv

\* The calls implement the cache.
THEOREM CallsImplementCache == CallSpec => Spec
<1>1. CallInit => Init
  BY DEF CallInit
<1>2. CallInv /\ [CallNext]_allVars => [Next]_vars
  BY StepImplements DEF CallInv
<1> QED BY <1>1, <1>2, CallInvCorrect, PTL DEF CallSpec, Spec

-----------------------------------------------------------------------------
(* Discarded adapters *)

\* What was given up on had been opened.
DiscardedWereOpen == \A a \in discarded : status[a] \in Settled

\* An adapter once opened is never a creation in flight again.
LEMMA SettledStays ==
  ASSUME StructInv, [Next]_vars, NEW a \in Calls, status[a] \in Settled
  PROVE  status'[a] \in Settled
<1>1. CASE UNCHANGED vars \/ Finished
  BY <1>1 DEF vars, Finished
<1>2. CASE \E c \in Calls, k \in Keys : Acquire(c, k) \/ AcquireUncached(c, k)
  BY <1>2 DEF Acquire, AcquireUncached, BeginCreate, SlotFor, StructInv, TypeOK,
              CallsHoldEntries, Settled
<1>3. CASE \E c \in Calls : \/ Healthy(c) \/ Unhealthy(c) \/ Rebuild(c)
                            \/ CreateFails(c) \/ CloseDone(c) \/ OpenUncached(c)
                            \/ ReleaseUncached(c)
  BY <1>3 DEF Healthy, Unhealthy, Rebuild, BeginCreate, SlotFor, CreateFails,
              CloseDone, OpenUncached, ReleaseUncached, Dispose, StructInv, TypeOK,
              CallsHoldEntries, Settled
<1>4. CASE \E c \in Calls : CreateSucceeds(c) \/ Release(c) \/ ReleaseDead(c)
  BY <1>4 DEF CreateSucceeds, Release, ReleaseDead, SweepInto, Dispose, StructInv,
              TypeOK, Settled
<1>5. CASE (\E k \in Keys : Evict(k)) \/ Reap \/ CloseAll
  BY <1>5 DEF Evict, Reap, CloseAll, Dispose, StructInv, TypeOK, Settled
<1> QED BY <1>1, <1>2, <1>3, <1>4, <1>5 DEF Next

\* A step that discards what it leaves closed and out of the map.
LEMMA DiscardFrame ==
  ASSUME CallInv, DiscardedStayOut, DiscardedWereOpen, [Next]_vars,
         \A a \in discarded' :
            a \notin discarded => /\ a \in Calls /\ status[a] \in Settled
                                 /\ \A k \in Keys : cached'[k] # a
  PROVE  DiscardedStayOut' /\ DiscardedWereOpen'
<1>1. \A a \in discarded' : status'[a] \in Settled
  BY SettledStays DEF CallInv, CallTypeOK, DiscardedWereOpen
<1>2. ASSUME NEW k \in Keys, cached'[k] # None PROVE cached'[k] \notin discarded'
  <2>1. CASE cached'[k] = cached[k]
    BY <1>2, <2>1 DEF DiscardedStayOut, CachedKeys
  <2>2. CASE cached'[k] # cached[k]
    BY <1>2, <2>2, InstallsAreNew DEF CallInv, DiscardedWereOpen, Settled
  <2> QED BY <2>1, <2>2
<1> QED BY <1>1, <1>2 DEF DiscardedStayOut, DiscardedWereOpen, CachedKeys

\* The only key that can hold the adapter a call has is the one it asked for.
LEMMA OneKeyPerAdapter ==
  ASSUME StructInv, NEW c \in Calls, pc[c] = "using"
  PROVE  /\ held[c] \in Calls /\ want[c] \in Keys
         /\ status[held[c]] \in Settled
         /\ \A k \in Keys : cached[k] = held[c] => k = want[c]
BY CacheAssumption DEF StructInv, TypeOK, CallsHoldEntries, CachedIsLive, CachedKeys

LEMMA NextDiscards ==
  ASSUME CallInv, DiscardedStayOut, DiscardedWereOpen, [CallNext]_allVars
  PROVE  DiscardedStayOut' /\ DiscardedWereOpen'
<1>0. StructInv /\ CallTypeOK /\ [Next]_vars
  BY StepImplements DEF CallInv
<1>1. CASE discarded' = discarded
  BY <1>0, <1>1, DiscardFrame
<1>2. ASSUME NEW c \in Calls, FinishDead(c)
      PROVE  DiscardedStayOut' /\ DiscardedWereOpen'
  <2>1. pc[c] = "using" /\ discarded' = discarded \cup {held[c]}
    BY <1>2 DEF FinishDead, ReleaseDead
  <2>2. \A k \in Keys : cached'[k] # held[c]
    <3>1. \A k \in Keys : cached'[k] \in {cached[k], None} /\ cached'[want[c]] = None
      BY <1>0, <1>2, <2>1, OneKeyPerAdapter
         DEF FinishDead, ReleaseDead, SweepInto, Remove
    <3> QED BY <1>0, <2>1, <3>1, OneKeyPerAdapter, CacheAssumption
  <2> QED BY <1>0, <2>1, <2>2, OneKeyPerAdapter, DiscardFrame
<1>3. ASSUME NEW c \in Calls, FinishDeadUncached(c)
      PROVE  DiscardedStayOut' /\ DiscardedWereOpen'
  <2>1. pc[c] = "using" /\ discarded' = discarded \cup {held[c]}
    BY <1>3 DEF FinishDeadUncached, ReleaseUncached
  <2>2. \A k \in Keys : cached'[k] = None
    BY <1>0, <1>3 DEF FinishDeadUncached, ReleaseUncached, StructInv, OffIsEmpty
  <2> QED BY <1>0, <2>1, <2>2, OneKeyPerAdapter, DiscardFrame, CacheAssumption
<1>4. ASSUME NEW c \in Calls, GuardFires(c)
      PROVE  DiscardedStayOut' /\ DiscardedWereOpen'
  <2>1. want[c] \in Keys /\ discarded' = discarded \cup Active(c)
    BY <1>0, <1>4 DEF GuardFires, CallTypeOK, TypeOK, Phases
  <2>2. \A k \in Keys : cached'[k] \in {cached[k], None} /\ cached'[want[c]] = None
    BY <1>0, <1>4, <2>1 DEF GuardFires, EvictIfThere, Evict, Remove, vars
  <2>3. CASE pc[c] = "using"
    <3>1. \A k \in Keys : cached'[k] # held[c]
      BY <1>0, <2>2, <2>3, OneKeyPerAdapter, CacheAssumption
    <3> QED BY <1>0, <2>1, <2>3, <3>1, OneKeyPerAdapter, DiscardFrame DEF Active
  <2>4. CASE pc[c] # "using"
    BY <1>0, <1>1, <2>1, <2>4 DEF Active
  <2> QED BY <2>3, <2>4
<1>5. ASSUME NEW c \in Calls, Cancel(c)
      PROVE  DiscardedStayOut' /\ DiscardedWereOpen'
  <2>1. target[c] \in Keys /\ discarded' = discarded \cup EntryOf(target[c])
    BY <1>0, <1>5 DEF Cancel, CallTypeOK
  <2>2. \A k \in Keys : cached'[k] \in {cached[k], None} /\ cached'[target[c]] = None
    BY <1>0, <1>5, <2>1 DEF Cancel, EvictIfThere, Evict, Remove, vars
  <2>3. \A a \in EntryOf(target[c]) :
           /\ a \in Calls /\ status[a] \in Settled
           /\ \A k \in Keys : cached[k] = a => k = target[c]
    BY <1>0, <2>1, CacheAssumption
       DEF EntryOf, StructInv, TypeOK, CachedIsLive, CachedKeys, Settled
  <2>4. \A a \in EntryOf(target[c]), k \in Keys : cached'[k] # a
    BY <2>2, <2>3, CacheAssumption
  <2> QED BY <1>0, <2>1, <2>3, <2>4, DiscardFrame
<1>6. \/ discarded' = discarded
      \/ \E c \in Calls : \/ FinishDead(c) \/ FinishDeadUncached(c)
                          \/ GuardFires(c) \/ Cancel(c)
  BY DEF CallNext, allVars, callVars, Begin, Refuse, Start, Finish, Proceed, AllServed
<1> QED BY <1>1, <1>2, <1>3, <1>4, <1>5, <1>6

\* A connection the server has given up on is in the map no more.
THEOREM DiscardedStayOutCorrect == CallSpec => []DiscardedStayOut
<1>1. CallInit => DiscardedStayOut /\ DiscardedWereOpen
  BY DEF CallInit, DiscardedStayOut, DiscardedWereOpen
<1>2. CallInv /\ DiscardedStayOut /\ DiscardedWereOpen /\ [CallNext]_allVars
        => DiscardedStayOut' /\ DiscardedWereOpen'
  BY NextDiscards
<1> QED BY <1>1, <1>2, CallInvCorrect, PTL DEF CallSpec

-----------------------------------------------------------------------------
(* Running statements *)

\* A statement runs on behalf of a call that has been handed its adapter.
RunningUses == \A c \in Calls : stmt[c] = "running" => pc[c] = "using"

LEMMA NextRunning ==
  ASSUME CallInv, RunningUses, [CallNext]_allVars
  PROVE  RunningUses'
<1>0. TypeOK /\ CallTypeOK
  BY DEF CallInv, CallTypeOK
<1> SUFFICES ASSUME NEW d \in Calls, stmt'[d] = "running" PROVE pc'[d] = "using"
  BY DEF RunningUses
<1>1. CASE UNCHANGED allVars \/ AllServed
  BY <1>1 DEF allVars, callVars, vars, AllServed, RunningUses
<1>2. ASSUME NEW c \in Calls, NEW k \in Keys, Begin(c, k) PROVE pc'[d] = "using"
  BY <1>2 DEF Begin, vars, RunningUses
<1>3. ASSUME NEW c \in Calls, Refuse(c) PROVE pc'[d] = "using"
  BY <1>0, <1>3 DEF Refuse, vars, RunningUses, CallTypeOK
<1>4. ASSUME NEW c \in Calls, Start(c) PROVE pc'[d] = "using"
  BY <1>0, <1>4 DEF Start, Acquire, AcquireUncached, BeginCreate, callVars, TypeOK,
                    RunningUses
<1>5. ASSUME NEW c \in Calls, Finish(c) PROVE pc'[d] = "using"
  BY <1>0, <1>5 DEF Finish, Release, ReleaseUncached, RunningUses, TypeOK, CallTypeOK
<1>6. ASSUME NEW c \in Calls, FinishDead(c) \/ FinishDeadUncached(c)
      PROVE  pc'[d] = "using"
  BY <1>0, <1>6 DEF FinishDead, FinishDeadUncached, ReleaseDead, ReleaseUncached,
                    Stopped, RunningUses, TypeOK, CallTypeOK
<1>7. ASSUME NEW c \in Calls, GuardFires(c) \/ Cancel(c) PROVE pc'[d] = "using"
  BY <1>0, <1>7 DEF GuardFires, Cancel, EvictIfThere, Evict, vars, Stopped,
                    RunningUses, CallTypeOK
<1>8. CASE Proceed
  <2>1. CASE pc[d] # "using" /\ pc'[d] = "using"
    BY <2>1
  <2>2. CASE ~(pc[d] # "using" /\ pc'[d] = "using")
    <3>1. pc[d] = "using"
      BY <1>8, <2>2 DEF Proceed, Statement, RunningUses
    <3> QED BY <1>0, <1>8, <3>1
            DEF Proceed, Healthy, Unhealthy, Rebuild, BeginCreate, CreateSucceeds,
                CreateFails, Waiters, OpenUncached, CloseDone, Reap, CloseAll, TypeOK
  <2> QED BY <2>1, <2>2
<1> QED BY <1>1, <1>2, <1>3, <1>4, <1>5, <1>6, <1>7, <1>8 DEF CallNext

\* A statement that runs on a connection in the map keeps its counter above zero,
\* so that neither the bound nor the sweep closes it.
THEOREM RunningIsCountedCorrect == CallSpec => []RunningIsCounted
<1>1. CallInit => RunningUses
  BY DEF CallInit, RunningUses
<1>2. CallInv /\ RunningUses /\ [CallNext]_allVars => RunningUses'
  BY NextRunning
<1>3. CallInv /\ RunningUses => RunningIsCounted
  <2> SUFFICES ASSUME CallInv, RunningUses, NEW c \in Calls, stmt[c] = "running",
                      cached[want[c]] = held[c]
               PROVE  inFlight[held[c]] > 0
    BY DEF RunningIsCounted, RunningUses
  <2>1. pc[c] = "using" /\ held[c] \in Calls /\ want[c] \in Keys
    BY OneKeyPerAdapter DEF CallInv, RunningUses
  <2>2. c \in Users(held[c])
    BY <2>1 DEF Users
  <2>3. inFlight[held[c]] = Cardinality(Users(held[c]))
    BY <2>1, CacheAssumption DEF CallInv, InFlightExact, CachedKeys
  <2>4. Cardinality(Users(held[c])) \in Nat /\ Cardinality(Users(held[c])) # 0
    BY <2>2, UsersFinite, FS_EmptySet, FS_CardinalityType
  <2> QED BY <2>3, <2>4
<1> QED BY <1>1, <1>2, <1>3, CallInvCorrect, PTL DEF CallSpec
=============================================================================
