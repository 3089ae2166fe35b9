------------------------ MODULE ConnectionCacheProofs ------------------------
(***************************************************************************)
(* Proofs about ConnectionCache for any set of keys, any finite set of     *)
(* calls, any bound, the cache on or off.                                  *)
(*                                                                         *)
(* StructInv is inductive by itself; InFlightExact is inductive relative   *)
(* to it.  Every action has a lemma for each of the two; actions that run  *)
(* evictIfFull() go through SweepFacts and never look inside the sweep.    *)
(* BoundInv adds the insertion order, which tells what the sweep picks.    *)
(***************************************************************************)
EXTENDS ConnectionCache, FiniteSetTheorems, WellFoundedInduction, TLAPS

-----------------------------------------------------------------------------
(* Helpers *)

\* What evictIfFull() may and may not do, whichever entries it picks: it only
\* empties keys, it closes what it empties, and that was neither the entry it
\* was told to keep nor one in use.
LEMMA SweepFacts ==
  ASSUME NEW map \in [Keys -> Calls \cup {None}],
         NEW order \in [Keys -> SUBSET Keys],
         NEW flight \in [Calls -> Nat],
         NEW st \in [Calls -> Status],
         NEW keep,
         SweepInto(map, order, flight, st, keep)
  PROVE  /\ cached' \in [Keys -> Calls \cup {None}]
         /\ before' \in [Keys -> SUBSET Keys]
         /\ inFlight' = flight
         /\ status' \in [Calls -> Status]
         /\ \A k \in Keys : cached'[k] \in {map[k], None}
         /\ \A k \in Keys : (cached'[k] = None /\ map[k] # None) =>
               /\ map[k] # keep /\ flight[map[k]] = 0
               /\ status'[map[k]] # "live"
         /\ \A a \in Calls :
               \/ status'[a] = st[a]
               \/ /\ st[a] = "live" /\ status'[a] = "closing"
                  /\ \E k \in Keys : map[k] = a /\ cached'[k] = None
<1> DEFINE out == Victims(map, order, flight, keep)
<1>1. /\ out \subseteq Keys
      /\ \A k \in out : map[k] \notin {None, keep} /\ flight[map[k]] = 0
  BY DEF Victims, Idle
<1>2. /\ cached' = Remove(map, out)
      /\ before' = Without(order, out)
      /\ inFlight' = flight
      /\ status' = Dispose(st, {map[k] : k \in out})
  BY DEF SweepInto
<1> HIDE DEF out
<1>3. cached' \in [Keys -> Calls \cup {None}] /\ before' \in [Keys -> SUBSET Keys]
  BY <1>2 DEF Remove, Without
<1>4. status' \in [Calls -> Status]
  BY <1>2 DEF Dispose, Status
<1>5. \A k \in Keys : cached'[k] \in {map[k], None}
  BY <1>2 DEF Remove
<1>6. ASSUME NEW k \in Keys, cached'[k] = None, map[k] # None
      PROVE  map[k] # keep /\ flight[map[k]] = 0 /\ status'[map[k]] # "live"
  <2>1. k \in out
    BY <1>2, <1>6 DEF Remove
  <2>2. map[k] \in Calls /\ map[k] \in {map[l] : l \in out}
    BY <2>1, <1>6
  <2> QED BY <2>1, <2>2, <1>1, <1>2 DEF Dispose
<1>7. ASSUME NEW a \in Calls, status'[a] # st[a]
      PROVE  /\ st[a] = "live" /\ status'[a] = "closing"
             /\ \E k \in Keys : map[k] = a /\ cached'[k] = None
  <2>1. a \in {map[k] : k \in out} /\ st[a] = "live" /\ status'[a] = "closing"
    BY <1>2, <1>7 DEF Dispose
  <2>2. PICK k \in out : map[k] = a
    BY <2>1
  <2> QED BY <2>1, <2>2, <1>1, <1>2 DEF Remove
<1> QED BY <1>2, <1>3, <1>4, <1>5, <1>6, <1>7

\* A call that holds an entry found in the map runs with the cache on.
LEMMA OnlyEnabled ==
  ASSUME StructInv, NEW c \in Calls,
         pc[c] \in {"checking", "disposing", "yielding"}
  PROVE  enabled
BY DEF StructInv, OffIsEmpty

-----------------------------------------------------------------------------
(* The structural invariant *)

LEMMA InitStruct == Init => StructInv
<1> SUFFICES ASSUME Init PROVE StructInv
  OBVIOUS
<1>1. TypeOK
  BY DEF Init, TypeOK, Status, Phases
<1>2. CallsHoldEntries /\ CreationsAreMarked
  BY CacheAssumption DEF Init, CallsHoldEntries, CreationsAreMarked
<1>3. CachedIsLive /\ WarmCreationIsSuspect /\ OffIsEmpty
  BY DEF Init, CachedIsLive, CachedKeys, WarmCreationIsSuspect, OffIsEmpty
<1>4. OrphansNeedASuspect /\ UncachedOwned
  BY DEF Init, OrphansNeedASuspect, Orphan, UncachedOwned
<1> QED BY <1>1, <1>2, <1>3, <1>4 DEF StructInv

LEMMA AcquireStruct ==
  ASSUME StructInv, NEW c \in Calls, NEW k \in Keys, Acquire(c, k) PROVE StructInv'
<1>1. TypeOK'
  <2>1. CASE cached[k] # None
    BY <2>1, CacheAssumption
       DEF StructInv, TypeOK, Status, Phases, Acquire, Touch, CachedKeys
  <2>2. CASE cached[k] = None
    BY <2>2, CacheAssumption
       DEF StructInv, TypeOK, Status, Phases, Acquire, BeginCreate, SlotFor
  <2> QED BY <2>1, <2>2
<1>2. CallsHoldEntries'
  <2>1. CASE cached[k] # None
    BY <2>1, CacheAssumption
       DEF StructInv, CallsHoldEntries, TypeOK, Settled, Acquire, CachedIsLive,
           CachedKeys
  <2>2. CASE cached[k] = None
    BY <2>2, CacheAssumption
       DEF StructInv, CallsHoldEntries, TypeOK, Settled, Acquire, BeginCreate,
           SlotFor, CreationsAreMarked
  <2> QED BY <2>1, <2>2
<1>3. CreationsAreMarked'
  BY CacheAssumption DEF StructInv, CreationsAreMarked, TypeOK,
         CallsHoldEntries, Acquire, BeginCreate, SlotFor, Touch
<1>4. CachedIsLive'
  BY CacheAssumption DEF StructInv, CachedIsLive, TypeOK, CachedKeys,
         CallsHoldEntries, CreationsAreMarked, Settled, Acquire, BeginCreate,
         SlotFor, Touch
<1>5. WarmCreationIsSuspect'
  BY CacheAssumption DEF StructInv, WarmCreationIsSuspect, TypeOK,
         CallsHoldEntries, CreationsAreMarked, Acquire, BeginCreate, SlotFor,
         Touch
<1>6. OffIsEmpty'
  BY CacheAssumption DEF StructInv, OffIsEmpty, TypeOK, Acquire, BeginCreate,
         SlotFor, Touch
<1>7. OrphansNeedASuspect'
  BY CacheAssumption DEF StructInv, OrphansNeedASuspect, TypeOK, Orphan,
         CallsHoldEntries, CreationsAreMarked, CachedIsLive, CachedKeys,
         WarmCreationIsSuspect, Acquire, BeginCreate, SlotFor, Touch
<1>8. UncachedOwned'
  BY CacheAssumption DEF StructInv, UncachedOwned, TypeOK, OffIsEmpty,
         CallsHoldEntries, CreationsAreMarked, Acquire, BeginCreate, SlotFor,
         Touch
<1> QED BY <1>1, <1>2, <1>3, <1>4, <1>5, <1>6, <1>7, <1>8 DEF StructInv

LEMMA AcquireUncachedStruct ==
  ASSUME StructInv, NEW c \in Calls, NEW k \in Keys, AcquireUncached(c, k) PROVE StructInv'
<1>1. TypeOK'
  BY CacheAssumption DEF StructInv, TypeOK, Status, Phases, AcquireUncached
<1>2. CallsHoldEntries'
  BY CacheAssumption DEF StructInv, CallsHoldEntries, TypeOK, Settled,
         AcquireUncached
<1>3. CreationsAreMarked'
  BY CacheAssumption DEF StructInv, CreationsAreMarked, TypeOK,
         CallsHoldEntries, AcquireUncached
<1>4. CachedIsLive'
  BY CacheAssumption DEF StructInv, CachedIsLive, TypeOK, CachedKeys,
         CallsHoldEntries, CreationsAreMarked, Settled, AcquireUncached
<1>5. WarmCreationIsSuspect'
  BY CacheAssumption DEF StructInv, WarmCreationIsSuspect, TypeOK,
         CallsHoldEntries, CreationsAreMarked, AcquireUncached
<1>6. OffIsEmpty'
  BY CacheAssumption DEF StructInv, OffIsEmpty, TypeOK, AcquireUncached
<1>7. OrphansNeedASuspect'
  BY CacheAssumption DEF StructInv, OrphansNeedASuspect, TypeOK, Orphan,
         CallsHoldEntries, CreationsAreMarked, CachedIsLive, CachedKeys,
         WarmCreationIsSuspect, AcquireUncached
<1>8. UncachedOwned'
  BY CacheAssumption DEF StructInv, UncachedOwned, TypeOK, OffIsEmpty,
         CallsHoldEntries, CreationsAreMarked, AcquireUncached
<1> QED BY <1>1, <1>2, <1>3, <1>4, <1>5, <1>6, <1>7, <1>8 DEF StructInv

LEMMA HealthyStruct ==
  ASSUME StructInv, NEW c \in Calls, Healthy(c) PROVE StructInv'
<1>1. TypeOK'
  BY CacheAssumption DEF StructInv, TypeOK, Status, Phases, Healthy
<1>2. CallsHoldEntries'
  BY CacheAssumption DEF StructInv, CallsHoldEntries, TypeOK, Settled, Healthy
<1>3. CreationsAreMarked'
  BY CacheAssumption DEF StructInv, CreationsAreMarked, TypeOK,
         CallsHoldEntries, Healthy
<1>4. CachedIsLive'
  BY CacheAssumption DEF StructInv, CachedIsLive, TypeOK, CachedKeys,
         CallsHoldEntries, CreationsAreMarked, Settled, Healthy
<1>5. WarmCreationIsSuspect'
  BY CacheAssumption DEF StructInv, WarmCreationIsSuspect, TypeOK,
         CallsHoldEntries, CreationsAreMarked, Healthy
<1>6. OffIsEmpty'
  BY CacheAssumption DEF StructInv, OffIsEmpty, TypeOK, Healthy
<1>7. OrphansNeedASuspect'
  BY CacheAssumption DEF StructInv, OrphansNeedASuspect, TypeOK, Orphan,
         CallsHoldEntries, CreationsAreMarked, CachedIsLive, CachedKeys,
         WarmCreationIsSuspect, Healthy
<1>8. UncachedOwned'
  BY CacheAssumption DEF StructInv, UncachedOwned, TypeOK, OffIsEmpty,
         CallsHoldEntries, CreationsAreMarked, Healthy
<1> QED BY <1>1, <1>2, <1>3, <1>4, <1>5, <1>6, <1>7, <1>8 DEF StructInv

LEMMA UnhealthyStruct ==
  ASSUME StructInv, NEW c \in Calls, Unhealthy(c) PROVE StructInv'
<1>1. TypeOK'
  BY CacheAssumption DEF StructInv, TypeOK, Status, Phases, Unhealthy, Remove,
         Without, Dispose
<1>2. CallsHoldEntries'
  BY CacheAssumption DEF StructInv, CallsHoldEntries, TypeOK, Settled,
         Unhealthy, Remove, Without, Dispose
<1>3. CreationsAreMarked'
  BY CacheAssumption DEF StructInv, CreationsAreMarked, TypeOK,
         CallsHoldEntries, Unhealthy, Remove, Without, Dispose
<1>4. CachedIsLive'
  BY CacheAssumption DEF StructInv, CachedIsLive, TypeOK, CachedKeys,
         CallsHoldEntries, CreationsAreMarked, Settled, Unhealthy, Remove,
         Without, Dispose
<1>5. WarmCreationIsSuspect'
  BY CacheAssumption DEF StructInv, WarmCreationIsSuspect, TypeOK,
         CallsHoldEntries, CreationsAreMarked, Unhealthy, Remove, Without,
         Dispose
<1>6. OffIsEmpty'
  BY CacheAssumption DEF StructInv, OffIsEmpty, TypeOK, Unhealthy, Remove,
         Without, Dispose
<1>7. OrphansNeedASuspect'
  BY CacheAssumption DEF StructInv, OrphansNeedASuspect, TypeOK, Orphan,
         CallsHoldEntries, CreationsAreMarked, CachedIsLive, CachedKeys,
         WarmCreationIsSuspect, Unhealthy, Remove, Without, Dispose
<1>8. UncachedOwned'
  BY CacheAssumption DEF StructInv, UncachedOwned, TypeOK, OffIsEmpty,
         CallsHoldEntries, CreationsAreMarked, Unhealthy, Remove, Without,
         Dispose
<1> QED BY <1>1, <1>2, <1>3, <1>4, <1>5, <1>6, <1>7, <1>8 DEF StructInv

LEMMA RebuildStruct ==
  ASSUME StructInv, NEW c \in Calls, Rebuild(c) PROVE StructInv'
<1>1. TypeOK'
  BY CacheAssumption DEF StructInv, TypeOK, Status, Phases, Rebuild,
         BeginCreate, SlotFor
<1>2. CallsHoldEntries'
  BY CacheAssumption
     DEF StructInv, CallsHoldEntries, TypeOK, Settled, Rebuild, BeginCreate,
         SlotFor, CreationsAreMarked
<1>3. CreationsAreMarked'
  BY CacheAssumption DEF StructInv, CreationsAreMarked, TypeOK,
         CallsHoldEntries, Rebuild, BeginCreate, SlotFor
<1>4. CachedIsLive'
  BY CacheAssumption DEF StructInv, CachedIsLive, TypeOK, CachedKeys,
         CallsHoldEntries, CreationsAreMarked, Settled, Rebuild, BeginCreate,
         SlotFor
<1>5. WarmCreationIsSuspect'
  BY CacheAssumption DEF StructInv, WarmCreationIsSuspect, TypeOK,
         CallsHoldEntries, CreationsAreMarked, Rebuild, BeginCreate, SlotFor
<1>6. OffIsEmpty'
  BY OnlyEnabled DEF OffIsEmpty, Rebuild
<1>7. OrphansNeedASuspect'
  BY CacheAssumption DEF StructInv, OrphansNeedASuspect, TypeOK, Orphan,
         CallsHoldEntries, CreationsAreMarked, CachedIsLive, CachedKeys,
         WarmCreationIsSuspect, Rebuild, BeginCreate, SlotFor
<1>8. UncachedOwned'
  BY CacheAssumption DEF StructInv, UncachedOwned, TypeOK, OffIsEmpty,
         CallsHoldEntries, CreationsAreMarked, Rebuild, BeginCreate, SlotFor
<1> QED BY <1>1, <1>2, <1>3, <1>4, <1>5, <1>6, <1>7, <1>8 DEF StructInv

LEMMA CreateFailsStruct ==
  ASSUME StructInv, NEW c \in Calls, CreateFails(c) PROVE StructInv'
<1>1. TypeOK'
  BY CacheAssumption DEF StructInv, TypeOK, Status, Phases, CreateFails,
         Waiters
<1>2. CallsHoldEntries'
  BY CacheAssumption DEF StructInv, CallsHoldEntries, TypeOK, Settled,
         CreateFails, Waiters
<1>3. CreationsAreMarked'
  BY CacheAssumption DEF StructInv, CreationsAreMarked, TypeOK,
         CallsHoldEntries, CreateFails, Waiters
<1>4. CachedIsLive'
  BY CacheAssumption DEF StructInv, CachedIsLive, TypeOK, CachedKeys,
         CallsHoldEntries, CreationsAreMarked, Settled, CreateFails, Waiters
<1>5. WarmCreationIsSuspect'
  BY CacheAssumption DEF StructInv, WarmCreationIsSuspect, TypeOK,
         CallsHoldEntries, CreationsAreMarked, CreateFails, Waiters
<1>6. OffIsEmpty'
  BY CacheAssumption DEF StructInv, OffIsEmpty, TypeOK, CreateFails, Waiters
<1>7. OrphansNeedASuspect'
  BY CacheAssumption DEF StructInv, OrphansNeedASuspect, TypeOK, Orphan,
         CallsHoldEntries, CreationsAreMarked, CachedIsLive, CachedKeys,
         WarmCreationIsSuspect, CreateFails, Waiters
<1>8. UncachedOwned'
  BY CacheAssumption DEF StructInv, UncachedOwned, TypeOK, OffIsEmpty,
         CallsHoldEntries, CreationsAreMarked, CreateFails, Waiters
<1> QED BY <1>1, <1>2, <1>3, <1>4, <1>5, <1>6, <1>7, <1>8 DEF StructInv

LEMMA EvictStruct ==
  ASSUME StructInv, NEW k \in Keys, Evict(k) PROVE StructInv'
<1>1. TypeOK'
  BY CacheAssumption DEF StructInv, TypeOK, Status, Phases, Evict, Remove,
         Without, Dispose
<1>2. CallsHoldEntries'
  BY CacheAssumption DEF StructInv, CallsHoldEntries, TypeOK, Settled, Evict,
         Remove, Without, Dispose
<1>3. CreationsAreMarked'
  BY CacheAssumption DEF StructInv, CreationsAreMarked, TypeOK,
         CallsHoldEntries, Evict, Remove, Without, Dispose
<1>4. CachedIsLive'
  BY CacheAssumption DEF StructInv, CachedIsLive, TypeOK, CachedKeys,
         CallsHoldEntries, CreationsAreMarked, Settled, Evict, Remove,
         Without, Dispose
<1>5. WarmCreationIsSuspect'
  BY CacheAssumption DEF StructInv, WarmCreationIsSuspect, TypeOK,
         CallsHoldEntries, CreationsAreMarked, Evict, Remove, Without, Dispose
<1>6. OffIsEmpty'
  BY CacheAssumption DEF StructInv, OffIsEmpty, TypeOK, Evict, Remove,
         Without, Dispose
<1>7. OrphansNeedASuspect'
  BY CacheAssumption DEF StructInv, OrphansNeedASuspect, TypeOK, Orphan,
         CallsHoldEntries, CreationsAreMarked, CachedIsLive, CachedKeys,
         WarmCreationIsSuspect, Evict, Remove, Without, Dispose
<1>8. UncachedOwned'
  BY CacheAssumption DEF StructInv, UncachedOwned, TypeOK, OffIsEmpty,
         CallsHoldEntries, CreationsAreMarked, Evict, Remove, Without, Dispose
<1> QED BY <1>1, <1>2, <1>3, <1>4, <1>5, <1>6, <1>7, <1>8 DEF StructInv

LEMMA CloseDoneStruct ==
  ASSUME StructInv, NEW c \in Calls, CloseDone(c) PROVE StructInv'
<1>1. TypeOK'
  BY CacheAssumption DEF StructInv, TypeOK, Status, Phases, CloseDone
<1>2. CallsHoldEntries'
  BY CacheAssumption DEF StructInv, CallsHoldEntries, TypeOK, Settled,
         CloseDone
<1>3. CreationsAreMarked'
  BY CacheAssumption DEF StructInv, CreationsAreMarked, TypeOK,
         CallsHoldEntries, CloseDone
<1>4. CachedIsLive'
  BY CacheAssumption DEF StructInv, CachedIsLive, TypeOK, CachedKeys,
         CallsHoldEntries, CreationsAreMarked, Settled, CloseDone
<1>5. WarmCreationIsSuspect'
  BY CacheAssumption DEF StructInv, WarmCreationIsSuspect, TypeOK,
         CallsHoldEntries, CreationsAreMarked, CloseDone
<1>6. OffIsEmpty'
  BY CacheAssumption DEF StructInv, OffIsEmpty, TypeOK, CloseDone
<1>7. OrphansNeedASuspect'
  BY CacheAssumption DEF StructInv, OrphansNeedASuspect, TypeOK, Orphan,
         CallsHoldEntries, CreationsAreMarked, CachedIsLive, CachedKeys,
         WarmCreationIsSuspect, CloseDone
<1>8. UncachedOwned'
  BY CacheAssumption DEF StructInv, UncachedOwned, TypeOK, OffIsEmpty,
         CallsHoldEntries, CreationsAreMarked, CloseDone
<1> QED BY <1>1, <1>2, <1>3, <1>4, <1>5, <1>6, <1>7, <1>8 DEF StructInv

LEMMA OpenUncachedStruct ==
  ASSUME StructInv, NEW c \in Calls, OpenUncached(c) PROVE StructInv'
<1>0. ~enabled /\ pc[c] = "creating" /\ held[c] = c
  BY DEF StructInv, OpenUncached, CreationsAreMarked
<1>1. TypeOK'
  BY <1>0, CacheAssumption DEF StructInv, TypeOK, Status, Phases, OpenUncached
<1>2. CallsHoldEntries'
  BY <1>0, CacheAssumption DEF StructInv, CallsHoldEntries, Settled, TypeOK,
         OffIsEmpty, OpenUncached
<1>3. CreationsAreMarked'
  BY <1>0, CacheAssumption DEF StructInv, CreationsAreMarked, TypeOK,
         OffIsEmpty, OpenUncached
<1>4. CachedIsLive'
  BY CacheAssumption DEF StructInv, CachedIsLive, TypeOK, CachedKeys,
         CallsHoldEntries, CreationsAreMarked, Settled, OpenUncached
<1>5. WarmCreationIsSuspect'
  BY CacheAssumption DEF StructInv, WarmCreationIsSuspect, TypeOK,
         CallsHoldEntries, CreationsAreMarked, OpenUncached
<1>6. OffIsEmpty'
  BY <1>0, CacheAssumption DEF StructInv, OffIsEmpty, TypeOK, OpenUncached
<1>7. OrphansNeedASuspect'
  BY CacheAssumption DEF StructInv, OrphansNeedASuspect, TypeOK, Orphan,
         CallsHoldEntries, CreationsAreMarked, CachedIsLive, CachedKeys,
         WarmCreationIsSuspect, OpenUncached
<1>8. UncachedOwned'
  BY CacheAssumption DEF StructInv, UncachedOwned, TypeOK, OffIsEmpty,
         CallsHoldEntries, CreationsAreMarked, OpenUncached
<1> QED BY <1>1, <1>2, <1>3, <1>4, <1>5, <1>6, <1>7, <1>8 DEF StructInv

LEMMA ReleaseUncachedStruct ==
  ASSUME StructInv, NEW c \in Calls, ReleaseUncached(c) PROVE StructInv'
<1>1. TypeOK'
  BY CacheAssumption DEF StructInv, TypeOK, Status, Phases, ReleaseUncached,
         Dispose
<1>2. CallsHoldEntries'
  BY CacheAssumption DEF StructInv, CallsHoldEntries, TypeOK, Settled,
         ReleaseUncached, Dispose
<1>3. CreationsAreMarked'
  BY CacheAssumption DEF StructInv, CreationsAreMarked, TypeOK,
         CallsHoldEntries, ReleaseUncached, Dispose
<1>4. CachedIsLive'
  BY DEF StructInv, CachedIsLive, TypeOK, CachedKeys, ReleaseUncached, OffIsEmpty
<1>5. WarmCreationIsSuspect'
  BY CacheAssumption DEF StructInv, WarmCreationIsSuspect, TypeOK,
         CallsHoldEntries, CreationsAreMarked, ReleaseUncached, Dispose
<1>6. OffIsEmpty'
  BY CacheAssumption DEF StructInv, OffIsEmpty, TypeOK, ReleaseUncached,
         Dispose
<1>7. OrphansNeedASuspect'
  BY CacheAssumption DEF StructInv, OrphansNeedASuspect, TypeOK, Orphan,
         CallsHoldEntries, CreationsAreMarked, CachedIsLive, CachedKeys,
         WarmCreationIsSuspect, ReleaseUncached, Dispose
<1>8. UncachedOwned'
  BY CacheAssumption DEF StructInv, UncachedOwned, TypeOK, OffIsEmpty,
         CallsHoldEntries, CreationsAreMarked, ReleaseUncached, Dispose
<1> QED BY <1>1, <1>2, <1>3, <1>4, <1>5, <1>6, <1>7, <1>8 DEF StructInv

LEMMA ReapStruct ==
  ASSUME StructInv, Reap PROVE StructInv'
<1>1. TypeOK'
  BY CacheAssumption DEF StructInv, TypeOK, Status, Phases, Reap, Remove,
         Without, Dispose
<1>2. CallsHoldEntries'
  BY CacheAssumption DEF StructInv, CallsHoldEntries, TypeOK, Settled, Reap,
         Remove, Without, Dispose
<1>3. CreationsAreMarked'
  BY CacheAssumption DEF StructInv, CreationsAreMarked, TypeOK,
         CallsHoldEntries, Reap, Remove, Without, Dispose
<1>4. CachedIsLive'
  BY CacheAssumption DEF StructInv, CachedIsLive, TypeOK, CachedKeys,
         CallsHoldEntries, CreationsAreMarked, Settled, Reap, Remove, Without,
         Dispose
<1>5. WarmCreationIsSuspect'
  BY CacheAssumption DEF StructInv, WarmCreationIsSuspect, TypeOK,
         CallsHoldEntries, CreationsAreMarked, Reap, Remove, Without, Dispose
<1>6. OffIsEmpty'
  BY CacheAssumption DEF StructInv, OffIsEmpty, TypeOK, Reap, Remove, Without,
         Dispose
<1>7. OrphansNeedASuspect'
  BY CacheAssumption DEF StructInv, OrphansNeedASuspect, TypeOK, Orphan,
         CallsHoldEntries, CreationsAreMarked, CachedIsLive, CachedKeys,
         WarmCreationIsSuspect, Reap, Remove, Without, Dispose
<1>8. UncachedOwned'
  BY CacheAssumption DEF StructInv, UncachedOwned, TypeOK, OffIsEmpty,
         CallsHoldEntries, CreationsAreMarked, Reap, Remove, Without, Dispose
<1> QED BY <1>1, <1>2, <1>3, <1>4, <1>5, <1>6, <1>7, <1>8 DEF StructInv

LEMMA CloseAllStruct ==
  ASSUME StructInv, CloseAll PROVE StructInv'
<1>1. TypeOK'
  BY CacheAssumption DEF StructInv, TypeOK, Status, Phases, CloseAll, Remove,
         Without, Dispose
<1>2. CallsHoldEntries'
  BY CacheAssumption DEF StructInv, CallsHoldEntries, TypeOK, Settled,
         CloseAll, Remove, Without, Dispose
<1>3. CreationsAreMarked'
  BY CacheAssumption DEF StructInv, CreationsAreMarked, TypeOK,
         CallsHoldEntries, CloseAll, Remove, Without, Dispose
<1>4. CachedIsLive'
  BY CacheAssumption DEF StructInv, CachedIsLive, TypeOK, CachedKeys,
         CallsHoldEntries, CreationsAreMarked, Settled, CloseAll, Remove,
         Without, Dispose
<1>5. WarmCreationIsSuspect'
  BY CacheAssumption DEF StructInv, WarmCreationIsSuspect, TypeOK,
         CallsHoldEntries, CreationsAreMarked, CloseAll, Remove, Without,
         Dispose
<1>6. OffIsEmpty'
  BY CacheAssumption DEF StructInv, OffIsEmpty, TypeOK, CloseAll, Remove,
         Without, Dispose
<1>7. OrphansNeedASuspect'
  BY CacheAssumption DEF StructInv, OrphansNeedASuspect, TypeOK, Orphan,
         CallsHoldEntries, CreationsAreMarked, CachedIsLive, CachedKeys,
         WarmCreationIsSuspect, CloseAll, Remove, Without, Dispose
<1>8. UncachedOwned'
  BY CacheAssumption DEF StructInv, UncachedOwned, TypeOK, OffIsEmpty,
         CallsHoldEntries, CreationsAreMarked, CloseAll, Remove, Without,
         Dispose
<1> QED BY <1>1, <1>2, <1>3, <1>4, <1>5, <1>6, <1>7, <1>8 DEF StructInv

\* The three actions that sweep: the steps before the sweep put the map in some
\* state, SweepFacts says what the sweep makes of it.
LEMMA CreateSucceedsStruct ==
  ASSUME StructInv, NEW a \in Calls, CreateSucceeds(a) PROVE StructInv'
<1> DEFINE k == want[a]
           map == [cached EXCEPT ![k] = a]
           st == [status EXCEPT ![a] = "live"]
           flight == [inFlight EXCEPT ![a] = Cardinality(Waiters(a))]
           order == IF cached[k] = None THEN Touch(k) ELSE before
<1>1. k \in Keys /\ a # None /\ pending[k] = a
  BY CacheAssumption
     DEF CreateSucceeds, StructInv, TypeOK, CreationsAreMarked
<1>2. /\ map \in [Keys -> Calls \cup {None}] /\ st \in [Calls -> Status]
      /\ order \in [Keys -> SUBSET Keys]
  BY <1>1 DEF StructInv, TypeOK, Status, Touch, CachedKeys
<1>3. flight \in [Calls -> Nat]
  <2>1. Waiters(a) \subseteq Calls
    BY DEF Waiters
  <2>2. Cardinality(Waiters(a)) \in Nat
    BY <2>1, FS_Subset, FS_CardinalityType, CacheAssumption
  <2> QED BY <2>2 DEF StructInv, TypeOK
<1>4. SweepInto(map, order, flight, st, a)
  BY DEF CreateSucceeds
<1> HIDE DEF map, st, flight, order
<1>5. /\ cached' \in [Keys -> Calls \cup {None}]
      /\ before' \in [Keys -> SUBSET Keys]
      /\ inFlight' = flight
      /\ status' \in [Calls -> Status]
      /\ \A l \in Keys : cached'[l] \in {map[l], None}
      /\ \A l \in Keys : (cached'[l] = None /\ map[l] # None) =>
            map[l] # a /\ status'[map[l]] # "live"
      /\ \A b \in Calls :
            \/ status'[b] = st[b]
            \/ /\ st[b] = "live" /\ status'[b] = "closing"
               /\ \E l \in Keys : map[l] = b /\ cached'[l] = None
  BY <1>2, <1>3, <1>4, SweepFacts
<1>6. /\ enabled /\ status[a] = "creating"
      /\ pending' = [pending EXCEPT ![k] = None]
      /\ pc' = [c \in Calls |-> IF c \in Waiters(a) THEN "using" ELSE pc[c]]
      /\ UNCHANGED <<enabled, want, held, suspect, down>>
  BY DEF CreateSucceeds
<1>7. status'[a] = "live"
  <2>1. st[a] = "live" /\ \A l \in Keys : map[l] = a => cached'[l] # None
    BY <1>1, <1>5, CacheAssumption DEF StructInv, TypeOK, map, st
  <2> QED BY <2>1, <1>5
<1> USE DEF map, st
<1>8. TypeOK'
  <2>1. pc' \in [Calls -> Phases] /\ pending' \in [Keys -> Calls \cup {None}]
    BY <1>6 DEF StructInv, TypeOK, Phases
  <2>2. \A c \in Calls : pc'[c] # "idle" => want'[c] # None /\ held'[c] # None
    BY <1>6 DEF StructInv, TypeOK, Waiters
  <2> QED BY <2>1, <2>2, <1>3, <1>5, <1>6 DEF StructInv, TypeOK
<1>9. CallsHoldEntries'
  BY <1>1, <1>5, <1>6, <1>7
     DEF StructInv, TypeOK, CallsHoldEntries, Waiters, Settled, Status
<1>10. CreationsAreMarked'
  BY <1>1, <1>5, <1>6, <1>7, CacheAssumption
     DEF StructInv, TypeOK, CreationsAreMarked, Waiters
<1>11. CachedIsLive'
  <2> SUFFICES ASSUME NEW l \in Keys, cached'[l] # None
               PROVE  status'[cached'[l]] = "live" /\ want'[cached'[l]] = l
    BY DEF CachedIsLive, CachedKeys
  <2>1. CASE l = k
    BY <2>1, <1>1, <1>5, <1>6, <1>7 DEF StructInv, TypeOK
  <2>2. CASE l # k
    <3>1. cached'[l] = cached[l] /\ status[cached[l]] = "live" /\ want[cached[l]] = l
      BY <2>2, <1>5 DEF StructInv, TypeOK, CachedIsLive, CachedKeys
    <3>2. status'[cached[l]] # "closing"
      BY <2>2, <3>1, <1>1, <1>5
         DEF StructInv, TypeOK, CachedIsLive, CachedKeys
    <3> QED BY <2>2, <3>1, <3>2, <1>1, <1>5, <1>6 DEF StructInv, TypeOK
  <2> QED BY <2>1, <2>2
<1>12. WarmCreationIsSuspect'
  BY <1>1, <1>5, <1>6 DEF StructInv, TypeOK, WarmCreationIsSuspect
<1>13. OffIsEmpty'
  BY <1>6 DEF OffIsEmpty
<1>14. OrphansNeedASuspect'
  <2> SUFFICES ASSUME NEW b \in Calls, status'[b] = "live",
                      cached'[want[b]] # b, want[b] \notin suspect
               PROVE  FALSE
    BY <1>6 DEF OrphansNeedASuspect, Orphan
  <2>1. b # a
    BY <1>1, <1>5 DEF StructInv, TypeOK
  <2>2. status[b] = "live" /\ want[b] \in Keys
    BY <2>1, <1>5, CacheAssumption DEF StructInv, TypeOK, CallsHoldEntries
  <2>3. cached[want[b]] = b
    BY <2>2, <1>6 DEF StructInv, OrphansNeedASuspect, Orphan
  <2>4. CASE want[b] = k
    BY <2>3, <2>4, <1>1, CacheAssumption DEF StructInv, WarmCreationIsSuspect
  <2>5. CASE want[b] # k
    BY <2>2, <2>3, <2>5, <1>1, <1>5, CacheAssumption DEF StructInv, TypeOK
  <2> QED BY <2>4, <2>5
<1>15. UncachedOwned'
  BY <1>6 DEF UncachedOwned
<1> QED
  BY <1>8, <1>9, <1>10, <1>11, <1>12, <1>13, <1>14, <1>15 DEF StructInv

\* A call ends; the map loses some entries, and exactly those begin to close.
LEMMA ShrinkStruct ==
  ASSUME StructInv, NEW c \in Calls,
         enabled, pc[c] = "using", pc' = [pc EXCEPT ![c] = "done"],
         UNCHANGED <<enabled, pending, want, held, suspect, down>>,
         cached' \in [Keys -> Calls \cup {None}],
         before' \in [Keys -> SUBSET Keys],
         inFlight' \in [Calls -> Nat],
         status' \in [Calls -> Status],
         \A k \in Keys : cached'[k] \in {cached[k], None},
         \A k \in Keys : (cached'[k] = None /\ cached[k] # None)
                           => status'[cached[k]] # "live",
         \A a \in Calls :
            \/ status'[a] = status[a]
            \/ /\ status[a] = "live" /\ status'[a] = "closing"
               /\ \E k \in Keys : cached[k] = a /\ cached'[k] = None
  PROVE  StructInv'
<1>1. TypeOK'
  BY DEF StructInv, TypeOK, Phases
<1>2. CallsHoldEntries'
  BY DEF StructInv, TypeOK, CallsHoldEntries, Settled
<1>3. CreationsAreMarked'
  BY CacheAssumption DEF StructInv, TypeOK, CreationsAreMarked
<1>4. CachedIsLive'
  <2> SUFFICES ASSUME NEW k \in Keys, cached'[k] # None
               PROVE  status'[cached'[k]] = "live" /\ want'[cached'[k]] = k
    BY DEF CachedIsLive, CachedKeys
  <2>1. cached'[k] = cached[k] /\ status[cached[k]] = "live" /\ want[cached[k]] = k
    BY DEF StructInv, CachedIsLive, CachedKeys
  <2>2. status'[cached[k]] # "closing"
    BY <2>1 DEF StructInv, TypeOK, CachedIsLive, CachedKeys
  <2> QED BY <2>1, <2>2 DEF StructInv, TypeOK
<1>5. WarmCreationIsSuspect'
  BY DEF StructInv, WarmCreationIsSuspect
<1>6. OffIsEmpty' /\ UncachedOwned'
  BY DEF OffIsEmpty, UncachedOwned
<1>7. OrphansNeedASuspect'
  <2> SUFFICES ASSUME NEW a \in Calls, status'[a] = "live",
                      cached'[want[a]] # a, want[a] \notin suspect
               PROVE  FALSE
    BY DEF OrphansNeedASuspect, Orphan
  <2>1. status[a] = "live" /\ want[a] \in Keys
    BY CacheAssumption DEF StructInv, TypeOK, CallsHoldEntries
  <2>2. cached[want[a]] = a
    BY <2>1 DEF StructInv, OrphansNeedASuspect, Orphan
  <2> QED BY <2>1, <2>2, CacheAssumption
<1> QED BY <1>1, <1>2, <1>3, <1>4, <1>5, <1>6, <1>7 DEF StructInv

LEMMA ReleaseStruct ==
  ASSUME StructInv, NEW c \in Calls, Release(c) PROVE StructInv'
<1> DEFINE e == EntryToRelease(held[c])
<1>1. /\ enabled /\ pc[c] = "using" /\ pc' = [pc EXCEPT ![c] = "done"]
      /\ UNCHANGED <<enabled, pending, want, held, suspect, down>>
  BY DEF Release
<1>2. PICK flight \in [Calls -> Nat], keep \in Calls \cup {None} :
         SweepInto(cached, before, flight, status, keep)
  <2>1. e \in Calls \cup {None}
    BY <1>1 DEF EntryToRelease, StructInv, TypeOK
  <2>2. CASE e # None
    <3>1. [inFlight EXCEPT ![e] = IF @ > 0 THEN @ - 1 ELSE 0] \in [Calls -> Nat]
      BY <2>1, <2>2 DEF StructInv, TypeOK
    <3>2. SweepInto(cached, before,
                    [inFlight EXCEPT ![e] = IF @ > 0 THEN @ - 1 ELSE 0],
                    status, e)
      BY <2>2 DEF Release
    <3> QED BY <2>1, <3>1, <3>2
  <2>3. CASE e = None
    BY <2>3 DEF Release, StructInv, TypeOK
  <2> QED BY <2>2, <2>3
<1>3. /\ cached \in [Keys -> Calls \cup {None}]
      /\ before \in [Keys -> SUBSET Keys]
      /\ status \in [Calls -> Status]
  BY DEF StructInv, TypeOK
<1>4. /\ cached' \in [Keys -> Calls \cup {None}]
      /\ before' \in [Keys -> SUBSET Keys]
      /\ inFlight' = flight
      /\ status' \in [Calls -> Status]
      /\ \A k \in Keys : cached'[k] \in {cached[k], None}
      /\ \A k \in Keys : (cached'[k] = None /\ cached[k] # None)
                           => status'[cached[k]] # "live"
      /\ \A a \in Calls :
            \/ status'[a] = status[a]
            \/ /\ status[a] = "live" /\ status'[a] = "closing"
               /\ \E k \in Keys : cached[k] = a /\ cached'[k] = None
  BY <1>2, <1>3, SweepFacts
<1> QED BY <1>1, <1>2, <1>4, ShrinkStruct

LEMMA ReleaseDeadStruct ==
  ASSUME StructInv, NEW c \in Calls, ReleaseDead(c) PROVE StructInv'
<1> DEFINE k == want[c]
           map == Remove(cached, {k})
           order == Without(before, {k})
           st == Dispose(status, {cached[k]})
<1>1. /\ enabled /\ pc[c] = "using" /\ pc' = [pc EXCEPT ![c] = "done"]
      /\ UNCHANGED <<enabled, pending, want, held, suspect, down>>
      /\ SweepInto(map, order, inFlight, st, None)
  BY DEF ReleaseDead
<1>2. /\ map \in [Keys -> Calls \cup {None}]
      /\ order \in [Keys -> SUBSET Keys]
      /\ inFlight \in [Calls -> Nat]
      /\ st \in [Calls -> Status]
  BY DEF StructInv, TypeOK, Status, Remove, Without, Dispose
<1>3. k \in Keys
  BY <1>1 DEF StructInv, TypeOK
<1>4. \A l \in Keys : map[l] = IF l = k THEN None ELSE cached[l]
  BY DEF Remove
<1>5. \A a \in Calls : st[a] = IF a = cached[k] /\ status[a] = "live"
                               THEN "closing" ELSE status[a]
  BY DEF Dispose
<1> HIDE DEF map, order, st
<1>6. /\ cached' \in [Keys -> Calls \cup {None}]
      /\ before' \in [Keys -> SUBSET Keys]
      /\ inFlight' = inFlight
      /\ status' \in [Calls -> Status]
      /\ \A l \in Keys : cached'[l] \in {map[l], None}
      /\ \A l \in Keys : (cached'[l] = None /\ map[l] # None)
                           => status'[map[l]] # "live"
      /\ \A a \in Calls :
            \/ status'[a] = st[a]
            \/ /\ st[a] = "live" /\ status'[a] = "closing"
               /\ \E l \in Keys : map[l] = a /\ cached'[l] = None
  BY <1>1, <1>2, SweepFacts
<1>7. \A l \in Keys : cached'[l] \in {cached[l], None}
  BY <1>4, <1>6
<1>8. \A l \in Keys : (cached'[l] = None /\ cached[l] # None)
                      => status'[cached[l]] # "live"
  BY <1>3, <1>4, <1>5, <1>6 DEF StructInv, TypeOK
<1>9. \A a \in Calls :
        \/ status'[a] = status[a]
        \/ /\ status[a] = "live" /\ status'[a] = "closing"
           /\ \E l \in Keys : cached[l] = a /\ cached'[l] = None
  <2> SUFFICES ASSUME NEW a \in Calls, status'[a] # status[a]
               PROVE  /\ status[a] = "live" /\ status'[a] = "closing"
                      /\ \E l \in Keys : cached[l] = a /\ cached'[l] = None
    OBVIOUS
  <2>1. CASE status'[a] = st[a]
    BY <2>1, <1>3, <1>4, <1>5, <1>6
  <2>2. CASE st[a] = "live" /\ status'[a] = "closing"
             /\ \E l \in Keys : map[l] = a /\ cached'[l] = None
    BY <2>2, <1>4, <1>5, CacheAssumption
  <2> QED BY <2>1, <2>2, <1>6
<1> QED BY <1>1, <1>2, <1>6, <1>7, <1>8, <1>9, ShrinkStruct

LEMMA NextStruct == StructInv /\ [Next]_vars => StructInv'
<1> SUFFICES ASSUME StructInv, [Next]_vars PROVE StructInv'
  OBVIOUS
<1>1. CASE UNCHANGED vars
  BY <1>1 DEF vars, StructInv, TypeOK, CallsHoldEntries, CreationsAreMarked,
              CachedIsLive, CachedKeys, WarmCreationIsSuspect, OffIsEmpty,
              OrphansNeedASuspect, Orphan, UncachedOwned
<1>2. CASE \E c \in Calls, k \in Keys : Acquire(c, k) \/ AcquireUncached(c, k)
  BY <1>2, AcquireStruct, AcquireUncachedStruct
<1>3. CASE \E c \in Calls :
             \/ Healthy(c) \/ Unhealthy(c) \/ Rebuild(c)
             \/ CreateSucceeds(c) \/ CreateFails(c)
             \/ Release(c) \/ ReleaseDead(c) \/ CloseDone(c)
             \/ OpenUncached(c) \/ ReleaseUncached(c)
  BY <1>3, HealthyStruct, UnhealthyStruct, RebuildStruct, CreateSucceedsStruct,
     CreateFailsStruct, ReleaseStruct, ReleaseDeadStruct,
     CloseDoneStruct, OpenUncachedStruct, ReleaseUncachedStruct
<1>4. CASE Reap \/ \E k \in Keys : Evict(k)
  BY <1>4, ReapStruct, EvictStruct
<1>5. CASE CloseAll
  BY <1>5, CloseAllStruct
<1> QED BY <1>1, <1>2, <1>3, <1>4, <1>5 DEF Next, Finished

\* The structural invariant holds in every reachable state.
THEOREM StructCorrect == Spec => []StructInv
<1>1. Init => StructInv
  BY InitStruct
<1>2. StructInv /\ [Next]_vars => StructInv'
  BY NextStruct
<1> QED BY <1>1, <1>2, PTL DEF Spec

\* The variables keep their types; a call under way always has a key and
\* something it holds.
THEOREM TypeCorrect == Spec => []TypeOK
BY StructCorrect, PTL DEF StructInv

\* What acquire() finds in the map is open: every path that closes an adapter
\* takes it out of the map first.
THEOREM CachedIsLiveCorrect == Spec => []CachedIsLive
BY StructCorrect, PTL DEF StructInv

\* However many calls find a key cold together, one of them connects.
THEOREM SingleFlightCorrect == Spec => []SingleFlight
<1>1. StructInv => SingleFlight
  BY DEF StructInv, CreationsAreMarked, SingleFlight
<1> QED BY <1>1, StructCorrect, PTL

\* An adapter is only ever lost on a key that has failed a health check.
THEOREM OrphansCorrect == Spec => []OrphansNeedASuspect
BY StructCorrect, PTL DEF StructInv

\* With the cache off an open adapter belongs to the call that uses it.
THEOREM UncachedCorrect == Spec => []UncachedOwned
BY StructCorrect, PTL DEF StructInv

-----------------------------------------------------------------------------
(* The counter of an entry in the map *)

LEMMA UsersFinite ==
  ASSUME NEW a PROVE IsFiniteSet(Users(a)) /\ Cardinality(Users(a)) \in Nat
<1>1. Users(a) \subseteq Calls
  BY DEF Users
<1> QED BY <1>1, FS_Subset, FS_CardinalityType, CacheAssumption

\* An entry keeps its count as long as nothing happens to it or to its users.
LEMMA ExactFrame ==
  ASSUME InFlightExact,
         \A k \in Keys : cached'[k] # None =>
            /\ cached'[k] = cached[k]
            /\ inFlight'[cached[k]] = inFlight[cached[k]]
            /\ Users(cached[k])' = Users(cached[k])
  PROVE  InFlightExact'
BY DEF InFlightExact, CachedKeys

\* The same, entry by entry.
LEMMA ExactByEntry ==
  ASSUME cached' \in [Keys -> Calls \cup {None}],
         \A k \in Keys, b \in Calls :
            cached'[k] = b => inFlight'[b] = Cardinality(Users(b)')
  PROVE  InFlightExact'
BY DEF InFlightExact, CachedKeys, Users

LEMMA InitExact == Init => InFlightExact
BY DEF Init, InFlightExact, CachedKeys

LEMMA AcquireExact ==
  ASSUME StructInv, InFlightExact, NEW c \in Calls, NEW k \in Keys, Acquire(c, k)
  PROVE  InFlightExact'
<1>1. c \notin Users(cached[k])
  BY DEF Acquire, Users
<1>2. CASE cached[k] # None
  <2> DEFINE a == cached[k]
  <2>1. a \in Calls /\ Users(a)' = Users(a) \cup {c}
    BY <1>2 DEF Acquire, Users, StructInv, TypeOK
  <2>2. Cardinality(Users(a)') = Cardinality(Users(a)) + 1
    BY <1>1, <2>1, UsersFinite, FS_AddElement
  <2>3. inFlight'[a] = inFlight[a] + 1 /\ cached' = cached
    BY <1>2, <2>1 DEF Acquire, StructInv, TypeOK
  <2>4. \A l \in Keys : (cached[l] # None /\ l # k) =>
           /\ cached[l] \in Calls /\ cached[l] # a
           /\ inFlight'[cached[l]] = inFlight[cached[l]]
           /\ Users(cached[l])' = Users(cached[l])
    BY <1>2 DEF Acquire, Users, StructInv, TypeOK, CachedIsLive, CachedKeys
  <2> QED BY <1>2, <2>2, <2>3, <2>4 DEF InFlightExact, CachedKeys
<1>3. CASE cached[k] = None
  <2>1. cached' = cached /\ inFlight' = inFlight
    BY <1>3 DEF Acquire
  <2>2. \A a \in Calls : Users(a)' = Users(a)
    BY <1>3 DEF Acquire, BeginCreate, Users, StructInv, TypeOK
  <2> QED BY <2>1, <2>2, ExactFrame DEF StructInv, TypeOK
<1> QED BY <1>2, <1>3

LEMMA UnhealthyExact ==
  ASSUME StructInv, InFlightExact, NEW c \in Calls, Unhealthy(c)
  PROVE  InFlightExact'
<1>1. want[c] \in Keys /\ held[c] \in Calls /\ want[held[c]] = want[c]
  BY DEF Unhealthy, StructInv, TypeOK, CallsHoldEntries
<1>2. \A l \in Keys : cached'[l] # None =>
         cached'[l] = cached[l] /\ cached[l] \in Calls /\ cached[l] # held[c]
  BY <1>1 DEF Unhealthy, Remove, StructInv, TypeOK, CachedIsLive, CachedKeys
<1>3. \A a \in Calls : a # held[c] => Users(a)' = Users(a)
  BY DEF Unhealthy, Users, StructInv, TypeOK
<1> QED BY <1>2, <1>3, ExactFrame DEF Unhealthy

LEMMA CreateSucceedsExact ==
  ASSUME StructInv, InFlightExact, NEW a \in Calls, CreateSucceeds(a)
  PROVE  InFlightExact'
<1>1. want[a] \in Keys /\ status[a] = "creating"
  BY DEF CreateSucceeds, StructInv, TypeOK, CreationsAreMarked
<1>2. Users(a)' = Waiters(a)
  BY <1>1
     DEF CreateSucceeds, Users, Waiters, StructInv, TypeOK, CallsHoldEntries, Settled
<1>3. \A b \in Calls : b # a => Users(b)' = Users(b)
  BY DEF CreateSucceeds, Users, Waiters, StructInv, TypeOK
<1>4. /\ inFlight' = [inFlight EXCEPT ![a] = Cardinality(Waiters(a))]
      /\ \A l \in Keys : cached'[l] \in {IF l = want[a] THEN a ELSE cached[l], None}
  BY <1>1 DEF CreateSucceeds, SweepInto, Remove, StructInv, TypeOK
<1>5. cached' \in [Keys -> Calls \cup {None}]
  BY CreateSucceedsStruct DEF StructInv, TypeOK
<1>6. ASSUME NEW l \in Keys, NEW b \in Calls, cached'[l] = b
      PROVE  inFlight'[b] = Cardinality(Users(b)')
  <2>1. CASE l = want[a]
    BY <2>1, <1>2, <1>4, <1>6, CacheAssumption DEF StructInv, TypeOK
  <2>2. CASE l # want[a]
    <3>1. cached[l] = b /\ b # a
      BY <2>2, <1>1, <1>4, <1>6, CacheAssumption
         DEF StructInv, TypeOK, CachedIsLive, CachedKeys
    <3>2. inFlight[b] = Cardinality(Users(b))
      BY <3>1, CacheAssumption DEF InFlightExact, CachedKeys
    <3> QED BY <3>1, <3>2, <1>3, <1>4 DEF StructInv, TypeOK
  <2> QED BY <2>1, <2>2
<1> QED BY <1>5, <1>6, ExactByEntry

LEMMA ReleaseExact ==
  ASSUME StructInv, InFlightExact, NEW c \in Calls, Release(c)
  PROVE  InFlightExact'
<1>0. PICK a \in Calls : a = held[c]
  BY DEF Release, StructInv, TypeOK
<1>1. a = held[c] /\ a \in Calls /\ want[a] \in Keys /\ c \in Users(a)
  BY <1>0 DEF Release, Users, StructInv, TypeOK, CallsHoldEntries
<1>2. Users(a)' = Users(a) \ {c}
  BY <1>1 DEF Release, Users, StructInv, TypeOK
<1>3. \A b \in Calls : b # a => Users(b)' = Users(b)
  BY <1>0 DEF Release, Users, StructInv, TypeOK
<1>4. \A l \in Keys : cached'[l] # None => cached'[l] = cached[l]
  BY DEF Release, SweepInto, Remove
<1>5. CASE cached[want[a]] = a
  <2>1. inFlight' = [inFlight EXCEPT ![a] = IF @ > 0 THEN @ - 1 ELSE 0]
    BY <1>1, <1>5, CacheAssumption DEF Release, EntryToRelease, SweepInto
  <2>2. Cardinality(Users(a)') = Cardinality(Users(a)) - 1
    BY <1>1, <1>2, UsersFinite, FS_RemoveElement
  <2>3. inFlight[a] = Cardinality(Users(a)) /\ inFlight[a] > 0
    <3>1. Cardinality(Users(a)) # 0
      BY <1>1, UsersFinite, FS_EmptySet
    <3> QED BY <1>1, <1>5, <3>1, UsersFinite, CacheAssumption
            DEF InFlightExact, CachedKeys
  <2>4. inFlight'[a] = Cardinality(Users(a)')
    BY <1>1, <2>1, <2>2, <2>3 DEF StructInv, TypeOK
  <2>5. cached' \in [Keys -> Calls \cup {None}]
    BY ReleaseStruct DEF StructInv, TypeOK
  <2>6. ASSUME NEW l \in Keys, NEW b \in Calls, cached'[l] = b, b # a
        PROVE  inFlight'[b] = Cardinality(Users(b)')
    <3>1. inFlight[b] = Cardinality(Users(b))
      BY <2>6, <1>4, CacheAssumption DEF InFlightExact, CachedKeys
    <3> QED BY <2>6, <3>1, <1>1, <1>3, <2>1 DEF StructInv, TypeOK
  <2>7. \A l \in Keys, b \in Calls :
           cached'[l] = b => inFlight'[b] = Cardinality(Users(b)')
    BY <2>4, <2>6
  <2> QED BY <2>5, <2>7, ExactByEntry
<1>6. CASE cached[want[a]] # a
  <2>1. inFlight' = inFlight
    BY <1>1, <1>6 DEF Release, EntryToRelease, SweepInto
  <2>2. \A l \in Keys : cached[l] # a
    BY <1>1, <1>6, CacheAssumption DEF StructInv, TypeOK, CachedIsLive, CachedKeys
  <2> QED BY <1>3, <1>4, <2>1, <2>2, ExactFrame DEF StructInv, TypeOK
<1> QED BY <1>5, <1>6

LEMMA ReleaseDeadExact ==
  ASSUME StructInv, InFlightExact, NEW c \in Calls, ReleaseDead(c)
  PROVE  InFlightExact'
<1>1. want[c] \in Keys /\ held[c] \in Calls /\ want[held[c]] = want[c]
  BY DEF ReleaseDead, StructInv, TypeOK, CallsHoldEntries
<1>2. \A l \in Keys : cached'[l] # None => cached'[l] = cached[l] /\ l # want[c]
  BY DEF ReleaseDead, SweepInto, Remove
<1>3. \A l \in Keys : cached'[l] # None => cached[l] \in Calls /\ cached[l] # held[c]
  BY <1>1, <1>2 DEF StructInv, TypeOK, CachedIsLive, CachedKeys
<1>4. \A b \in Calls : b # held[c] => Users(b)' = Users(b)
  BY DEF ReleaseDead, Users, StructInv, TypeOK
<1>5. inFlight' = inFlight
  BY DEF ReleaseDead, SweepInto
<1> QED BY <1>2, <1>3, <1>4, <1>5, ExactFrame

\* The other actions leave the users of every installed entry as they were.
LEMMA OthersExact ==
  ASSUME StructInv, InFlightExact, NEW c \in Calls, NEW k \in Keys,
         \/ Healthy(c) \/ Rebuild(c) \/ CreateFails(c) \/ Evict(k) \/ CloseDone(c)
         \/ AcquireUncached(c, k) \/ OpenUncached(c) \/ ReleaseUncached(c)
         \/ Reap \/ CloseAll \/ UNCHANGED vars
  PROVE  InFlightExact'
<1>1. CASE \/ Healthy(c) \/ Rebuild(c) \/ CreateFails(c) \/ Evict(k)
           \/ CloseDone(c) \/ Reap \/ CloseAll \/ UNCHANGED vars
  <2>1. inFlight' = inFlight
    BY <1>1 DEF Healthy, Rebuild, CreateFails, Evict, CloseDone, Reap, CloseAll, vars
  <2>2. \A l \in Keys : cached'[l] # None => cached'[l] = cached[l]
    BY <1>1 DEF Healthy, Rebuild, CreateFails, Evict, CloseDone, Reap, CloseAll,
                vars, Remove
  <2>3. \A a \in Calls : Users(a)' = Users(a)
    <3>1. CASE Healthy(c)
      BY <3>1 DEF Healthy, Users, StructInv, TypeOK
    <3>2. CASE Rebuild(c)
      BY <3>2 DEF Rebuild, BeginCreate, Users, StructInv, TypeOK
    <3>3. CASE CreateFails(c)
      BY <3>3 DEF CreateFails, Waiters, Users, StructInv, TypeOK
    <3>4. CASE Evict(k) \/ CloseDone(c) \/ Reap \/ CloseAll \/ UNCHANGED vars
      BY <3>4 DEF Evict, CloseDone, Reap, CloseAll, vars, Users
    <3> QED BY <1>1, <3>1, <3>2, <3>3, <3>4
  <2> QED BY <2>1, <2>2, <2>3, ExactFrame DEF StructInv, TypeOK
<1>2. CASE AcquireUncached(c, k) \/ OpenUncached(c) \/ ReleaseUncached(c)
  <2>1. \A l \in Keys : cached'[l] = None
    BY <1>2 DEF AcquireUncached, OpenUncached, ReleaseUncached, StructInv, OffIsEmpty
  <2> QED BY <2>1 DEF InFlightExact, CachedKeys
<1> QED BY <1>1, <1>2

LEMMA NextExact == StructInv /\ InFlightExact /\ [Next]_vars => InFlightExact'
<1> SUFFICES ASSUME StructInv, InFlightExact, [Next]_vars PROVE InFlightExact'
  OBVIOUS
<1>1. CASE Keys = {}
  BY <1>1 DEF InFlightExact, CachedKeys
<1>3. CASE Calls = {}
  <2>1. \A k \in Keys : cached[k] = None
    BY <1>3 DEF StructInv, TypeOK
  <2>2. cached' = cached
    BY <1>3, <2>1 DEF Next, Finished, vars, Evict, Reap, CachedKeys, CloseAll, Remove,
                      StructInv, TypeOK
  <2> QED BY <2>1, <2>2 DEF InFlightExact, CachedKeys
<1>2. CASE Calls # {} /\ Keys # {}
  BY <1>2, AcquireExact, UnhealthyExact, CreateSucceedsExact, ReleaseExact,
     ReleaseDeadExact, OthersExact
     DEF Next, Finished
<1> QED BY <1>1, <1>2, <1>3

\* The counter that protects an entry is the number of calls that check or use
\* it, in every reachable state.
THEOREM InFlightCorrect == Spec => []InFlightExact
<1>1. Init => InFlightExact
  BY InitExact
<1>2. StructInv /\ InFlightExact /\ [Next]_vars => InFlightExact'
  BY NextExact
<1> QED BY <1>1, <1>2, StructCorrect, PTL DEF Spec

-----------------------------------------------------------------------------
(* What a step may not do *)

\* What a step puts under a key is the adapter whose creation it settles.
LEMMA InstallsAreNew ==
  StructInv /\ [Next]_vars =>
    \A k \in Keys : cached'[k] \notin {None, cached[k]}
                    => status[cached'[k]] = "creating"
<1> SUFFICES ASSUME StructInv, [Next]_vars,
                    NEW k \in Keys, cached'[k] \notin {None, cached[k]}
             PROVE  status[cached'[k]] = "creating"
  OBVIOUS
<1>1. PICK a \in Calls : CreateSucceeds(a)
  BY DEF Next, vars, Finished, Acquire, AcquireUncached, Healthy, Unhealthy,
         Rebuild, CreateFails, Release, Evict, ReleaseDead, CloseDone,
         OpenUncached, ReleaseUncached, Reap, CloseAll, SweepInto, Remove
<1>2. cached'[k] \in {[cached EXCEPT ![want[a]] = a][k], None}
  BY <1>1 DEF CreateSucceeds, SweepInto, Remove
<1> QED BY <1>1, <1>2 DEF StructInv, TypeOK, CreateSucceeds

\* Nothing that has left the map is put back.
THEOREM NeverReinstalledCorrect == Spec => NeverReinstalled
BY InstallsAreNew, StructCorrect, PTL DEF Spec, NeverReinstalled

\* An adapter in the map that nobody checks or uses, according to its counter,
\* is not used by anybody.
LEMMA IdleIsUnused ==
  ASSUME StructInv, InFlightExact, NEW k \in Keys, cached[k] # None,
         inFlight[cached[k]] = 0
  PROVE  Users(cached[k]) = {}
BY UsersFinite, FS_EmptySet DEF InFlightExact, CachedKeys

\* Housekeeping never closes an adapter under a call that goes on using it.
THEOREM HousekeepingCorrect == Spec => HousekeepingSparesUsers
<1> DEFINE Verdict(a) ==
             \/ CloseAll
             \/ Evict(want[a])
             \/ \E c \in Calls : /\ want[c] = want[a]
                                 /\ Unhealthy(c) \/ ReleaseDead(c)
<1>1. ASSUME StructInv, InFlightExact, Next, NEW a \in Calls,
             status[a] = "live", status'[a] = "closing", ~Verdict(a)
      PROVE  Users(a)' = {}
  <2>1. CASE \E c \in Calls, k \in Keys : Acquire(c, k) \/ AcquireUncached(c, k)
    BY <2>1, <1>1 DEF Acquire, AcquireUncached, BeginCreate, SlotFor, StructInv, TypeOK
  <2>2. CASE \E c \in Calls : \/ Healthy(c) \/ Rebuild(c) \/ CreateFails(c)
                              \/ CloseDone(c) \/ OpenUncached(c)
    BY <2>2, <1>1
       DEF Healthy, Rebuild, BeginCreate, SlotFor, CreateFails, CloseDone,
           OpenUncached, StructInv, TypeOK
  <2>0. \A c \in Calls : want[c] = want[a]
                          => ~Unhealthy(c) /\ ~ReleaseDead(c)
    BY <1>1
  <2>3. ASSUME NEW c \in Calls, Unhealthy(c) PROVE FALSE
    <3>1. a = held[c]
      BY <2>3, <1>1 DEF Unhealthy, Dispose
    <3>2. want[c] = want[a]
      BY <2>3, <3>1, <1>1 DEF Unhealthy, StructInv, CallsHoldEntries
    <3> QED BY <2>0, <2>3, <3>2
  <2>4. ASSUME NEW k \in Keys, Evict(k) PROVE FALSE
    <3>1. a = cached[k]
      BY <2>4, <1>1 DEF Evict, Dispose, StructInv, TypeOK
    <3>2. want[a] = k
      BY <3>1, <1>1, CacheAssumption DEF StructInv, CachedIsLive, CachedKeys
    <3> QED BY <1>1, <2>4, <3>2
  <2>5. ASSUME NEW c \in Calls, ReleaseUncached(c) PROVE Users(a)' = {}
    BY <2>5, <1>1 DEF ReleaseUncached, Dispose, Users, StructInv, TypeOK, OffIsEmpty
  <2>6. CASE Reap
    <3>1. PICK k \in Keys : cached[k] = a /\ inFlight[a] = 0
      BY <2>6, <1>1 DEF Reap, Dispose, CachedKeys, StructInv, TypeOK
    <3>2. Users(a) = {}
      BY <1>1, <3>1, IdleIsUnused, CacheAssumption
    <3> QED BY <2>6, <3>2 DEF Reap, Users
  <2>7. ASSUME NEW c \in Calls, CreateSucceeds(c) PROVE Users(a)' = {}
    <3> DEFINE map == [cached EXCEPT ![want[c]] = c]
               flight == [inFlight EXCEPT ![c] = Cardinality(Waiters(c))]
    <3>1. a # c /\ status[c] = "creating"
      BY <1>1, <2>7 DEF CreateSucceeds
    <3>2. PICK k \in Keys : map[k] = a /\ flight[a] = 0
      BY <1>1, <2>7, <3>1
         DEF CreateSucceeds, SweepInto, Victims, Idle, Dispose, StructInv, TypeOK
    <3>3. cached[k] = a /\ inFlight[a] = 0
      BY <3>1, <3>2, <1>1 DEF StructInv, TypeOK
    <3>4. Users(a) = {}
      BY <1>1, <3>3, IdleIsUnused, CacheAssumption
    <3> QED BY <1>1, <2>7, <3>1, <3>4
            DEF CreateSucceeds, Users, Waiters, StructInv, TypeOK
  <2>8. ASSUME NEW c \in Calls, Release(c) PROVE Users(a)' = {}
    <3>1. PICK k \in Keys : cached[k] = a /\ inFlight[a] = 0
      <4> DEFINE e == EntryToRelease(held[c])
                 lower == [inFlight EXCEPT ![e] = IF @ > 0 THEN @ - 1 ELSE 0]
      <4>1. e \in Calls \cup {None}
        BY <2>8, <1>1 DEF Release, EntryToRelease, StructInv, TypeOK
      <4>2. \/ e # None /\ SweepInto(cached, before, lower, status, e)
            \/ e = None /\ SweepInto(cached, before, inFlight, status, None)
        BY <2>8 DEF Release
      <4>3. /\ cached \in [Keys -> Calls \cup {None}]
            /\ before \in [Keys -> SUBSET Keys]
            /\ status \in [Calls -> Status]
            /\ inFlight \in [Calls -> Nat]
        BY <1>1 DEF StructInv, TypeOK
      <4>4. CASE e # None
        <5>1. lower \in [Calls -> Nat] /\ \A x \in Calls \ {e} : lower[x] = inFlight[x]
          <6> HIDE DEF e
          <6> QED BY <4>1, <4>3, <4>4
        <5>2. PICK k \in Keys : cached[k] = a /\ a # e /\ lower[a] = 0
          <6> HIDE DEF lower, e
          <6> QED BY <1>1, <4>2, <4>3, <4>4, <5>1, SweepFacts, CacheAssumption
        <5> QED BY <5>1, <5>2
      <4>5. CASE e = None
        <5> HIDE DEF lower, e
        <5> QED BY <1>1, <4>2, <4>3, <4>5, SweepFacts, CacheAssumption
      <4> QED BY <4>4, <4>5
    <3>2. Users(a) = {}
      BY <1>1, <3>1, IdleIsUnused, CacheAssumption
    <3> QED BY <1>1, <2>8, <3>2 DEF Release, Users, StructInv, TypeOK
  <2>9. ASSUME NEW c \in Calls, ReleaseDead(c) PROVE Users(a)' = {}
    <3>1. want[c] # want[a]
      BY <1>1, <2>9
    <3>2. PICK k \in Keys : cached[k] = a /\ inFlight[a] = 0
      <4> DEFINE map == Remove(cached, {want[c]})
                 order == Without(before, {want[c]})
                 st == Dispose(status, {cached[want[c]]})
      <4>1. SweepInto(map, order, inFlight, st, None)
        BY <2>9 DEF ReleaseDead
      <4>2. /\ map \in [Keys -> Calls \cup {None}]
            /\ order \in [Keys -> SUBSET Keys]
            /\ inFlight \in [Calls -> Nat]
            /\ st \in [Calls -> Status]
        BY <1>1 DEF StructInv, TypeOK, Status, Remove, Without, Dispose
      <4>3. st[a] = "live"
        <5>1. want[c] \in Keys
          BY <2>9, <1>1 DEF ReleaseDead, StructInv, TypeOK
        <5>2. cached[want[c]] # a
          BY <5>1, <3>1, <1>1, CacheAssumption DEF StructInv, CachedIsLive, CachedKeys
        <5> QED BY <5>2, <1>1 DEF Dispose
      <4>4. \A k \in Keys : map[k] \in {cached[k], None}
        BY DEF Remove
      <4> HIDE DEF map, order, st
      <4>5. PICK k \in Keys : map[k] = a /\ cached'[k] = None /\ inFlight[map[k]] = 0
        BY <1>1, <4>1, <4>2, <4>3, SweepFacts, CacheAssumption
      <4> QED BY <4>4, <4>5, CacheAssumption
    <3>3. Users(a) = {}
      BY <1>1, <3>2, IdleIsUnused, CacheAssumption
    <3> QED BY <1>1, <2>9, <3>3 DEF ReleaseDead, Users, StructInv, TypeOK
  <2>10. CASE CloseAll \/ Finished
    BY <2>10, <1>1 DEF Finished, vars
  <2> QED BY <1>1, <2>1, <2>2, <2>3, <2>4, <2>5, <2>6, <2>7, <2>8, <2>9, <2>10
          DEF Next
<1>2. ASSUME StructInv, InFlightExact, [Next]_vars
      PROVE  [\A a \in Calls :
                (status[a] = "live" /\ status'[a] = "closing" /\ Users(a)' # {})
                => Verdict(a)]_vars
  BY <1>1, <1>2
<1> QED BY <1>2, StructCorrect, InFlightCorrect, PTL
        DEF Spec, HousekeepingSparesUsers

-----------------------------------------------------------------------------
(* The bound *)

LEMMA SmallestOf ==
  ASSUME NEW T, T \subseteq Nat, T # {}
  PROVE  \E i \in T : \A j \in T : i <= j
<1>1. PICK i \in T : \A j \in T : ~ (<<j, i>> \in OpToRel(<, Nat))
  BY NatLessThanWellFounded, WFMin
<1>2. ASSUME NEW j \in T PROVE i <= j
  <2>1. ~ (<<j, i>> \in {ss \in Nat \X Nat : ss[1] < ss[2]})
    BY <1>1 DEF OpToRel
  <2>2. i \in Nat /\ j \in Nat
    OBVIOUS
  <2> QED BY <2>1, <2>2
<1> QED BY <1>2

\* A map whose entries know their keys is finite, as there are finitely many calls.
LEMMA MapIsFinite ==
  ASSUME NEW map \in [Keys -> Calls \cup {None}], NEW key \in [Calls -> Keys \cup {None}],
         \A k \in Keys : map[k] # None => key[map[k]] = k
  PROVE  IsFiniteSet({k \in Keys : map[k] # None})
<1> DEFINE S == {k \in Keys : map[k] # None}
           A == {map[k] : k \in S}
           f == [a \in A |-> key[a]]
<1>1. A \subseteq Calls
  BY CacheAssumption
<1>2. IsFiniteSet(A)
  BY <1>1, FS_Subset, CacheAssumption
<1>3. f \in Surjection(A, S)
  <2>1. ASSUME NEW k \in S PROVE map[k] \in A /\ f[map[k]] = k
    OBVIOUS
  <2>2. f \in [A -> S]
    BY <2>1
  <2> QED BY <2>1, <2>2 DEF Surjection
<1> HIDE DEF f, A
<1> QED BY <1>2, <1>3, FS_Surjection

LEMMA LessIsFewer ==
  ASSUME NEW A, IsFiniteSet(A), NEW B \in SUBSET A, NEW x \in A, x \notin B
  PROVE  Cardinality(B) < Cardinality(A)
<1>1. /\ Cardinality(B) <= Cardinality(A) /\ Cardinality(A) # Cardinality(B)
      /\ Cardinality(A) \in Nat /\ Cardinality(B) \in Nat
  BY FS_Subset, FS_CardinalityType
<1> QED BY <1>1

LEMMA LowestOf ==
  ASSUME NEW T, T # {}, NEW rank, \A l \in T : rank[l] \in Nat
  PROVE  \E first \in T : \A l \in T : rank[first] <= rank[l]
<1> DEFINE ranks == {rank[l] : l \in T}
<1>1. ranks \subseteq Nat
  OBVIOUS
<1>2. ranks # {}
  OBVIOUS
<1>3. \E i \in ranks : \A j \in ranks : i <= j
  <2> HIDE DEF ranks
  <2> QED BY <1>1, <1>2, SmallestOf
<1> QED BY <1>3

StrictOrder(order, S) ==
    \A l \in S : l \notin order[l] /\ \A m \in order[l] : order[m] \subseteq order[l]

\* Those of the idle entries of S that have to go for n to be left, if the first ones go.
Oldest(idle, order, n, S) ==
    {l \in idle : Cardinality(order[l] \cap idle) + n < Cardinality(S)}

\* Closing the idle entries with fewer idle entries before them than the map has too many
\* leaves no more than n entries, unless it leaves no idle one.  For the first idle one that
\* stays has as many before it as the map had too many, and all of those go.
LEMMA OldestGoFirst ==
  ASSUME NEW S, IsFiniteSet(S), NEW idle \in SUBSET S, NEW n \in Nat,
         NEW order, StrictOrder(order, S),
         NEW out, out = Oldest(idle, order, n, S), idle \ out # {}
  PROVE  Cardinality(S \ out) <= n
<1> DEFINE rank == [l \in idle |-> Cardinality(order[l] \cap idle)]
<1>1. ASSUME NEW l \in idle
      PROVE  /\ IsFiniteSet(order[l] \cap idle) /\ rank[l] \in Nat
             /\ rank[l] = Cardinality(order[l] \cap idle)
  BY FS_Subset, FS_CardinalityType
<1>2. out \subseteq idle /\ \A l \in idle : l \in out <=> rank[l] + n < Cardinality(S)
  BY DEF Oldest
<1> HIDE DEF rank
<1>3. PICK first \in idle \ out : \A l \in idle \ out : rank[first] <= rank[l]
  <2>1. \A l \in idle \ out : rank[l] \in Nat
    BY <1>1
  <2> QED BY <2>1, LowestOf
<1> DEFINE older == order[first] \cap idle
<1>4. ASSUME NEW l \in older, l \notin out PROVE FALSE
  <2>1. order[l] \cap idle \subseteq older /\ l \notin order[l]
    BY DEF StrictOrder
  <2>2. rank[l] < rank[first]
    <3>1. rank[l] = Cardinality(order[l] \cap idle) /\ rank[first] = Cardinality(older)
      BY <1>1
    <3>2. IsFiniteSet(older) /\ l \in older /\ l \notin order[l] \cap idle
      BY <1>1, <2>1
    <3> HIDE DEF older
    <3> QED BY <2>1, <3>1, <3>2, LessIsFewer
  <2>3. rank[l] \in Nat /\ rank[first] \in Nat /\ rank[first] <= rank[l]
    BY <1>1, <1>3, <1>4
  <2> QED BY <2>2, <2>3
<1>5. IsFiniteSet(out) /\ Cardinality(older) <= Cardinality(out) /\ Cardinality(out) \in Nat
  <2>1. older \subseteq out
    BY <1>4
  <2>2. IsFiniteSet(out)
    BY <1>2, FS_Subset
  <2> QED BY <2>1, <2>2, FS_Subset, FS_CardinalityType
<1>6. ~(Cardinality(older) + n < Cardinality(S)) /\ Cardinality(older) \in Nat
  BY <1>1, <1>2, <1>3
<1>7. Cardinality(S \ out) = Cardinality(S) - Cardinality(out) /\ Cardinality(S) \in Nat
  <2>1. S \cap out = out
    BY <1>2
  <2>2. Cardinality(S \ out) = Cardinality(S) - Cardinality(S \cap out)
    BY FS_Difference
  <2> QED BY <2>1, <2>2, FS_CardinalityType
<1> HIDE DEF older
<1> QED BY <1>5, <1>6, <1>7

\* A map that evictIfFull(keep) has left beyond its bound has no idle entry but the one kept.
LEMMA SweepKeepsBound ==
  ASSUME NEW map \in [Keys -> Calls \cup {None}],
         NEW order \in [Keys -> SUBSET Keys],
         NEW flight \in [Calls -> Nat],
         NEW st, NEW keep,
         NEW key \in [Calls -> Keys \cup {None}],
         \A k \in Keys : map[k] # None => key[map[k]] = k,
         StrictOrder(order, Keys),
         SweepInto(map, order, flight, st, keep),
         Cardinality(CachedKeys') > MaxEntries,
         NEW k \in Keys, cached'[k] # None, flight[cached'[k]] = 0
  PROVE  cached'[k] = keep
<1> DEFINE S == {l \in Keys : map[l] # None}
           idle == Idle(map, flight, keep)
           out == Victims(map, order, flight, keep)
<1>1. /\ IsFiniteSet(S) /\ idle \in SUBSET S
      /\ out = Oldest(idle, order, MaxEntries, S) /\ out \subseteq idle
  BY MapIsFinite DEF Idle, Victims, Oldest
<1>2. cached' = Remove(map, out)
  BY DEF SweepInto
<1>3. CachedKeys' = S \ out
  BY <1>1, <1>2 DEF CachedKeys, Remove
<1>4. ASSUME cached'[k] # keep PROVE FALSE
  <2>1. k \in idle \ out
    BY <1>2, <1>4 DEF Remove, Idle
  <2>2. StrictOrder(order, S) /\ MaxEntries \in Nat
    BY CacheAssumption DEF StrictOrder
  <2>3. Cardinality(S \ out) <= MaxEntries
    <3> HIDE DEF S, idle, out
    <3>1. idle \ out # {}
      BY <2>1
    <3> QED BY <1>1, <2>2, <3>1, OldestGoFirst
  <2>4. Cardinality(S \ out) \in Nat
    <3> HIDE DEF S, idle, out
    <3> QED BY <1>1, FS_Difference, FS_CardinalityType
  <2> HIDE DEF S, idle, out
  <2> QED BY <1>3, <2>2, <2>3, <2>4
<1> QED BY <1>4

\* The insertion order is a strict order of the keys in the map, and no more than one entry is
\* idle in a map beyond its bound.
BoundInv ==
    /\ StrictOrder(before, Keys)
    /\ \A k \in Keys : before[k] \subseteq CachedKeys
    /\ OverBoundOnlyInUse

IdleKeys == {k \in CachedKeys : inFlight[cached[k]] = 0}

LEMMA KeysFinite ==
  ASSUME StructInv
  PROVE  IsFiniteSet(CachedKeys) /\ IsFiniteSet(IdleKeys)
<1>1. IsFiniteSet(CachedKeys)
  BY MapIsFinite DEF CachedKeys, StructInv, TypeOK, CachedIsLive
<1> QED BY <1>1, FS_Subset DEF IdleKeys

LEMMA AtMostOne ==
  ASSUME NEW S, IsFiniteSet(S), \A x \in S, y \in S : x = y
  PROVE  Cardinality(S) <= 1
<1>1. CASE S = {}
  BY <1>1, FS_EmptySet
<1>2. CASE S # {}
  <2>1. PICK x \in S : TRUE
    BY <1>2
  <2>2. S = {x}
    BY <2>1
  <2> QED BY <2>2, FS_Singleton
<1> QED BY <1>1, <1>2

\* The map with less in it is not further beyond its bound.
LEMMA ShrinkKeepsBound ==
  ASSUME StructInv, BoundInv, StructInv', NEW K,
         cached' = Remove(cached, K), before' = Without(before, K),
         inFlight' = inFlight
  PROVE  BoundInv'
<1>1. CachedKeys' = CachedKeys \ K /\ IdleKeys' = IdleKeys \ K
  BY DEF CachedKeys, IdleKeys, Remove
<1>2. StrictOrder(before, Keys)' /\ \A k \in Keys : before'[k] \subseteq CachedKeys'
  BY <1>1 DEF BoundInv, StrictOrder, Without, CachedKeys
<1>3. /\ Cardinality(CachedKeys') <= Cardinality(CachedKeys)
      /\ Cardinality(IdleKeys') <= Cardinality(IdleKeys)
      /\ {Cardinality(CachedKeys'), Cardinality(CachedKeys),
          Cardinality(IdleKeys'), Cardinality(IdleKeys)} \subseteq Nat
  <2>1. /\ IsFiniteSet(CachedKeys) /\ CachedKeys' \in SUBSET CachedKeys
        /\ IsFiniteSet(IdleKeys) /\ IdleKeys' \in SUBSET IdleKeys
    BY <1>1, KeysFinite
  <2> QED BY <2>1, FS_Subset, FS_CardinalityType
<1>4. Cardinality(CachedKeys) > MaxEntries => Cardinality(IdleKeys) <= 1
  BY DEF BoundInv, OverBoundOnlyInUse, IdleKeys
<1>5. Cardinality(CachedKeys') > MaxEntries => Cardinality(IdleKeys') <= 1
  BY <1>3, <1>4, CacheAssumption
<1> QED BY <1>2, <1>5 DEF BoundInv, OverBoundOnlyInUse, IdleKeys

\* evictIfFull(keep) leaves one idle entry at most beyond the bound, the one it keeps.
LEMMA SweepBound ==
  ASSUME StructInv',
         NEW map \in [Keys -> Calls \cup {None}],
         NEW order \in [Keys -> SUBSET Keys],
         NEW flight \in [Calls -> Nat],
         NEW st, NEW keep,
         \A k \in Keys : map[k] # None => want'[map[k]] = k,
         StrictOrder(order, Keys),
         \A k \in Keys : order[k] \subseteq {l \in Keys : map[l] # None},
         SweepInto(map, order, flight, st, keep)
  PROVE  BoundInv'
<1> DEFINE out == Victims(map, order, flight, keep)
<1>1. cached' = Remove(map, out) /\ before' = Without(order, out) /\ inFlight' = flight
  BY DEF SweepInto
<1> HIDE DEF out
<1>2. StrictOrder(before, Keys)' /\ \A k \in Keys : before'[k] \subseteq CachedKeys'
  BY <1>1 DEF StrictOrder, Without, Remove, CachedKeys
<1>3. ASSUME Cardinality(CachedKeys') > MaxEntries
      PROVE  Cardinality(IdleKeys') <= 1
  <2>1. want' \in [Calls -> Keys \cup {None}]
    BY DEF StructInv, TypeOK
  <2>2. \A k \in IdleKeys' : k \in Keys /\ cached'[k] # None /\ flight[cached'[k]] = 0
    BY <1>1 DEF IdleKeys, CachedKeys
  <2>3. \A k \in IdleKeys' : cached'[k] = keep
    BY <1>3, <2>1, <2>2, SweepKeepsBound
  <2>4. \A k \in IdleKeys' : want'[cached'[k]] = k
    BY DEF StructInv, CachedIsLive, IdleKeys
  <2>5. \A k \in IdleKeys', l \in IdleKeys' : k = l
    BY <2>3, <2>4
  <2>6. IsFiniteSet(IdleKeys')
    <3>1. IsFiniteSet(CachedKeys')
      BY <2>1, MapIsFinite DEF CachedKeys, StructInv, TypeOK, CachedIsLive
    <3> QED BY <3>1, FS_Subset DEF IdleKeys
  <2> QED BY <2>5, <2>6, AtMostOne
<1> QED BY <1>2, <1>3 DEF BoundInv, OverBoundOnlyInUse, IdleKeys

LEMMA SameBound ==
  ASSUME BoundInv, UNCHANGED <<cached, before, inFlight>>
  PROVE  BoundInv'
BY DEF BoundInv, OverBoundOnlyInUse, CachedKeys

LEMMA TouchIsOrder ==
  ASSUME StructInv, BoundInv, NEW k \in Keys
  PROVE  /\ Touch(k) \in [Keys -> SUBSET Keys]
         /\ StrictOrder(Touch(k), Keys)
         /\ \A l \in Keys : Touch(k)[l] \subseteq CachedKeys
BY DEF BoundInv, StrictOrder, Touch, CachedKeys

LEMMA AcquireBound ==
  ASSUME StructInv, BoundInv, NEW c \in Calls, NEW k \in Keys, Acquire(c, k)
  PROVE  BoundInv'
<1>1. CASE cached[k] # None
  <2>1. /\ before' = Touch(k) /\ cached' = cached /\ CachedKeys' = CachedKeys
        /\ inFlight' = [inFlight EXCEPT ![cached[k]] = @ + 1]
    BY <1>1 DEF Acquire, CachedKeys
  <2>2. IdleKeys' \in SUBSET IdleKeys
    <3> SUFFICES ASSUME NEW l \in IdleKeys' PROVE l \in IdleKeys
      OBVIOUS
    <3>1. l \in CachedKeys /\ cached[l] \in Calls /\ cached[k] \in Calls /\ inFlight'[cached[l]] = 0
      BY <1>1, <2>1 DEF IdleKeys, CachedKeys, StructInv, TypeOK
    <3>2. inFlight[cached[k]] + 1 # 0
      BY <3>1 DEF StructInv, TypeOK
    <3> QED BY <2>1, <3>1, <3>2 DEF IdleKeys, StructInv, TypeOK
  <2>3. Cardinality(IdleKeys') <= Cardinality(IdleKeys) /\ Cardinality(IdleKeys) \in Nat
        /\ Cardinality(IdleKeys') \in Nat
    BY <2>2, KeysFinite, FS_Subset, FS_CardinalityType
  <2>4. Cardinality(CachedKeys') > MaxEntries => Cardinality(IdleKeys') <= 1
    BY <2>1, <2>3 DEF BoundInv, OverBoundOnlyInUse, IdleKeys
  <2>5. StrictOrder(before, Keys)' /\ \A l \in Keys : before'[l] \subseteq CachedKeys'
    BY <2>1, TouchIsOrder DEF StrictOrder
  <2> QED BY <2>4, <2>5 DEF BoundInv, OverBoundOnlyInUse, IdleKeys
<1>2. CASE cached[k] = None
  BY <1>2, SameBound DEF Acquire
<1> QED BY <1>1, <1>2

LEMMA CreateSucceedsBound ==
  ASSUME StructInv, BoundInv, NEW a \in Calls, CreateSucceeds(a)
  PROVE  BoundInv'
<1> DEFINE k == want[a]
           map == [cached EXCEPT ![k] = a]
           order == IF cached[k] = None THEN Touch(k) ELSE before
           flight == [inFlight EXCEPT ![a] = Cardinality(Waiters(a))]
           st == [status EXCEPT ![a] = "live"]
<1>1. k \in Keys /\ StructInv'
  <2>1. pc[a] # "idle" /\ want[a] \in Keys \cup {None}
    BY DEF CreateSucceeds, StructInv, TypeOK, CreationsAreMarked
  <2>2. want[a] # None
    BY <2>1 DEF StructInv, TypeOK
  <2> QED BY <2>1, <2>2, CreateSucceedsStruct
<1>2. SweepInto(map, order, flight, st, a) /\ want' = want
  BY DEF CreateSucceeds
<1>3. map \in [Keys -> Calls \cup {None}] /\ \A l \in Keys : map[l] # None => want[map[l]] = l
  BY <1>1 DEF StructInv, TypeOK, CachedIsLive, CachedKeys
<1>4. flight \in [Calls -> Nat]
  <2>1. Cardinality(Waiters(a)) \in Nat
    <3>1. Waiters(a) \subseteq Calls
      BY DEF Waiters
    <3> QED BY <3>1, FS_Subset, FS_CardinalityType, CacheAssumption
  <2> QED BY <2>1 DEF StructInv, TypeOK
<1>5. order \in [Keys -> SUBSET Keys] /\ StrictOrder(order, Keys)
      /\ \A l \in Keys : order[l] \subseteq CachedKeys
  BY <1>1, TouchIsOrder DEF BoundInv, StructInv, TypeOK
<1>6. \A l \in Keys : order[l] \subseteq {m \in Keys : map[m] # None}
  <2>1. CachedKeys \subseteq {m \in Keys : map[m] # None}
    BY <1>1, CacheAssumption DEF CachedKeys, StructInv, TypeOK
  <2> HIDE DEF map, order
  <2> QED BY <1>5, <2>1
<1> HIDE DEF map, order, flight, st
<1> QED BY <1>1, <1>2, <1>3, <1>4, <1>5, <1>6, SweepBound

LEMMA ReleaseBound ==
  ASSUME StructInv, BoundInv, NEW c \in Calls, Release(c)
  PROVE  BoundInv'
<1> DEFINE e == EntryToRelease(held[c])
           lower == [inFlight EXCEPT ![e] = IF @ > 0 THEN @ - 1 ELSE 0]
<1>1. StructInv' /\ want' = want
  BY ReleaseStruct DEF Release
<1>2. /\ cached \in [Keys -> Calls \cup {None}] /\ before \in [Keys -> SUBSET Keys]
      /\ inFlight \in [Calls -> Nat] /\ \A l \in Keys : cached[l] # None => want[cached[l]] = l
      /\ StrictOrder(before, Keys)
      /\ \A l \in Keys : before[l] \subseteq {m \in Keys : cached[m] # None}
  BY DEF StructInv, TypeOK, CachedIsLive, BoundInv, CachedKeys
<1>3. e \in Calls \cup {None}
  BY DEF Release, EntryToRelease, StructInv, TypeOK
<1>4. CASE e # None
  <2>1. SweepInto(cached, before, lower, status, e)
    BY <1>4 DEF Release
  <2>2. lower \in [Calls -> Nat]
    <3> HIDE DEF e
    <3> QED BY <1>2, <1>3, <1>4
  <2> HIDE DEF lower, e
  <2> QED BY <1>1, <1>2, <2>1, <2>2, SweepBound
<1>5. CASE e = None
  <2>1. SweepInto(cached, before, inFlight, status, None)
    BY <1>5 DEF Release
  <2> HIDE DEF lower, e
  <2> QED BY <1>1, <1>2, <2>1, SweepBound
<1> QED BY <1>4, <1>5

LEMMA ReleaseDeadBound ==
  ASSUME StructInv, BoundInv, NEW c \in Calls, ReleaseDead(c)
  PROVE  BoundInv'
<1> DEFINE K == {want[c]}
           map == Remove(cached, K)
           order == Without(before, K)
           st == Dispose(status, {cached[want[c]]})
<1>1. StructInv' /\ want' = want /\ SweepInto(map, order, inFlight, st, None)
  BY ReleaseDeadStruct DEF ReleaseDead
<1>2. /\ map \in [Keys -> Calls \cup {None}] /\ order \in [Keys -> SUBSET Keys]
      /\ inFlight \in [Calls -> Nat]
  BY DEF StructInv, TypeOK, Remove, Without
<1>3. \A l \in Keys : map[l] # None => want[map[l]] = l
  BY DEF StructInv, CachedIsLive, CachedKeys, Remove
<1>4. StrictOrder(order, Keys) /\ \A l \in Keys : order[l] \subseteq {m \in Keys : map[m] # None}
  BY DEF BoundInv, StrictOrder, Without, Remove, CachedKeys
<1> HIDE DEF map, order, st
<1> QED BY <1>1, <1>2, <1>3, <1>4, SweepBound

LEMMA NextBound == StructInv /\ BoundInv /\ [Next]_vars => BoundInv'
<1> SUFFICES ASSUME StructInv, BoundInv, [Next]_vars PROVE BoundInv'
  OBVIOUS
<1>0. StructInv'
  BY NextStruct
<1>1. ASSUME NEW c \in Calls, NEW k \in Keys, Acquire(c, k) \/ AcquireUncached(c, k)
      PROVE  BoundInv'
  BY <1>1, AcquireBound, SameBound DEF AcquireUncached
<1>2. ASSUME NEW c \in Calls,
             Healthy(c) \/ Rebuild(c) \/ CreateFails(c) \/ CloseDone(c)
             \/ OpenUncached(c) \/ ReleaseUncached(c)
      PROVE  BoundInv'
  BY <1>2, SameBound DEF Healthy, Rebuild, CreateFails, CloseDone, OpenUncached, ReleaseUncached
<1>3. ASSUME NEW c \in Calls, Unhealthy(c) PROVE BoundInv'
  BY <1>0, <1>3, ShrinkKeepsBound DEF Unhealthy
<1>4. ASSUME NEW c \in Calls, CreateSucceeds(c) \/ Release(c) \/ ReleaseDead(c) PROVE BoundInv'
  BY <1>4, CreateSucceedsBound, ReleaseBound, ReleaseDeadBound
<1>5. ASSUME NEW k \in Keys, Evict(k) PROVE BoundInv'
  BY <1>0, <1>5, ShrinkKeepsBound DEF Evict
<1>6. CASE Reap
  BY <1>0, <1>6, ShrinkKeepsBound DEF Reap
<1>7. CASE CloseAll
  BY <1>0, <1>7, ShrinkKeepsBound DEF CloseAll
<1>8. CASE UNCHANGED vars
  BY <1>8, SameBound DEF vars
<1> QED BY <1>1, <1>2, <1>3, <1>4, <1>5, <1>6, <1>7, <1>8 DEF Next, Finished

\* A map beyond its bound holds entries in use, and at most one idle one: what evictIfFull()
\* closes is always enough.
THEOREM OverBoundCorrect == Spec => []OverBoundOnlyInUse
<1>1. Init => BoundInv
  <2> SUFFICES ASSUME Init PROVE BoundInv
    OBVIOUS
  <2>1. CachedKeys = {}
    BY DEF Init, CachedKeys
  <2>2. Cardinality(CachedKeys) = 0
    BY <2>1, FS_EmptySet
  <2> QED BY <2>1, <2>2, CacheAssumption DEF Init, BoundInv, StrictOrder, OverBoundOnlyInUse
<1>2. BoundInv => OverBoundOnlyInUse
  BY DEF BoundInv
<1> QED BY <1>1, <1>2, NextBound, StructCorrect, PTL DEF Spec
=============================================================================
