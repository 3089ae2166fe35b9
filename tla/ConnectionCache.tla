--------------------------- MODULE ConnectionCache ---------------------------
(***************************************************************************)
(* The connection cache of src/core/connection-cache.js, driven by calls   *)
(* the way core/registry.js withConnection() drives it.                    *)
(*                                                                         *)
(* A call is one acquire() and everything that follows it up to release(). *)
(* It creates at most one adapter, so the adapter (and the cache entry     *)
(* that wraps it) is named after the call whose create() opened it.        *)
(* JavaScript runs one continuation at a time, so an action is the code    *)
(* between two awaits.  The burst of microtasks that follows a settled     *)
(* create() (drop the pending marker, install, count every waiter) runs    *)
(* before any other callback and is one action.                            *)
(***************************************************************************)
EXTENDS Naturals, FiniteSets

CONSTANTS
    Keys,        \* cache keys: a driver and the digest of a resolved URI
    Calls,       \* every acquire() ever made; also the names of the adapters
    None,        \* "no adapter", "no key"
    MaxEntries   \* the bound of the cache (ANYDB_CACHE_MAX)

ASSUME CacheAssumption ==
    /\ None \notin Keys
    /\ None \notin Calls
    /\ MaxEntries \in Nat \ {0}
    /\ IsFiniteSet(Calls)

VARIABLES
    enabled,   \* FALSE when ANYDB_CACHE=0: one connection per call
    cached,    \* entries: the adapter installed under each key
    before,    \* the Map's insertion order: the keys inserted before each key
    pending,   \* pending: the creation in flight for each key
    inFlight,  \* entry.inFlight, the counter that protects an entry in use
    status,    \* what became of the adapter each call may have opened
    want,      \* the key a call asked for
    held,      \* the entry or the creation slot a call holds
    pc,        \* where a call is
    suspect,   \* history: keys whose connection once failed a health check
    down       \* closeAll() has run

vars == <<enabled, cached, before, pending, inFlight, status, want, held, pc,
          suspect, down>>

Status == {"none", "creating", "failed", "live", "closing", "closed"}

\* "yielding" is a caller whose close() found nothing left to close and only
\* gives up its turn once before it goes on.
Phases == {"idle", "checking", "disposing", "yielding", "creating", "using",
           "done"}

TypeOK ==
    /\ enabled \in BOOLEAN
    /\ cached \in [Keys -> Calls \cup {None}]
    /\ before \in [Keys -> SUBSET Keys]
    /\ pending \in [Keys -> Calls \cup {None}]
    /\ inFlight \in [Calls -> Nat]
    /\ status \in [Calls -> Status]
    /\ want \in [Calls -> Keys \cup {None}]
    /\ held \in [Calls -> Calls \cup {None}]
    /\ pc \in [Calls -> Phases]
    /\ \A c \in Calls : pc[c] # "idle" => want[c] # None /\ held[c] # None
    /\ suspect \subseteq Keys
    /\ down \in BOOLEAN

-----------------------------------------------------------------------------
(* Helpers *)

CachedKeys == {k \in Keys : cached[k] # None}

\* The calls an entry's inFlight counter stands for.
Users(a) == {c \in Calls : pc[c] \in {"checking", "using"} /\ held[c] = a}

\* The calls awaiting one creation.
Waiters(a) == {c \in Calls : pc[c] = "creating" /\ held[c] = a}

\* entries.delete, and the insertion order without the deleted keys.
Remove_Nothing(map, K) == map    \* mutant: deletes from a copy of the map
Remove(map, K) == [k \in Keys |-> IF k \in K THEN None ELSE map[k]]

Without(order, K) == [k \in Keys |-> IF k \in K THEN {} ELSE order[k] \ K]

\* delete(key) followed by set(key): the key becomes the most recent one.
Touch(k) == [l \in Keys |-> IF l = k THEN CachedKeys \ {k}
                                     ELSE before[l] \ {k}]

\* dispose(): closing an adapter that is already closing does nothing more.
Dispose_Never(st, A) == st       \* mutant: dropped entries are not closed
Dispose(st, A) == [a \in Calls |-> IF a \in A /\ st[a] = "live"
                                   THEN "closing" ELSE st[a]]

\* The entries evictIfFull() may close.
Idle_OrBusy(map, flight, keep) ==    \* mutant: inFlight is not looked at
    {k \in Keys : map[k] \notin {None, keep}}
Idle(map, flight, keep) ==
    {k \in Keys : map[k] \notin {None, keep} /\ flight[map[k]] = 0}

\* evictIfFull(keep): the least recently inserted idle entries, as many as the
\* map is over its bound.
Victims_OffByOne(map, order, flight, keep) ==    \* mutant: size < maxEntries
    LET idle == Idle(map, flight, keep)
        size == Cardinality({k \in Keys : map[k] # None})
    IN  {k \in idle : Cardinality(order[k] \cap idle) + MaxEntries + 1 < size}
Victims(map, order, flight, keep) ==
    LET idle == Idle(map, flight, keep)
        size == Cardinality({k \in Keys : map[k] # None})
    IN  {k \in idle : Cardinality(order[k] \cap idle) + MaxEntries < size}

\* Leave the map in the given state, less what evictIfFull(keep) closes.
SweepInto(map, order, flight, st, keep) ==
    LET out == Victims(map, order, flight, keep)
    IN  /\ cached' = Remove(map, out)
        /\ before' = Without(order, out)
        /\ inFlight' = flight
        /\ status' = Dispose(st, {map[k] : k \in out})

\* beginCreate(): the creation in flight for k, or else a new one.
SlotFor_NoJoin(c, k) == c               \* mutant: one connection per caller
SlotFor_NoReturn(c, k) == pending[k]    \* mutant: the new slot is not returned
SlotFor(c, k) == IF pending[k] # None THEN pending[k] ELSE c

BeginCreate(c, k) ==
    LET slot == SlotFor(c, k) IN
    /\ pc' = [pc EXCEPT ![c] = "creating"]
    /\ held' = [held EXCEPT ![c] = slot]
    /\ pending' = [pending EXCEPT ![k] = slot]
    /\ status' = IF slot = c THEN [status EXCEPT ![c] = "creating"] ELSE status

\* The entry release() decrements: the caller's own, if the map still has it.
EntryToRelease_ByKey(a) == cached[want[a]]    \* mutant: the key is enough
EntryToRelease(a) == IF cached[want[a]] = a THEN a ELSE None

-----------------------------------------------------------------------------
(* acquire() *)

\* acquire() up to its first await: a warm key is touched and counted before
\* the health check, a cold one goes to the creation.
Acquire(c, k) ==
    /\ enabled
    /\ pc[c] = "idle"
    /\ want' = [want EXCEPT ![c] = k]
    /\ IF cached[k] # None
       THEN /\ before' = Touch(k)
            /\ inFlight' = [inFlight EXCEPT ![cached[k]] = @ + 1]
            /\ held' = [held EXCEPT ![c] = cached[k]]
            /\ pc' = [pc EXCEPT ![c] = "checking"]
            /\ UNCHANGED <<pending, status>>
       ELSE /\ BeginCreate(c, k)
            /\ UNCHANGED <<before, inFlight>>
    /\ UNCHANGED <<enabled, cached, suspect, down>>

\* Mutant: the entry is moved to the recent end after its check, not before.
Healthy_TouchesLate(c) ==
    /\ pc[c] = "checking"
    /\ status[held[c]] \in {"live", "closing"}
    /\ pc' = [pc EXCEPT ![c] = "using"]
    /\ cached' = [cached EXCEPT ![want[c]] = held[c]]
    /\ before' = Touch(want[c])
    /\ UNCHANGED <<enabled, pending, inFlight, status, want, held, suspect,
                   down>>

\* isHealthy() answers true.  A check that was sent before somebody else began
\* to close the adapter can still be answered: the drivers' close() waits for
\* the statement in progress.  Nothing looks at the cache again.
Healthy(c) ==
    /\ pc[c] = "checking"
    /\ status[held[c]] \in {"live", "closing"}
    /\ pc' = [pc EXCEPT ![c] = "using"]
    /\ UNCHANGED <<enabled, cached, before, pending, inFlight, status, want,
                   held, suspect, down>>

\* isHealthy() answers false or throws: whatever is under the key by now leaves
\* the map, and the entry that failed the check is disposed of.
Unhealthy(c) ==
    LET k == want[c] IN
    /\ pc[c] = "checking"
    /\ cached' = Remove(cached, {k})
    /\ before' = Without(before, {k})
    /\ status' = Dispose(status, {held[c]})
    /\ suspect' = suspect \cup {k}
    /\ pc' = [pc EXCEPT ![c] = IF status[held[c]] = "live" THEN "disposing"
                                                           ELSE "yielding"]
    /\ UNCHANGED <<enabled, pending, inFlight, want, held, down>>

\* Mutant: the caller checks the entry it holds once more.
Rebuild_ChecksAgain(c) ==
    /\ \/ pc[c] = "yielding"
       \/ pc[c] = "disposing" /\ status[held[c]] = "closed"
    /\ pc' = [pc EXCEPT ![c] = "checking"]
    /\ UNCHANGED <<enabled, cached, before, pending, inFlight, status, want,
                   held, suspect, down>>

\* The awaited dispose() is over; the caller goes on to the creation without
\* looking at the map again.
Rebuild(c) ==
    /\ \/ pc[c] = "yielding"
       \/ pc[c] = "disposing" /\ status[held[c]] = "closed"
    /\ BeginCreate(c, want[c])
    /\ UNCHANGED <<enabled, cached, before, inFlight, want, suspect, down>>

\* create() resolves: the pending marker goes, the first waiter installs the
\* entry and shrinks the map to its bound, every waiter is counted on it.
CreateSucceeds(a) ==
    LET k == want[a] IN
    /\ enabled
    /\ status[a] = "creating"
    /\ pending' = [pending EXCEPT ![k] = None]
    /\ SweepInto([cached EXCEPT ![k] = a],
                 IF cached[k] = None THEN Touch(k) ELSE before,
                 [inFlight EXCEPT ![a] = Cardinality(Waiters(a))],
                 [status EXCEPT ![a] = "live"],
                 a)
    /\ pc' = [c \in Calls |-> IF c \in Waiters(a) THEN "using" ELSE pc[c]]
    /\ UNCHANGED <<enabled, want, held, suspect, down>>

\* create() rejects: every waiter gets the error and nothing stays behind.
CreateFails(a) ==
    /\ status[a] = "creating"
    /\ status' = [status EXCEPT ![a] = "failed"]
    /\ pending' = [k \in Keys |-> IF pending[k] = a THEN None ELSE pending[k]]
    /\ pc' = [c \in Calls |-> IF c \in Waiters(a) THEN "done" ELSE pc[c]]
    /\ UNCHANGED <<enabled, cached, before, inFlight, want, held, suspect,
                   down>>

-----------------------------------------------------------------------------
(* release() and evict() *)

\* The caller of acquire() is done.  Identity decides whether the entry is still
\* the one in the map: if it is not there is nothing to decrement, and the
\* sweep runs without protecting anything.
Release(c) ==
    LET e == EntryToRelease(held[c]) IN
    /\ enabled
    /\ pc[c] = "using"
    /\ pc' = [pc EXCEPT ![c] = "done"]
    /\ IF e # None
       THEN SweepInto(cached, before,
                      [inFlight EXCEPT ![e] = IF @ > 0 THEN @ - 1 ELSE 0],
                      status, e)
       ELSE SweepInto(cached, before, inFlight, status, None)
    /\ UNCHANGED <<enabled, pending, want, held, suspect, down>>

\* evict(key): the key's entry, whichever call opened it and whoever is using it,
\* leaves the map and is closed.  Its callers are calls that overran their budget
\* or were cancelled, and they name a key, not the entry they hold; a call
\* cancelled before its acquire() does it too, so it may happen at any time.
Evict(k) ==
    /\ cached[k] # None
    /\ cached' = Remove(cached, {k})
    /\ before' = Without(before, {k})
    /\ status' = Dispose(status, {cached[k]})
    /\ UNCHANGED <<enabled, pending, inFlight, want, held, pc, suspect,
                   down>>

\* The statement failed on a dead connection: evict(key), then release(), with
\* no await between them.  The entry the call holds is out of the map by then.
ReleaseDead(c) ==
    LET k == want[c] IN
    /\ enabled
    /\ pc[c] = "using"
    /\ pc' = [pc EXCEPT ![c] = "done"]
    /\ SweepInto(Remove(cached, {k}), Without(before, {k}), inFlight,
                 Dispose(status, {cached[k]}), None)
    /\ UNCHANGED <<enabled, pending, want, held, suspect, down>>

-----------------------------------------------------------------------------
(* The cache's own housekeeping, and its end *)

\* reap(): the sweep closes entries nobody uses whose idle time is up.  Idle
\* times are arbitrary, so any of the idle entries may be due.
Reap ==
    /\ ~down
    /\ \E K \in SUBSET {k \in CachedKeys : inFlight[cached[k]] = 0} :
        /\ K # {}
        /\ cached' = Remove(cached, K)
        /\ before' = Without(before, K)
        /\ status' = Dispose(status, {cached[k] : k \in K})
    /\ UNCHANGED <<enabled, pending, inFlight, want, held, pc, suspect,
                   down>>

\* closeAll(): stop the sweep, empty the map, dispose of what was in it.  The
\* transport's close and a signal may each call it.  Creations in flight are
\* not its business.
CloseAll ==
    /\ ~down \/ CachedKeys # {}
    /\ down' = TRUE
    /\ cached' = Remove(cached, Keys)
    /\ before' = Without(before, Keys)
    /\ status' = Dispose(status, {cached[k] : k \in CachedKeys})
    /\ UNCHANGED <<enabled, pending, inFlight, want, held, pc, suspect>>

\* adapter.close() settles, whether it resolves or rejects.
CloseDone(a) ==
    /\ status[a] = "closing"
    /\ status' = [status EXCEPT ![a] = "closed"]
    /\ UNCHANGED <<enabled, cached, before, pending, inFlight, want, held,
                   pc, suspect, down>>

-----------------------------------------------------------------------------
(* The cache switched off: create, use, dispose *)

AcquireUncached(c, k) ==
    /\ ~enabled
    /\ pc[c] = "idle"
    /\ want' = [want EXCEPT ![c] = k]
    /\ held' = [held EXCEPT ![c] = c]
    /\ pc' = [pc EXCEPT ![c] = "creating"]
    /\ status' = [status EXCEPT ![c] = "creating"]
    /\ UNCHANGED <<enabled, cached, before, pending, inFlight, suspect,
                   down>>

OpenUncached(c) ==
    /\ ~enabled
    /\ status[c] = "creating"
    /\ status' = [status EXCEPT ![c] = "live"]
    /\ pc' = [pc EXCEPT ![c] = "using"]
    /\ UNCHANGED <<enabled, cached, before, pending, inFlight, want, held,
                   suspect, down>>

\* Mutant: with nothing cached nobody closes the connection.
ReleaseUncached_NoDispose(c) ==
    /\ ~enabled
    /\ pc[c] = "using"
    /\ pc' = [pc EXCEPT ![c] = "done"]
    /\ UNCHANGED <<enabled, status, cached, before, pending, inFlight, want,
                   held, suspect, down>>

ReleaseUncached(c) ==
    /\ ~enabled
    /\ pc[c] = "using"
    /\ pc' = [pc EXCEPT ![c] = "done"]
    /\ status' = Dispose(status, {held[c]})
    /\ UNCHANGED <<enabled, cached, before, pending, inFlight, want, held,
                   suspect, down>>

-----------------------------------------------------------------------------
Init ==
    /\ enabled \in BOOLEAN
    /\ cached = [k \in Keys |-> None]
    /\ before = [k \in Keys |-> {}]
    /\ pending = [k \in Keys |-> None]
    /\ inFlight = [a \in Calls |-> 0]
    /\ status = [a \in Calls |-> "none"]
    /\ want = [c \in Calls |-> None]
    /\ held = [c \in Calls |-> None]
    /\ pc = [c \in Calls |-> "idle"]
    /\ suspect = {}
    /\ down = FALSE

\* Every call has had its answer: nothing is left to do.
Finished ==
    /\ \A c \in Calls : pc[c] = "done"
    /\ UNCHANGED vars

Next ==
    \/ \E c \in Calls, k \in Keys : Acquire(c, k) \/ AcquireUncached(c, k)
    \/ \E c \in Calls : \/ Healthy(c) \/ Unhealthy(c) \/ Rebuild(c)
                        \/ CreateSucceeds(c) \/ CreateFails(c)
                        \/ Release(c) \/ ReleaseDead(c) \/ CloseDone(c)
                        \/ OpenUncached(c) \/ ReleaseUncached(c)
    \/ \E k \in Keys : Evict(k)
    \/ Reap
    \/ CloseAll
    \/ Finished

Spec == Init /\ [][Next]_vars

\* What the drivers owe: connect(), isHealthy(), close() and a statement all
\* settle, each of them under a timer of its own; and the event loop runs every
\* continuation that is ready.
Fairness ==
    \A c \in Calls :
        /\ WF_vars(Healthy(c) \/ Unhealthy(c))
        /\ WF_vars(Rebuild(c))
        /\ WF_vars(CreateSucceeds(c) \/ OpenUncached(c) \/ CreateFails(c))
        /\ WF_vars(Release(c) \/ ReleaseDead(c) \/ ReleaseUncached(c))
        /\ WF_vars(CloseDone(c))

FairSpec == Spec /\ Fairness

-----------------------------------------------------------------------------
(* Properties *)

\* The counter of an entry in the map is exactly the number of calls that are
\* checking it or using it, whatever evictions, replacements and late releases
\* have happened meanwhile: housekeeping relies on it and on nothing else.
InFlightExact ==
    \A k \in CachedKeys : inFlight[cached[k]] = Cardinality(Users(cached[k]))

\* Whatever the map holds is open and sits under the key it was opened for.
CachedIsLive ==
    \A k \in CachedKeys : status[cached[k]] = "live" /\ want[cached[k]] = k

\* A key has at most one creation in flight, and its marker is what later
\* callers join.
SingleFlight ==
    \A a \in Calls :
        (enabled /\ status[a] = "creating") => pending[want[a]] = a

\* Beyond its bound the map holds entries in use, and at most one idle entry:
\* the one the last release() protected.
OverBoundOnlyInUse ==
    Cardinality(CachedKeys) > MaxEntries =>
        Cardinality({k \in CachedKeys : inFlight[cached[k]] = 0}) <= 1

\* An open adapter that is neither in the map nor opened for one call alone is
\* never closed by anybody.
Orphan(a) == enabled /\ status[a] = "live" /\ cached[want[a]] # a

\* An adapter can only be lost under a key whose connection once failed its
\* health check: evictions, failed creations, late releases, the sweep and
\* closeAll() never lose one.
OrphansNeedASuspect == \A a \in Calls : Orphan(a) => want[a] \in suspect

\* With the cache off every open adapter belongs to the one call using it.
UncachedOwned ==
    ~enabled =>
        \A a \in Calls : status[a] = "live" => pc[a] = "using" /\ held[a] = a

\* An adapter is closed while another call goes on using it only by closeAll(),
\* by an evict() that names its key, or on the verdict of a call on that key:
\* never by the bound, never by the sweep, never for the sake of another key.
HousekeepingSparesUsers ==
    [][\A a \in Calls :
         (status[a] = "live" /\ status'[a] = "closing" /\ Users(a)' # {})
         => \/ CloseAll
            \/ Evict(want[a])
            \/ \E c \in Calls : /\ want[c] = want[a]
                                /\ Unhealthy(c) \/ ReleaseDead(c)]_vars

\* What has left the map never comes back: an entry appears in it only as the
\* outcome of its own creation.
NeverReinstalled ==
    [][\A k \in Keys : cached'[k] \notin {None, cached[k]}
                       => status[cached'[k]] = "creating"]_vars

\* Every acquire() settles: it hands out an adapter or throws.
AcquireSettles ==
    \A c \in Calls :
        pc[c] \in {"checking", "disposing", "yielding", "creating"}
            ~> pc[c] \in {"using", "done"}

-----------------------------------------------------------------------------
(* The inductive invariant behind the properties above *)

Settled == {"live", "closing", "closed"}

\* A call that has not reached the creation has opened nothing; one that waits
\* does so on a creation in flight for its own key; one that holds an entry
\* holds one opened for its own key; one on its way to a second creation has
\* seen a check fail.
CallsHoldEntries ==
    \A c \in Calls :
        /\ pc[c] \in {"idle", "checking", "disposing", "yielding"}
              => status[c] = "none"
        /\ pc[c] = "creating"
              => status[held[c]] = "creating" /\ want[held[c]] = want[c]
        /\ pc[c] \in {"checking", "disposing", "yielding", "using"}
              => status[held[c]] \in Settled /\ want[held[c]] = want[c]
        /\ pc[c] \in {"disposing", "yielding"} => want[c] \in suspect

\* A creation in flight is awaited by the call that started it and marked under
\* its key; a marker without a creation does not exist.
CreationsAreMarked ==
    /\ \A a \in Calls : status[a] = "creating" =>
          /\ pc[a] = "creating" /\ held[a] = a
          /\ enabled => pending[want[a]] = a
    /\ \A k \in Keys : pending[k] # None =>
          status[pending[k]] = "creating" /\ want[pending[k]] = k

\* A creation runs beside an installed entry only after a failed check.
WarmCreationIsSuspect ==
    \A k \in Keys : pending[k] # None /\ cached[k] # None => k \in suspect

\* The cache switched off holds nothing, and a call only holds what it opened.
OffIsEmpty ==
    ~enabled =>
        /\ \A k \in Keys : cached[k] = None /\ pending[k] = None
        /\ \A c \in Calls :
              /\ pc[c] \in {"idle", "creating", "using", "done"}
              /\ pc[c] # "idle" => held[c] = c

StructInv ==
    /\ TypeOK
    /\ CallsHoldEntries
    /\ CreationsAreMarked
    /\ CachedIsLive
    /\ WarmCreationIsSuspect
    /\ OffIsEmpty
    /\ OrphansNeedASuspect
    /\ UncachedOwned

-----------------------------------------------------------------------------
(* What the repository says and the code does not keep *)

\* "every adapter is either cached or closed, never orphaned".
NoOrphan == \A a \in Calls : ~Orphan(a)
=============================================================================
