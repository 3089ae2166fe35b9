---------------------------- MODULE CallLifecycle ----------------------------
(***************************************************************************)
(* One tools/call from the moment its target is resolved to the release of *)
(* its connection: the gates of core/registry.js run(), the budget that    *)
(* withConnection() puts on the rest of it, and the cancellation of        *)
(* src/index.js, driving the connection cache.                             *)
(*                                                                         *)
(* Two promises race for the answer, and neither stops the operation that  *)
(* loses: what the guard and the cancellation can do to it goes through    *)
(* the cache and the adapter.  Every step here is a step of                *)
(* ConnectionCache or leaves the cache alone (CallSpec => Spec).           *)
(***************************************************************************)
EXTENDS ConnectionCache

VARIABLES
    target,    \* the cache key a call's resolved target stands for
    answer,    \* what the client was told
    stmt,      \* the statement of a call, as its server sees it
    fired,     \* calls whose hard limit has struck
    discarded  \* history: adapters the server has given up on

callVars == <<target, answer, stmt, fired, discarded>>
allVars == <<vars, callVars>>

Answers == {"none", "ok", "error", "timeout", "cancelled"}
Statements == {"none", "running", "stopped", "over"}

CallTypeOK ==
    /\ TypeOK
    /\ target \in [Calls -> Keys \cup {None}]
    /\ answer \in [Calls -> Answers]
    /\ stmt \in [Calls -> Statements]
    /\ fired \subseteq Calls
    /\ discarded \subseteq Calls

-----------------------------------------------------------------------------
(* Helpers *)

\* The first answer is the one the client gets.
Tell(C, what) ==
    [c \in Calls |-> IF c \in C /\ answer[c] = "none" THEN what ELSE answer[c]]

\* The promise of a call settles with this step.
Failing == {c \in Calls : pc[c] = "creating" /\ pc'[c] = "done"}

\* A call that is handed its adapter runs its statement at once, whoever still
\* waits for it.  On an adapter that is closing execute() throws instead.
Statement(c) ==
    IF pc[c] # "using" /\ pc'[c] = "using"
    THEN IF status'[held'[c]] = "live" THEN "running" ELSE "over"
    ELSE stmt[c]

\* abort() on the adapters in A stops every statement on them, whoever runs it,
\* as long as close() has not taken the driver's handle away before.
Stopped(st, A) ==
    [c \in Calls |-> IF st[c] = "running" /\ held[c] \in A THEN "stopped"
                                                           ELSE st[c]]

-----------------------------------------------------------------------------
(* A call *)

\* The target is resolved; the gates begin, one of which awaits a name lookup.
Begin(c, k) ==
    /\ target[c] = None
    /\ target' = [target EXCEPT ![c] = k]
    /\ UNCHANGED <<vars, answer, stmt, fired, discarded>>

\* A gate refuses the statement: no connection is asked for.
Refuse(c) ==
    /\ target[c] # None
    /\ pc[c] = "idle"
    /\ stmt[c] = "none"
    /\ stmt' = [stmt EXCEPT ![c] = "over"]
    /\ answer' = Tell({c}, "error")
    /\ UNCHANGED <<vars, target, fired, discarded>>

\* withConnection(): the budget starts and acquire() runs to its first await.
\* A cancellation during the gates has not told anybody.
Start(c) ==
    /\ target[c] # None
    /\ stmt[c] = "none"
    /\ Acquire(c, target[c]) \/ AcquireUncached(c, target[c])
    /\ UNCHANGED callVars

\* The cache and the drivers go on by themselves: a check or a creation settles,
\* an adapter is closed, the sweep runs, the server shuts down.
Proceed ==
    /\ \/ \E c \in Calls : \/ Healthy(c) \/ Unhealthy(c) \/ Rebuild(c)
                           \/ CreateSucceeds(c) \/ CreateFails(c)
                           \/ OpenUncached(c) \/ CloseDone(c)
       \/ Reap
       \/ CloseAll
    /\ stmt' = [c \in Calls |-> Statement(c)]
    /\ answer' = Tell(Failing, "error")
    /\ UNCHANGED <<target, fired, discarded>>

\* The statement returned, failed or was stopped: the adapter is released and
\* the call answered, with no await in between.
Finish(c) ==
    /\ Release(c) \/ ReleaseUncached(c)
    /\ stmt' = [stmt EXCEPT ![c] = "over"]
    /\ \E what \in {"ok", "error"} : answer' = Tell({c}, what)
    /\ UNCHANGED <<target, fired, discarded>>

\* It failed because the connection is dead: evict(key), abort() where evict()
\* has not closed the adapter, release.
FinishDead(c) ==
    /\ ReleaseDead(c)
    /\ LET st == [stmt EXCEPT ![c] = "over"]
       IN  stmt' = Stopped(st, {a \in {held[c]} : status'[a] = "live"})
    /\ answer' = Tell({c}, "error")
    /\ discarded' = discarded \cup {held[c]}
    /\ UNCHANGED <<target, fired>>

\* With the cache off there is nothing to evict: abort() and dispose().
FinishDeadUncached(c) ==
    /\ ReleaseUncached(c)
    /\ stmt' = Stopped([stmt EXCEPT ![c] = "over"], {held[c]})
    /\ answer' = Tell({c}, "error")
    /\ discarded' = discarded \cup {held[c]}
    /\ UNCHANGED <<target, fired>>

\* evict(key), when the key may have no entry.
EvictIfThere_MapOnly(k) ==    \* mutant: the entry is dropped and not closed
    /\ cached' = Remove(cached, {k})
    /\ before' = Without(before, {k})
    /\ UNCHANGED <<enabled, pending, inFlight, status, want, held, pc, suspect,
                   down>>
EvictIfThere(k) == IF cached[k] # None THEN Evict(k) ELSE UNCHANGED vars

\* What abandon() finds under a key.
EntryOf_Unchecked(k) == {cached[k]}    \* mutant: without the "?."
EntryOf(k) == {cached[k]} \ {None}

\* The adapter withConnection() has in its closure: none before acquire() has
\* handed it out.
Active(c) == IF pc[c] = "using" THEN {held[c]} ELSE {}

\* Mutant: the budget is put on the statement and not on the whole operation.
GuardFires_StatementOnly(c) ==
    /\ pc[c] = "using"
    /\ c \notin fired
    /\ fired' = fired \cup {c}
    /\ EvictIfThere(want[c])
    /\ stmt' = Stopped(stmt, {a \in Active(c) : status'[a] = "live"})
    /\ answer' = Tell({c}, "timeout")
    /\ discarded' = discarded \cup Active(c)
    /\ UNCHANGED target

\* The hard limit strikes while the operation is not over: evict(key) and then
\* abort() on the active adapter, which evict() has just closed unless the map
\* held another one.
GuardFires(c) ==
    /\ pc[c] \notin {"idle", "done"}
    /\ c \notin fired
    /\ fired' = fired \cup {c}
    /\ EvictIfThere(want[c])
    /\ stmt' = Stopped(stmt, {a \in Active(c) : status'[a] = "live"})
    /\ answer' = Tell({c}, "timeout")
    /\ discarded' = discarded \cup Active(c)
    /\ UNCHANGED target

\* Mutant: the adapter is aborted and stays in the map.
Cancel_KeepsEntry(c) ==
    /\ target[c] # None
    /\ answer[c] = "none"
    /\ stmt' = Stopped(stmt, EntryOf(target[c]))
    /\ answer' = Tell({c}, "cancelled")
    /\ discarded' = discarded \cup EntryOf(target[c])
    /\ UNCHANGED <<vars, target, fired>>

\* The client cancels a call it has no answer to: abandon() aborts the adapter
\* in the map, if there is one, and evicts it.  The operation goes on.
Cancel(c) ==
    LET entry == EntryOf(target[c]) IN
    /\ target[c] # None
    /\ answer[c] = "none"
    /\ EvictIfThere(target[c])
    /\ stmt' = Stopped(stmt, entry)
    /\ answer' = Tell({c}, "cancelled")
    /\ discarded' = discarded \cup entry
    /\ UNCHANGED <<target, fired>>

-----------------------------------------------------------------------------
CallInit ==
    /\ Init
    /\ target = [c \in Calls |-> None]
    /\ answer = [c \in Calls |-> "none"]
    /\ stmt = [c \in Calls |-> "none"]
    /\ fired = {}
    /\ discarded = {}

\* Every call has been served or refused.
AllServed ==
    /\ \A c \in Calls : pc[c] = "done" \/ (pc[c] = "idle" /\ stmt[c] = "over")
    /\ UNCHANGED allVars

CallNext ==
    \/ \E c \in Calls, k \in Keys : Begin(c, k)
    \/ \E c \in Calls : \/ Refuse(c) \/ Start(c)
                        \/ Finish(c) \/ FinishDead(c) \/ FinishDeadUncached(c)
                        \/ GuardFires(c) \/ Cancel(c)
    \/ Proceed
    \/ AllServed

CallSpec == CallInit /\ [][CallNext]_allVars

\* The only thing assumed of the world: a timer that is not cleared fires.  The
\* driver may never settle anything.
TimersRun == \A c \in Calls : WF_allVars(GuardFires(c))

TimedSpec == CallSpec /\ TimersRun

-----------------------------------------------------------------------------
(* Properties *)

\* A connection the server has given up on, because its statement overran, was
\* cancelled or failed on a dead socket, is in the map no more: no later call is
\* handed it.
DiscardedStayOut == \A k \in CachedKeys : cached[k] \notin discarded

\* A statement runs on a connection that is in the map, or that nobody else can
\* be handed any more; in the map it is one of those the entry's counter counts.
RunningIsCounted ==
    \A c \in Calls : stmt[c] = "running" =>
        /\ pc[c] = "using"
        /\ cached[want[c]] = held[c] => inFlight[held[c]] > 0

\* However long the driver hangs, while connecting, checking, closing or running
\* the statement, a call that asked for a connection gets an answer.
AlwaysAnswered ==
    \A c \in Calls : pc[c] # "idle" ~> answer[c] # "none"

-----------------------------------------------------------------------------
(* What the repository says and the code does not keep *)

\* "When this server's own guard fires, the adapter is aborted and the cache
\* entry is evicted": the statement the guard struck does not go on.
GuardStopsStatement ==
    [][\A c \in Calls : GuardFires(c) /\ stmt[c] = "running"
                        => stmt'[c] # "running"]_allVars

\* "The statement was not left running against the connection pool": nothing is
\* started for a call the client has an answer to.
NothingStartsLate ==
    [][\A c \in Calls : stmt[c] # "running" /\ stmt'[c] = "running"
                        => answer[c] = "none"]_allVars
=============================================================================
