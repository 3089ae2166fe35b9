----------------------------- MODULE MySQLAdapter -----------------------------
(***************************************************************************)
(* src/adapters/mysql.js: calls that share one pool, and the sockets the   *)
(* adapter remembers because only they can be destroyed.  mysql2 is        *)
(* modelled as the adapter uses it: a pool that dials when a caller needs  *)
(* a connection, reports every connection it has opened, and after end()   *)
(* refuses the caller of one that opens late.                              *)
(***************************************************************************)
EXTENDS FiniteSets

CONSTANTS
    MyCalls,     \* the calls of execute() on this adapter
    Sockets,     \* the connections the pool may open: as many as its bound
    NoSocket

ASSUME MyAssumption == NoSocket \notin Sockets

VARIABLES
    myPool,      \* "open", or "ended": this.pool is null and end() was called
    myAborted,   \* this.aborted
    myShared,    \* the adapter is cached: several calls may use it
    phase,       \* where each call is in execute()
    conn,        \* the socket the pool dials for it or has given it
    up,          \* the sockets that are open
    free,        \* those of them nobody uses
    sockets      \* this.sockets

myVars == <<myPool, myAborted, myShared, phase, conn, up, free, sockets>>

MyTypeOK ==
    /\ myPool \in {"open", "ended"}
    /\ myAborted \in BOOLEAN
    /\ myShared \in BOOLEAN
    /\ phase \in [MyCalls -> {"none", "queued", "dialing", "running", "done"}]
    /\ conn \in [MyCalls -> Sockets \cup {NoSocket}]
    /\ up \subseteq Sockets
    /\ free \subseteq up
    /\ sockets \subseteq Sockets

-----------------------------------------------------------------------------
(* Helpers *)

Dialed == {conn[c] : c \in {d \in MyCalls : phase[d] = "dialing"}}

\* The calls running on the sockets in S fail with them.
Failed(S) ==
    [c \in MyCalls |-> IF phase[c] = "running" /\ conn[c] \in S
                       THEN "done" ELSE phase[c]]

\* Sockets that close, of themselves or because they are destroyed.
Lose(S) ==
    /\ up' = up \ S
    /\ free' = free \ S
    /\ phase' = Failed(S)

-----------------------------------------------------------------------------
(* execute() *)

\* A statement that would change the session is refused, and so is any on an
\* adapter that has been closed.
MyExecute(c) ==
    /\ phase[c] = "none"
    /\ myShared \/ \A d \in MyCalls : phase[d] = "none"
    /\ \E next \in {"queued", "done"} :
        /\ next = "queued" => myPool = "open"
        /\ phase' = [phase EXCEPT ![c] = next]
    /\ UNCHANGED <<myPool, myAborted, myShared, conn, up, free, sockets>>

\* The pool gives the caller a free connection, and the statement is sent.
Take(c) ==
    /\ phase[c] = "queued"
    /\ myPool = "open"
    /\ \E s \in free : /\ conn' = [conn EXCEPT ![c] = s]
                       /\ free' = free \ {s}
    /\ phase' = [phase EXCEPT ![c] = "running"]
    /\ UNCHANGED <<myPool, myAborted, myShared, up, sockets>>

\* No connection is free: the pool dials one for the caller.
Dial(c) ==
    /\ phase[c] = "queued"
    /\ myPool = "open"
    /\ free = {}
    /\ \E s \in Sockets \ (up \cup Dialed) : conn' = [conn EXCEPT ![c] = s]
    /\ phase' = [phase EXCEPT ![c] = "dialing"]
    /\ UNCHANGED <<myPool, myAborted, myShared, up, free, sockets>>

\* Mutant: the listener does not look at aborted.
DialUp_Always(c) ==
    /\ phase[c] = "dialing"
    /\ myPool = "open"
    /\ up' = up \cup {conn[c]}
    /\ sockets' = sockets \cup {conn[c]}
    /\ phase' = [phase EXCEPT ![c] = "running"]
    /\ UNCHANGED <<myPool, myAborted, myShared, conn, free>>

\* The connection is up: the listener remembers it and the statement is sent; or
\* the adapter was aborted meanwhile, and the listener destroys it.
DialUp(c) ==
    /\ phase[c] = "dialing"
    /\ myPool = "open"
    /\ IF myAborted
       THEN /\ phase' = [phase EXCEPT ![c] = "done"]
            /\ UNCHANGED <<up, sockets>>
       ELSE /\ phase' = [phase EXCEPT ![c] = "running"]
            /\ up' = up \cup {conn[c]}
            /\ sockets' = sockets \cup {conn[c]}
    /\ UNCHANGED <<myPool, myAborted, myShared, conn, free>>

\* The connection is refused, or the pool has ended; a caller in the queue gives up.
DialFails(c) ==
    /\ phase[c] \in {"queued", "dialing"}
    /\ phase' = [phase EXCEPT ![c] = "done"]
    /\ UNCHANGED <<myPool, myAborted, myShared, conn, up, free, sockets>>

\* The statement returns or fails; its connection goes back, and an ended pool
\* closes it.
MyEnds(c) ==
    /\ phase[c] = "running"
    /\ phase' = [phase EXCEPT ![c] = "done"]
    /\ IF myPool = "open"
       THEN /\ free' = free \cup {conn[c]}
            /\ UNCHANGED <<up, sockets>>
       ELSE /\ up' = up \ {conn[c]}
            /\ sockets' = sockets \ {conn[c]}
            /\ UNCHANGED free
    /\ UNCHANGED <<myPool, myAborted, myShared, conn>>

\* Mutant: the set keeps a connection that has ended.
SocketLost_StillTracked(s) ==
    /\ s \in up
    /\ Lose({s})
    /\ UNCHANGED <<myPool, myAborted, myShared, conn, sockets>>

\* The server closes a connection: "end" or "error".
SocketLost(s) ==
    /\ s \in up
    /\ Lose({s})
    /\ sockets' = sockets \ {s}
    /\ UNCHANGED <<myPool, myAborted, myShared, conn>>

-----------------------------------------------------------------------------
(* abort() and close(), as their callers combine them *)

\* index.js abandon(): abort() destroys every socket it knows, and close() stops
\* listening and ends the pool.
MyAbandon ==
    /\ myPool = "open"
    /\ ~myAborted
    /\ myAborted' = TRUE
    /\ myPool' = "ended"
    /\ up' = up \ (sockets \cup free)
    /\ free' = {}
    /\ phase' = Failed(sockets)
    /\ sockets' = {}
    /\ UNCHANGED <<myShared, conn>>

\* close() by itself: end() closes what is free and, later, what is running.
MyClose ==
    /\ myPool = "open"
    /\ myPool' = "ended"
    /\ Lose(free)
    /\ sockets' = {}
    /\ UNCHANGED <<myAborted, myShared, conn>>

\* abort() by itself: on an adapter that has been closed, by the limit of a call,
\* or on one that is not cached.
MyAbortOnly ==
    /\ ~myAborted
    /\ myPool = "ended" \/ ~myShared
    /\ myAborted' = TRUE
    /\ Lose(sockets)
    /\ sockets' = {}
    /\ UNCHANGED <<myPool, myShared, conn>>

-----------------------------------------------------------------------------
MyInit ==
    /\ myPool = "open"
    /\ myAborted = FALSE
    /\ myShared \in BOOLEAN
    /\ phase = [c \in MyCalls |-> "none"]
    /\ conn = [c \in MyCalls |-> NoSocket]
    /\ up = {}
    /\ free = {}
    /\ sockets = {}

MyNext ==
    \/ \E c \in MyCalls : \/ MyExecute(c) \/ Take(c) \/ Dial(c) \/ DialUp(c)
                          \/ DialFails(c) \/ MyEnds(c)
    \/ \E s \in Sockets : SocketLost(s)
    \/ MyAbandon \/ MyClose \/ MyAbortOnly

MySpec == MyInit /\ [][MyNext]_myVars

-----------------------------------------------------------------------------
(* Properties *)

\* While the pool is open the adapter knows exactly the sockets that are open: an
\* abort reaches every one of them, and the set does not grow with connections
\* long gone.
SocketsAreKnown == myPool = "open" => sockets = up

\* Once aborted, an adapter starts no statement, not even on a connection that was
\* being dialed when the abort came.
MyNothingStartsAborted ==
    [][\A c \in MyCalls : phase[c] # "running" /\ phase'[c] = "running"
                          => ~myAborted]_myVars
=============================================================================
