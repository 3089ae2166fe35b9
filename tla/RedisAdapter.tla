----------------------------- MODULE RedisAdapter -----------------------------
(***************************************************************************)
(* src/src/adapters/redis.js: one client, or one cluster, that calls       *)
(* share; the node client db_schema and db_health read from; and the       *)
(* collections that are read page by page because one reply could hold the *)
(* whole of them.  A collection is the numbers 1 .. Members.               *)
(***************************************************************************)
EXTENDS Naturals, Sequences

CONSTANTS
    RedisCalls,
    Members,            \* the members of the collection read
    Caps,               \* the values of maxRows; 0 is none
    CollectionCap       \* DEFAULT_COLLECTION_CAP

ASSUME RedisAssumption == {Members, CollectionCap} \subseteq Nat /\ Caps \subseteq Nat

VARIABLES
    cluster,    \* this.cluster
    rclient,    \* this.client: "none", "connecting", "ready" or "lost"
    raborted,    \* this.aborted
    masters,    \* the cluster reports a master
    node,       \* nodeClientPromise: "none", "pending", "kept" or "rejected"
    reply       \* call -> its command

redisVars == <<cluster, rclient, raborted, masters, node, reply>>

NoReply == [phase |-> "none", paged |-> FALSE, cap |-> 0,
            rows |-> <<>>, truncated |-> FALSE]

RedisInit ==
    /\ cluster \in BOOLEAN
    /\ rclient = "none" /\ raborted = FALSE
    /\ masters \in BOOLEAN
    /\ node = "none"
    /\ reply = [c \in RedisCalls |-> NoReply]

\* connect() and connectCluster(); a scheme that is none of Redis's is refused before.
RedisConnect ==
    /\ rclient = "none" /\ ~raborted
    /\ rclient' = "connecting"
    /\ UNCHANGED <<cluster, raborted, masters, node, reply>>

RedisConnected ==
    /\ rclient = "connecting"
    /\ rclient' \in {"ready", "lost"}
    /\ UNCHANGED <<cluster, raborted, masters, node, reply>>

RowSet(r) == {r.rows[i] : i \in DOMAIN r.rows}

\* readMaxRows(): the commands that return a whole collection have a cap of their own.
Unbounded == {"SMEMBERS", "HGETALL", "LRANGE"}
Paged == {"SMEMBERS", "HGETALL"}
CapOf(command, maxRows) ==
    IF maxRows > 0 THEN maxRows ELSE IF command \in Unbounded THEN CollectionCap ELSE 0

\* execute(): a command that changes the connection's state for everybody is refused; one with
\* an iterator is read page by page.
RedisExecute(c, command, maxRows) ==
    /\ reply[c].phase = "none" /\ rclient = "ready"
    /\ reply' = [reply EXCEPT ![c] =
          IF command = "SELECT" THEN [NoReply EXCEPT !.phase = "failed"]
          ELSE [@ EXCEPT !.paged = command \in Paged, !.cap = CapOf(command, maxRows),
                         !.phase = IF command \in Paged THEN "paging" ELSE "sent"]]
    /\ UNCHANGED <<cluster, rclient, raborted, masters, node>>

\* RedisItem, when reaching the cap ends the scan.
RedisItem_EndsAtCap(c, m) ==
    LET r == reply[c]
    IN  /\ r.phase = "paging" /\ rclient = "ready"
        /\ reply' = [reply EXCEPT ![c] =
              [@ EXCEPT !.rows = Append(r.rows, m),
                        !.phase = IF Len(r.rows) + 1 >= r.cap THEN "done" ELSE "paging"]]
        /\ UNCHANGED <<cluster, rclient, raborted, masters, node>>

\* readPaged(): the scan hands out members in any order and may hand one out again; the item
\* that finds the cap reached stops it.
RedisItem(c, m) ==
    LET r == reply[c]
    IN  /\ r.phase = "paging" /\ rclient = "ready"
        /\ reply' = [reply EXCEPT ![c] =
              IF Len(r.rows) >= r.cap THEN [@ EXCEPT !.truncated = TRUE, !.phase = "done"]
              ELSE [@ EXCEPT !.rows = Append(r.rows, m)]]
        /\ UNCHANGED <<cluster, rclient, raborted, masters, node>>

\* The scan ends when every member has been handed out at least once.
RedisScanned(c) ==
    LET r == reply[c]
    IN  /\ r.phase = "paging" /\ rclient = "ready"
        /\ RowSet(r) = 1 .. Members
        /\ reply' = [reply EXCEPT ![c].phase = "done"]
        /\ UNCHANGED <<cluster, rclient, raborted, masters, node>>

\* One reply: an array is cut at the cap, and marked.
RedisReply(c) ==
    LET r == reply[c]
        cut == r.cap > 0 /\ Members > r.cap
    IN  /\ r.phase = "sent" /\ rclient = "ready"
        /\ reply' = [reply EXCEPT ![c] =
              [@ EXCEPT !.phase = "done", !.truncated = cut,
                        !.rows = [i \in 1 .. IF cut THEN r.cap ELSE Members |-> i]]]
        /\ UNCHANGED <<cluster, rclient, raborted, masters, node>>

\* An error reply, or the end of the client: what was read is dropped.
RedisFails(c) ==
    /\ reply[c].phase \in {"sent", "paging", "node", "describing"}
    /\ reply' = [reply EXCEPT ![c] = [NoReply EXCEPT !.phase = "failed"]]
    /\ UNCHANGED <<cluster, rclient, raborted, masters, node>>

\* describe(): the client, or the promise of a node of the cluster, made by the first caller
\* and kept by ??= whatever becomes of it.
RedisDescribe(c) ==
    /\ reply[c].phase = "none" /\ rclient = "ready"
    /\ reply' = [reply EXCEPT ![c].phase = IF cluster THEN "node" ELSE "describing"]
    /\ node' = IF ~cluster \/ node # "none" THEN node
               ELSE IF masters THEN "pending" ELSE "rejected"
    /\ UNCHANGED <<cluster, rclient, raborted, masters>>

NodeSettles ==
    /\ node = "pending"
    /\ node' \in {"kept", "rejected"}
    /\ UNCHANGED <<cluster, rclient, raborted, masters, reply>>

NodeGiven(c) ==
    /\ reply[c].phase = "node" /\ node \in {"kept", "rejected"}
    /\ reply' = [reply EXCEPT ![c].phase = IF node = "kept" THEN "describing" ELSE "failed"]
    /\ UNCHANGED <<cluster, rclient, raborted, masters, node>>

\* The report, every part of which is caught on its own.
Described(c) ==
    /\ reply[c].phase = "describing"
    /\ reply' = [reply EXCEPT ![c].phase = "described"]
    /\ UNCHANGED <<cluster, rclient, raborted, masters, node>>

\* (Bound of the model: only while somebody may still ask for one.)
MastersChange ==
    /\ cluster /\ node = "none"
    /\ masters' = ~masters
    /\ UNCHANGED <<cluster, rclient, raborted, node, reply>>

\* abort() destroys the client under every call that shares it; close() lets it quit.
RedisAbort ==
    /\ rclient # "none"
    /\ rclient' = "none" /\ raborted' = TRUE
    /\ UNCHANGED <<cluster, masters, node, reply>>

RedisClose ==
    /\ rclient # "none"
    /\ rclient' = "none"
    /\ UNCHANGED <<cluster, raborted, masters, node, reply>>

RedisNext ==
    \/ RedisConnect \/ RedisConnected \/ NodeSettles \/ MastersChange
    \/ RedisAbort \/ RedisClose
    \/ \E c \in RedisCalls :
         \/ \E command \in Unbounded \cup {"KEYS", "SELECT"}, maxRows \in Caps :
               RedisExecute(c, command, maxRows)
         \/ (\E m \in 1 .. Members : RedisItem(c, m)) \/ RedisScanned(c)
         \/ RedisReply(c) \/ RedisFails(c)
         \/ RedisDescribe(c) \/ NodeGiven(c) \/ Described(c)

RedisSpec == RedisInit /\ [][RedisNext]_redisVars

----------------------------------------------------------------------------
\* Properties.

RedisTypeOK ==
    /\ {cluster, raborted, masters} \subseteq BOOLEAN
    /\ rclient \in {"none", "connecting", "ready", "lost"}
    /\ node \in {"none", "pending", "kept", "rejected"}
    /\ \A c \in RedisCalls :
          /\ reply[c].phase \in {"none", "sent", "paging", "node", "describing", "described", "done", "failed"}
          /\ RowSet(reply[c]) \subseteq 1 .. Members /\ reply[c].truncated \in BOOLEAN

\* A collection's answer never has more rows than its cap, and one that is not marked
\* truncated holds every member, whatever the scan repeats and in whatever order.  A reply that
\* comes whole is marked exactly when it was cut; a scan that repeats a member may be marked
\* with nothing missing.
RedisTellsWhatIsMissing ==
    \A c \in RedisCalls :
        LET r == reply[c]
            whole == RowSet(r) = 1 .. Members
        IN  r.phase = "done" =>
               /\ r.cap > 0 => Len(r.rows) <= r.cap
               /\ r.truncated \/ whole
               /\ ~r.paged => r.truncated # whole
=============================================================================
