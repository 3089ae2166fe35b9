----------------------------- MODULE MongoAdapter -----------------------------
(***************************************************************************)
(* src/src/adapters/mongodb.js: one client that calls share, the database  *)
(* pinned when it connects, and the reads that collect a cursor document   *)
(* by document.  A collection is the numbers 1 .. Documents in the order   *)
(* the query asks for.  The driver is modelled as the adapter uses it: a    *)
(* client that is closed refuses what is asked of it.                      *)
(***************************************************************************)
EXTENDS Naturals, Sequences

CONSTANTS
    MongoCalls,
    Documents,          \* how many documents match
    DefaultLimit,       \* DEFAULT_LIMIT
    MaxLimit,           \* MAX_LIMIT
    MongoRequests       \* the arguments a call may have; 0 is an option left out

ASSUME MongoAssumption == {Documents, DefaultLimit, MaxLimit} \subseteq Nat

\* resolveLimit() refuses a limit that is not positive, and offsetOf() makes a number of anything.
ASSUME MongoRequestsAssumption ==
    MongoRequests \subseteq [action : {"find", "aggregate"}, limit : Nat, offset : Nat,
                            maxRows : Nat, valid : BOOLEAN]

VARIABLES
    mclient,     \* this.client: "none", or the client it holds
    topology,   \* the client itself: "new", "connecting", "open", "closed"
    pinned,     \* this.db is set
    read        \* call -> its read

mongoVars == <<mclient, topology, pinned, read>>

NoRequest == [action |-> "find", limit |-> 0, offset |-> 0, maxRows |-> 0, valid |-> TRUE]
NoRead == [phase |-> "none", request |-> NoRequest, at |-> 0, end |-> 0,
           rows |-> <<>>, truncated |-> FALSE, cursor |-> FALSE]

MongoInit ==
    /\ mclient = "none" /\ topology = "new" /\ pinned = FALSE
    /\ read = [c \in MongoCalls |-> NoRead]

\* connect(): a URI without a database is refused before there is a client.
MongoConnect ==
    /\ topology = "new"
    /\ mclient' = "held" /\ topology' = "connecting"
    /\ UNCHANGED <<pinned, read>>

\* The driver connects; a client that abort() or close() took away meanwhile is null by now,
\* and connect() rejects.
MongoConnected ==
    /\ topology = "connecting"
    /\ topology' = "open"
    /\ pinned' = (mclient = "held")
    /\ UNCHANGED <<mclient, read>>

MongoConnectFails ==
    /\ topology = "connecting"
    /\ topology' = "closed"
    /\ UNCHANGED <<mclient, pinned, read>>

\* resolveLimit() and explicitLimit().
Capped(limit) == IF limit > MaxLimit THEN MaxLimit ELSE limit
FindLimit(request) == IF request.limit = 0 THEN DefaultLimit ELSE Capped(request.limit)

Least(a, b) == IF a < b THEN a ELSE b

\* The documents the server answers with, as the interval (at, end]: find() skips and then
\* limits whatever the order of the calls on the cursor; the stages of an aggregation run in
\* theirs, and $limit is pushed before $skip.
Window(request) ==
    IF request.action = "find"
    THEN [at |-> Least(request.offset, Documents),
          end |-> Least(request.offset + FindLimit(request), Documents)]
    ELSE LET end == IF request.limit = 0 THEN Documents ELSE Least(Capped(request.limit), Documents)
         IN  [at |-> Least(request.offset, end), end |-> end]

\* execute(): what does not parse, and a pipeline with a write stage, is refused here; the
\* cursor is made on the pinned database, which a close() leaves in place.
MongoExecute(c, request) ==
    /\ read[c].phase = "none"
    /\ read' = [read EXCEPT ![c] =
          IF ~request.valid \/ ~pinned THEN [@ EXCEPT !.phase = "failed", !.request = request]
          ELSE [@ EXCEPT !.phase = "reading", !.request = request, !.cursor = TRUE,
                         !.at = Window(request).at, !.end = Window(request).end]]
    /\ UNCHANGED <<mclient, topology, pinned>>

\* MongoNext, stopping at the cap and not one document after it.
MongoNext_MarksAtCap(c) ==
    LET r == read[c]
        full == r.request.maxRows > 0 /\ Len(r.rows) + 1 = r.request.maxRows
    IN  /\ r.phase = "reading" /\ topology = "open"
        /\ read' = [read EXCEPT ![c] =
              IF r.at = r.end THEN [@ EXCEPT !.phase = "closing"]
              ELSE [@ EXCEPT !.rows = Append(r.rows, r.at + 1), !.at = r.at + 1,
                             !.phase = IF full THEN "closing" ELSE "reading",
                             !.truncated = full]]
        /\ UNCHANGED <<mclient, topology, pinned>>

\* collect(): toArray(), which closes its cursor itself, without a cap; with one, next() until
\* the cursor has no more or hands out a document too many.
MongoNext(c) ==
    LET r == read[c]
        full == r.request.maxRows > 0 /\ Len(r.rows) = r.request.maxRows
    IN  /\ r.phase = "reading" /\ topology = "open"
        /\ read' = [read EXCEPT ![c] =
              IF r.at = r.end THEN [@ EXCEPT !.phase = "closing"]
              ELSE IF full THEN [@ EXCEPT !.phase = "closing", !.truncated = TRUE, !.at = r.at + 1]
              ELSE [@ EXCEPT !.rows = Append(r.rows, r.at + 1), !.at = r.at + 1]]
        /\ UNCHANGED <<mclient, topology, pinned>>

\* An error, maxTimeMS, or a client that is closed: the cursor is closed before it is thrown.
MongoReadFails(c) ==
    /\ read[c].phase = "reading"
    /\ read' = [read EXCEPT ![c].phase = "throwing"]
    /\ UNCHANGED <<mclient, topology, pinned>>

\* finally: cursor.close(), whatever it says.
MongoCursorClosed(c) ==
    /\ read[c].phase \in {"closing", "throwing"}
    /\ read' = [read EXCEPT ![c].cursor = FALSE,
                            ![c].phase = IF @ = "closing" THEN "done" ELSE "failed"]
    /\ UNCHANGED <<mclient, topology, pinned>>

\* The other actions of execute() are one round trip.
MongoAnswers(c) ==
    /\ read[c].phase = "none" /\ pinned /\ topology = "open"
    /\ read' = [read EXCEPT ![c].phase = "answered"]
    /\ UNCHANGED <<mclient, topology, pinned>>

\* abort(): both references go, and the driver drops its sockets; a connect() under way may
\* still get through.
MongoAbort ==
    /\ mclient = "held"
    /\ mclient' = "none" /\ pinned' = FALSE
    /\ topology' \in {"closed"} \cup (IF topology = "connecting" THEN {"connecting"} ELSE {})
    /\ UNCHANGED read

\* close(): only the client's reference goes; the reads under way are not waited for.
MongoClose ==
    /\ mclient = "held"
    /\ mclient' = "none"
    /\ topology' = "closed"
    /\ UNCHANGED <<pinned, read>>

\* A socket dies under the client: isConnected() says so from now on.
MongoLost ==
    /\ topology = "open"
    /\ topology' = "closed"
    /\ UNCHANGED <<mclient, pinned, read>>

MongoStep ==
    \/ MongoConnect \/ MongoConnected \/ MongoConnectFails
    \/ MongoAbort \/ MongoClose \/ MongoLost
    \/ \E c \in MongoCalls :
         \/ \E request \in MongoRequests : MongoExecute(c, request)
         \/ MongoNext(c) \/ MongoReadFails(c) \/ MongoCursorClosed(c) \/ MongoAnswers(c)

MongoSpec == MongoInit /\ [][MongoStep]_mongoVars

----------------------------------------------------------------------------
\* Properties.

MongoTypeOK ==
    /\ mclient \in {"none", "held"}
    /\ topology \in {"new", "connecting", "open", "closed"}
    /\ pinned \in BOOLEAN
    /\ \A c \in MongoCalls :
          /\ read[c].phase \in {"none", "reading", "closing", "throwing", "done", "failed", "answered"}
          /\ read[c].at \in 0 .. Documents /\ read[c].end \in 0 .. Documents
          /\ {read[c].truncated, read[c].cursor} \subseteq BOOLEAN

\* The documents a request names: those after the offset, as many as the limit.
Asked(request) ==
    LET upTo == IF request.action = "find" \/ request.limit > 0
                THEN request.offset + FindLimit(request) ELSE Documents
    IN  Least(upTo, Documents) - Least(request.offset, Documents)

\* What a read hands out is the documents after the offset, in order, up to its cap, and it is
\* marked truncated exactly when the cap left one out; with its cursor closed however it ended.
\* (An aggregation with both a limit and an offset is another page: $limit comes first.)
ReadsThePage(c) ==
    LET r == read[c]
        cap == r.request.maxRows
        capped == cap > 0 /\ cap < Asked(r.request)
    IN  (r.phase = "done" /\ ~(r.request.action = "aggregate" /\ r.request.limit > 0 /\ r.request.offset > 0)) =>
           /\ Len(r.rows) = IF capped THEN cap ELSE Asked(r.request)
           /\ \A i \in DOMAIN r.rows : r.rows[i] = r.request.offset + i
           /\ r.truncated = capped

MongoReadsArePages ==
    /\ \A c \in MongoCalls : ReadsThePage(c)
    /\ \A c \in MongoCalls : read[c].phase \in {"done", "failed"} => ~read[c].cursor
=============================================================================
